----------------------------- MODULE MutexProofs -----------------------------
(***************************************************************************)
(* Mutex for any set of threads, mutexes and priorities: a mutex is owned   *)
(* or free with nobody waiting, its list holds exactly who waits for it,    *)
(* rt_mutex_take tells the truth, and with one mutex at a time an inversion *)
(* of priorities is bounded and inherited priorities are given back.        *)
(***************************************************************************)
EXTENDS Mutex, KernelProofs

(* Where the threads are.  One that deletes a mutex has interrupts disabled, *)
(* so that nobody else runs; one that waits has been told nothing yet.      *)
Points ==
    /\ pc[Idle] = "run"
    /\ pc[rt.current] \in {"run", "woken", "delete"} => rt.stat[rt.current] = "RUNNING"
    /\ \A t \in Threads : pc[t] \in {"run", "sched"} <=> want[t] = None
    /\ \A t \in Threads : pc[t] = "delete" => t = rt.current /\ mutex[want[t]].owner = t
    /\ \A t \in Threads : Waiting(t) => error[t] = "EOK"

(* OwnedOrFree in the three parts that different steps disturb. *)
Objects ==
    \A m \in Mutexes :
        /\ Held(m) <=> mutex[m].value = 0
        /\ Held(m) <=> mutex[m].hold > 0
        /\ Held(m) <=> mutex[m].original # NoPriority
        /\ ~mutex[m].live => ~Held(m)

Lists ==
    \A m \in Mutexes :
        /\ NoDup(mutex[m].list)
        /\ Linked(mutex[m].list) = {t \in Threads : Waiting(t) /\ want[t] = m}

Waits ==
    \A t \in Threads : Waiting(t) =>
        want[t] \in Mutexes /\ Held(want[t]) /\ mutex[want[t]].owner # t

(* The thread that executes is a most urgent one, but for the steps until    *)
(* an rt_schedule that is still owed or about to come.                      *)
HighestRuns ==
    ~owed /\ pc[rt.current] \in {"run", "woken", "delete"} =>
        \A t \in Threads : rt.stat[t] = "READY" => rt.prio[rt.current] <= rt.prio[t]

(* OwnedOrFree and TakeTellsOwner are not inductive alone: that only the     *)
(* thread that executes can be deleting, and that a woken thread has left   *)
(* its list, takes the states of the threads and where each is.             *)
IInv ==
    /\ TypeOK
    /\ KInv(rt) /\ rt.nest = 0
    /\ Points
    /\ Objects /\ Lists /\ Waits
    /\ TakeTellsOwner
    /\ HighestRuns

TakePoints == {"take", "woken"}

-----------------------------------------------------------------------------
(* The kinds of steps *)

LEMMA Typed ==
    ASSUME IInv
    PROVE  /\ rt \in Kernel /\ rt.prio \in [Threads -> Priorities] /\ rt.prio \in [Threads -> Nat]
           /\ rt.stat \in [Threads -> Stats] /\ rt.timer \in [Threads -> BOOLEAN]
           /\ rt.yield \in [Threads -> BOOLEAN]
           /\ rt.current \in Threads
           /\ \A m \in Mutexes : /\ mutex[m] \in Object
                                 /\ mutex[m].list \in Seq(Threads)
                                 /\ mutex[m].owner \in Threads \cup {None}
                                 /\ mutex[m].original \in Priorities \cup {NoPriority}
                                 /\ mutex[m].hold \in 0 .. MaxHold /\ mutex[m].value \in {0, 1}
           /\ \A t \in Threads : pc[t] \in TakePoints \cup {"delete"} => want[t] \in Mutexes
  <1>1. rt \in Kernel
    BY DEF IInv, TypeOK
  <1>2. /\ rt.prio \in [Threads -> Priorities] /\ rt.stat \in [Threads -> Stats]
        /\ rt.timer \in [Threads -> BOOLEAN] /\ rt.current \in Threads
        /\ rt.yield \in [Threads -> BOOLEAN]
    BY <1>1 DEF Kernel
  <1>3. rt.prio \in [Threads -> Nat]
    BY <1>2, PrioritiesAssumption
  <1>4. \A m \in Mutexes : mutex[m] \in Object
    BY DEF IInv, TypeOK
  <1>5. \A t \in Threads : pc[t] \in TakePoints \cup {"delete"} => want[t] \in Mutexes
    <2>1. \A t \in Threads : want[t] \in Mutexes \cup {None}
      BY DEF IInv, TypeOK
    <2> QED BY <2>1 DEF IInv, Points, TakePoints
  <1> QED BY <1>1, <1>2, <1>3, <1>4, <1>5 DEF Object

(* One object changes hands between nobody and t, who is in its own code or  *)
(* about to go on, and nobody waits for it when it does.                    *)
LEMMA OwnerStep ==
    ASSUME IInv, NEW t \in Threads, NEW m \in Mutexes, NEW obj \in Object,
           mutex' = [mutex EXCEPT ![m] = obj],
           obj.list = mutex[m].list,
           obj.owner # None <=> obj.value = 0,
           obj.owner # None <=> obj.hold > 0,
           obj.owner # None <=> obj.original # NoPriority,
           ~obj.live => obj.owner = None,
           mutex[m].owner \in {None, t}, obj.owner \in {None, t},
           obj.owner = mutex[m].owner \/ mutex[m].list = <<>>,
           rt'.stat = rt.stat,
           pc[t] \notin TakePoints, pc'[t] \notin TakePoints,
           \A u \in Threads : u # t => pc'[u] = pc[u] /\ want'[u] = want[u] /\ error'[u] = error[u]
    PROVE  Objects' /\ Lists' /\ Waits' /\ TakeTellsOwner'
  <1>1. mutex \in [Mutexes -> Object] /\ Objects /\ Lists /\ Waits /\ TakeTellsOwner
    BY DEF IInv, TypeOK
  <1>2. /\ mutex'[m] = obj
        /\ \A n \in Mutexes : n # m => mutex'[n] = mutex[n]
        /\ \A n \in Mutexes : mutex'[n].list = mutex[n].list
    BY <1>1
  <1>3. \A u \in Threads : /\ Waiting(u)' <=> Waiting(u)
                           /\ Waiting(u) => u # t
    BY DEF Waiting, TakePoints
  <1>4. Objects'
    <2> SUFFICES ASSUME NEW n \in Mutexes
                 PROVE  /\ (mutex'[n].owner # None) <=> mutex'[n].value = 0
                        /\ (mutex'[n].owner # None) <=> mutex'[n].hold > 0
                        /\ (mutex'[n].owner # None) <=> mutex'[n].original # NoPriority
                        /\ ~mutex'[n].live => mutex'[n].owner = None
      BY DEF Objects, Held
    <2>1. CASE n = m
      BY <1>2, <2>1
    <2>2. CASE n # m
      BY <1>1, <1>2, <2>2 DEF Objects, Held
    <2> QED BY <2>1, <2>2
  <1>5. Lists'
    <2>1. \A n \in Mutexes : {u \in Threads : Waiting(u)' /\ want'[u] = n}
                                = {u \in Threads : Waiting(u) /\ want[u] = n}
      BY <1>3
    <2> QED BY <1>1, <1>2, <2>1 DEF Lists
  <1>6. Waits'
    <2> SUFFICES ASSUME NEW u \in Threads, Waiting(u)'
                 PROVE  want'[u] \in Mutexes /\ mutex'[want'[u]].owner \notin {None, u}
      BY DEF Waits, Held
    <2>1. Waiting(u) /\ want'[u] = want[u]
      BY <1>3
    <2>2. want[u] \in Mutexes /\ mutex[want[u]].owner \notin {None, u}
      BY <1>1, <2>1 DEF Waits, Held
    <2>3. CASE want[u] = m
      <3>1. u \in Linked(mutex[m].list)
        BY <1>1, <2>1, <2>3 DEF Lists
      <3>2. mutex[m].list # <<>>
        BY <3>1 DEF Linked
      <3> QED BY <1>2, <2>1, <2>2, <2>3, <3>2
    <2>4. CASE want[u] # m
      BY <1>2, <2>1, <2>2, <2>4
    <2> QED BY <2>3, <2>4
  <1>7. TakeTellsOwner'
    <2> SUFFICES ASSUME NEW u \in Threads, pc'[u] \in TakePoints, ~Waiting(u)'
                 PROVE  error'[u] = "EOK" <=> mutex'[want'[u]].owner = u
      BY DEF TakeTellsOwner, TakePoints
    <2>1. /\ u # t /\ pc[u] \in TakePoints /\ ~Waiting(u)
          /\ want'[u] = want[u] /\ error'[u] = error[u]
      BY <1>3
    <2>2. error[u] = "EOK" <=> mutex[want[u]].owner = u
      BY <1>1, <2>1 DEF TakeTellsOwner, TakePoints
    <2>3. want[u] \in Mutexes
      BY <2>1, Typed
    <2>4. None # u
      BY NoneAssumption
    <2> QED BY <1>2, <2>1, <2>2, <2>3, <2>4
  <1> QED BY <1>4, <1>5, <1>6, <1>7

(* No object changes, nobody starts or stops waiting. *)
LEMMA SameObjects ==
    ASSUME IInv, mutex' = mutex,
           \A u \in Threads : /\ Waiting(u)' <=> Waiting(u)
                              /\ pc'[u] \in TakePoints => /\ pc[u] \in TakePoints
                                                          /\ want'[u] = want[u]
                                                          /\ error'[u] = error[u]
    PROVE  Objects' /\ Lists' /\ Waits' /\ TakeTellsOwner'
  <1>1. Objects /\ Lists /\ Waits /\ TakeTellsOwner
    BY DEF IInv
  <1>2. Objects'
    BY <1>1 DEF Objects, Held
  <1>3. \A u \in Threads : Waiting(u) => want'[u] = want[u]
    BY DEF Waiting, TakePoints
  <1>4. Lists'
    <2>1. \A n \in Mutexes : {u \in Threads : Waiting(u)' /\ want'[u] = n}
                                = {u \in Threads : Waiting(u) /\ want[u] = n}
      BY <1>3
    <2> QED BY <1>1, <2>1 DEF Lists
  <1>5. Waits'
    <2> SUFFICES ASSUME NEW u \in Threads, Waiting(u)'
                 PROVE  want'[u] \in Mutexes /\ mutex'[want'[u]].owner \notin {None, u}
      BY DEF Waits, Held
    <2>1. Waiting(u) /\ want'[u] = want[u]
      BY <1>3
    <2> QED BY <1>1, <2>1 DEF Waits, Held
  <1>6. TakeTellsOwner'
    BY <1>1 DEF TakeTellsOwner, TakePoints
  <1> QED BY <1>2, <1>4, <1>5, <1>6

(* x stops waiting and is off its list: it was given the mutex, or is told   *)
(* that it was not.                                                        *)
LEMMA LeaveStep ==
    ASSUME IInv, NEW x \in Threads, Waiting(x), NEW m \in Mutexes, m = want[x],
           \A n \in Mutexes :
                /\ mutex'[n].list = rt_list_remove(mutex[n].list, x)
                /\ mutex'[n].value = mutex[n].value /\ mutex'[n].hold = mutex[n].hold
                /\ mutex'[n].live = mutex[n].live,
           \A n \in Mutexes : n # m => /\ mutex'[n].owner = mutex[n].owner
                                       /\ mutex'[n].original = mutex[n].original,
           \/ /\ mutex'[m].owner = mutex[m].owner /\ mutex'[m].original = mutex[m].original
              /\ error'[x] # "EOK"
           \/ /\ mutex'[m].owner = x /\ mutex'[m].original \in Priorities
              /\ error'[x] = "EOK" /\ pc[mutex[m].owner] \notin TakePoints,
           want' = want,
           \A u \in Threads : /\ u # x => error'[u] = error[u]
                              /\ rt'.stat[u] = "SUSPEND" <=> rt.stat[u] = "SUSPEND" /\ u # x
                              /\ pc'[u] \in TakePoints <=> pc[u] \in TakePoints
    PROVE  Objects' /\ Lists' /\ Waits' /\ TakeTellsOwner'
  <1>1. Objects /\ Lists /\ Waits /\ TakeTellsOwner
    BY DEF IInv
  <1>2. /\ \A n \in Mutexes : mutex[n].list \in Seq(Threads)
        /\ \A u \in Threads : pc[u] \in TakePoints => want[u] \in Mutexes
    BY Typed
  <1>3. \A u \in Threads : Waiting(u)' <=> Waiting(u) /\ u # x
    BY DEF Waiting, TakePoints
  <1>4. Held(m) /\ mutex[m].owner # x
    BY <1>1 DEF Waits
  <1>5. x # None /\ NoPriority \notin Priorities
    BY NoneAssumption, NoPriorityAssumption
  <1>6. \A n \in Mutexes : Held(n)' <=> Held(n)
    BY <1>4, <1>5 DEF Held
  <1>7. Objects'
    <2> SUFFICES ASSUME NEW n \in Mutexes
                 PROVE  /\ Held(n)' <=> mutex'[n].value = 0
                        /\ Held(n)' <=> mutex'[n].hold > 0
                        /\ Held(n)' <=> mutex'[n].original # NoPriority
                        /\ ~mutex'[n].live => ~Held(n)'
      BY DEF Objects
    <2>1. /\ Held(n) <=> mutex[n].value = 0
          /\ Held(n) <=> mutex[n].hold > 0
          /\ Held(n) <=> mutex[n].original # NoPriority
          /\ ~mutex[n].live => ~Held(n)
      BY <1>1 DEF Objects
    <2>2. mutex[n].original # NoPriority <=> mutex'[n].original # NoPriority
      BY <1>4, <1>5, <2>1
    <2> QED BY <1>6, <2>1, <2>2
  <1>8. Lists'
    <2> SUFFICES ASSUME NEW n \in Mutexes
                 PROVE  /\ NoDup(mutex'[n].list)
                        /\ Linked(mutex'[n].list) = {u \in Threads : Waiting(u)' /\ want'[u] = n}
      BY DEF Lists
    <2>1. /\ NoDup(mutex[n].list)
          /\ Linked(mutex[n].list) = {u \in Threads : Waiting(u) /\ want[u] = n}
      BY <1>1 DEF Lists
    <2>2. /\ NoDup(mutex'[n].list)
          /\ Linked(mutex'[n].list) = Linked(mutex[n].list) \ {x}
      BY <1>2, <2>1, RemoveLemma
    <2>3. {u \in Threads : Waiting(u)' /\ want'[u] = n}
            = {u \in Threads : Waiting(u) /\ want[u] = n} \ {x}
      BY <1>3
    <2> QED BY <2>1, <2>2, <2>3
  <1>9. Waits'
    <2> SUFFICES ASSUME NEW u \in Threads, Waiting(u)'
                 PROVE  want'[u] \in Mutexes /\ mutex'[want'[u]].owner \notin {None, u}
      BY DEF Waits, Held
    <2>1. Waiting(u) /\ u # x
      BY <1>3
    <2>2. want[u] \in Mutexes /\ Held(want[u]) /\ mutex[want[u]].owner # u
      BY <1>1, <2>1 DEF Waits
    <2>3. mutex'[want[u]].owner # u
      BY <2>1, <2>2
    <2>4. mutex'[want[u]].owner # None
      BY <1>6, <2>2 DEF Held
    <2> QED BY <2>2, <2>3, <2>4
  <1>10. TakeTellsOwner'
    <2> SUFFICES ASSUME NEW u \in Threads, pc'[u] \in TakePoints, ~Waiting(u)'
                 PROVE  error'[u] = "EOK" <=> mutex'[want'[u]].owner = u
      BY DEF TakeTellsOwner, TakePoints
    <2>1. pc[u] \in TakePoints /\ want[u] \in Mutexes
      BY <1>2
    <2>2. CASE u = x
      BY <1>4, <2>2
    <2>3. CASE u # x
      <3>1. error[u] = "EOK" <=> mutex[want[u]].owner = u
        BY <1>1, <1>3, <2>1, <2>3 DEF TakeTellsOwner, TakePoints
      <3>2. mutex'[want[u]].owner = u <=> mutex[want[u]].owner = u
        BY <2>1, <2>3
      <3> QED BY <2>3, <3>1, <3>2
    <2> QED BY <2>2, <2>3
  <1> QED BY <1>7, <1>8, <1>9, <1>10

-----------------------------------------------------------------------------
(* The calls that change one object *)

(* Whoever makes a call executes, is RUNNING, and nobody deletes. *)
LEMMA CallerLemma ==
    ASSUME IInv, NEW t \in Threads, At(t, "run")
    PROVE  /\ t = rt.current /\ pc[t] = "run" /\ rt.stat[t] = "RUNNING" /\ want[t] = None
           /\ ~Waiting(t)
           /\ \A u \in Threads : pc[u] # "delete"
  BY DEF IInv, Points, At, Waiting

(* Nobody waits for a mutex that is free. *)
LEMMA FreeLemma ==
    ASSUME IInv, NEW m \in Mutexes, ~Held(m)
    PROVE  mutex[m].list = <<>>
  <1>1. mutex[m].list \in Seq(Threads)
    BY Typed
  <1>2. Linked(mutex[m].list) = {}
    BY DEF IInv, Lists, Waits
  <1> QED BY <1>1, <1>2, EmptyLemma

(* What Objects says of one object. *)
Consistent(obj) ==
    /\ obj.owner # None <=> obj.value = 0
    /\ obj.owner # None <=> obj.hold > 0
    /\ obj.owner # None <=> obj.original # NoPriority
    /\ ~obj.live => obj.owner = None

LEMMA CallKeepsIInv ==
    ASSUME IInv, NEW t \in Threads, At(t, "run"), NEW m \in Mutexes, NEW obj \in Object,
           mutex' = [mutex EXCEPT ![m] = obj],
           obj.list = mutex[m].list, Consistent(obj),
           mutex[m].owner \in {None, t}, obj.owner \in {None, t},
           obj.owner = mutex[m].owner \/ mutex[m].list = <<>>,
           KInv(rt'), rt'.stat = rt.stat, rt'.nest = rt.nest, rt'.current = rt.current,
           ~owed' => ~owed /\ rt'.prio = rt.prio,
           owed' \in BOOLEAN, UNCHANGED <<threadvars, own>>
    PROVE  IInv'
  <1>1. /\ t = rt.current /\ pc[t] = "run" /\ rt.stat[t] = "RUNNING" /\ want[t] = None
        /\ \A u \in Threads : pc[u] # "delete"
    BY CallerLemma
  <1>2. pc' = pc /\ want' = want /\ error' = error /\ own' = own
    BY DEF threadvars
  <1>3. /\ TypeOK /\ KInv(rt) /\ rt.nest = 0 /\ Points /\ HighestRuns
    BY DEF IInv
  <1>4. TypeOK'
    <2>1. rt' \in Kernel
      BY DEF KInv, Queues
    <2>2. mutex' \in [Mutexes -> Object]
      BY <1>3 DEF TypeOK
    <2> QED BY <1>2, <1>3, <2>1, <2>2 DEF TypeOK
  <1>5. Objects' /\ Lists' /\ Waits' /\ TakeTellsOwner'
    BY <1>1, <1>2, OwnerStep DEF TakePoints, Consistent
  <1>6. Points'
    BY <1>1, <1>2, <1>3 DEF Points, Waiting
  <1>7. HighestRuns'
    BY <1>1, <1>2, <1>3 DEF HighestRuns
  <1> QED BY <1>3, <1>4, <1>5, <1>6, <1>7 DEF IInv

LEMMA TakeFreeKeeps ==
    ASSUME IInv, NEW t \in Threads, NEW m \in Mutexes, TakeFree(t, m)
    PROVE  IInv'
  <1> DEFINE obj == [mutex[m] EXCEPT !.value = @ - 1, !.owner = t,
                                     !.original = rt.prio[t], !.hold = @ + 1]
  <1>1. /\ At(t, "run") /\ mutex[m].live /\ mutex[m].value > 0
        /\ UNCHANGED <<rt, threadvars, owed, own>>
    BY DEF TakeFree, Calls
  <1>2. /\ mutex[m] \in Object /\ mutex[m].value \in {0, 1} /\ mutex[m].hold \in 0 .. MaxHold
        /\ rt.prio[t] \in Priorities /\ mutex[m].owner \in Threads \cup {None}
    BY Typed
  <1>3. mutex[m].value = 1 /\ mutex[m].owner = None /\ mutex[m].hold = 0
    BY <1>1, <1>2 DEF IInv, Objects, Held
  <1>4. mutex[m].list = <<>>
    BY <1>3, FreeLemma DEF Held
  <1>5. mutex' = [mutex EXCEPT ![m] = obj]
    BY DEF TakeFree, IInv, TypeOK
  <1>6. /\ obj.value = 0 /\ obj.owner = t /\ obj.original = rt.prio[t] /\ obj.hold = 1
        /\ obj.list = mutex[m].list /\ obj.live = mutex[m].live
    BY <1>2, <1>3 DEF Object
  <1>7. obj \in Object
    <2>1. 1 \in 0 .. MaxHold /\ 0 \in {0, 1} /\ 1 - 1 = 0 /\ 0 + 1 = 1
      BY MaxHoldAssumption
    <2> QED BY <1>2, <1>3, <2>1 DEF Object
  <1>8. t # None /\ rt.prio[t] # NoPriority
    BY <1>2, NoneAssumption, NoPriorityAssumption
  <1>9. /\ KInv(rt') /\ rt'.stat = rt.stat /\ rt'.nest = rt.nest /\ rt'.current = rt.current
        /\ (~owed' => ~owed /\ rt'.prio = rt.prio) /\ owed' \in BOOLEAN
        /\ UNCHANGED <<threadvars, own>>
    BY <1>1 DEF IInv, TypeOK
  <1> HIDE DEF obj
  <1>10. Consistent(obj)
    BY <1>1, <1>6, <1>8 DEF Consistent
  <1> QED BY <1>1, <1>3, <1>4, <1>5, <1>6, <1>7, <1>9, <1>10, CallKeepsIInv

(* The owner's hold count goes up or down and does not reach 0. *)
LEMMA HoldKeeps ==
    ASSUME IInv, NEW t \in Threads, NEW m \in Mutexes, Calls(t, m), mutex[m].owner = t,
           NEW h \in 1 .. MaxHold, mutex' = [mutex EXCEPT ![m].hold = h],
           UNCHANGED <<rt, threadvars, owed, own>>
    PROVE  IInv'
  <1> DEFINE obj == [mutex[m] EXCEPT !.hold = h]
  <1>1. At(t, "run") /\ mutex[m].live
    BY DEF Calls
  <1>2. mutex[m] \in Object /\ h \in 0 .. MaxHold /\ h > 0
    BY Typed, MaxHoldAssumption
  <1>3. t # None
    BY NoneAssumption
  <1>4. mutex[m].value = 0 /\ mutex[m].original # NoPriority
    BY <1>3 DEF IInv, Objects, Held
  <1>5. mutex' = [mutex EXCEPT ![m] = obj]
    BY DEF IInv, TypeOK
  <1>6. /\ obj.value = 0 /\ obj.owner = t /\ obj.original = mutex[m].original /\ obj.hold = h
        /\ obj.list = mutex[m].list /\ obj.live = mutex[m].live
    BY <1>2, <1>4 DEF Object
  <1>7. obj \in Object
    BY <1>2 DEF Object
  <1>8. /\ KInv(rt') /\ rt'.stat = rt.stat /\ rt'.nest = rt.nest /\ rt'.current = rt.current
        /\ (~owed' => ~owed /\ rt'.prio = rt.prio) /\ owed' \in BOOLEAN
        /\ UNCHANGED <<threadvars, own>>
    BY DEF IInv, TypeOK
  <1> HIDE DEF obj
  <1>9. Consistent(obj)
    BY <1>1, <1>2, <1>3, <1>4, <1>6 DEF Consistent
  <1>10. /\ obj.list = mutex[m].list /\ mutex[m].owner \in {None, t} /\ obj.owner \in {None, t}
         /\ obj.owner = mutex[m].owner
    BY <1>6
  <1> QED BY ONLY IInv, t \in Threads, m \in Mutexes, <1>1, <1>5, <1>7, <1>8, <1>9, <1>10, CallKeepsIInv

LEMMA TakeAgainKeeps ==
    ASSUME IInv, NEW t \in Threads, NEW m \in Mutexes, TakeAgain(t, m)
    PROVE  IInv'
  <1>1. mutex[m].hold \in 0 .. MaxHold /\ MaxHold \in Nat
    BY Typed, MaxHoldAssumption
  <1>2. PICK h : h = mutex[m].hold + 1
    OBVIOUS
  <1>3. h \in 1 .. MaxHold
    BY <1>1, <1>2 DEF TakeAgain
  <1>4. /\ Calls(t, m) /\ mutex[m].owner = t /\ mutex' = [mutex EXCEPT ![m].hold = h]
        /\ UNCHANGED <<rt, threadvars, owed, own>>
    BY <1>2 DEF TakeAgain
  <1> QED BY <1>3, <1>4, HoldKeeps

LEMMA ReleaseInnerKeeps ==
    ASSUME IInv, NEW t \in Threads, NEW m \in Mutexes, ReleaseInner(t, m)
    PROVE  IInv'
  <1>1. mutex[m].hold \in 0 .. MaxHold /\ MaxHold \in Nat
    BY Typed, MaxHoldAssumption
  <1>2. PICK h : h = mutex[m].hold - 1
    OBVIOUS
  <1>3. h \in 1 .. MaxHold
    BY <1>1, <1>2 DEF ReleaseInner
  <1>4. /\ Calls(t, m) /\ mutex[m].owner = t /\ mutex' = [mutex EXCEPT ![m].hold = h]
        /\ UNCHANGED <<rt, threadvars, owed, own>>
    BY <1>2 DEF ReleaseInner
  <1> QED BY <1>3, <1>4, HoldKeeps

LEMMA FreeIsObject ==
    /\ Free \in Object /\ [Free EXCEPT !.live = FALSE] \in Object
    /\ Free.value = 1 /\ Free.owner = None /\ Free.hold = 0 /\ Free.original = NoPriority
    /\ Free.list = <<>> /\ Free.live = TRUE
    /\ Consistent(Free)
    /\ LET gone == [Free EXCEPT !.live = FALSE] IN
       /\ gone.owner = None /\ gone.list = <<>> /\ Consistent(gone)
  <1> DEFINE gone == [Free EXCEPT !.live = FALSE]
  <1>1. <<>> \in Seq(Threads) /\ 0 \in 0 .. MaxHold
    BY MaxHoldAssumption
  <1>2. Free \in Object
    BY <1>1 DEF Free, Object
  <1>3. gone \in Object
    BY <1>2 DEF Object
  <1>4. /\ Free.value = 1 /\ Free.owner = None /\ Free.hold = 0 /\ Free.original = NoPriority
        /\ Free.list = <<>> /\ Free.live = TRUE
    BY DEF Free
  <1>5. /\ gone.value = 1 /\ gone.owner = None /\ gone.hold = 0 /\ gone.original = NoPriority
        /\ gone.list = <<>> /\ gone.live = FALSE
    BY DEF Free
  <1> HIDE DEF gone
  <1>6. Consistent(Free)
    BY <1>4 DEF Consistent
  <1>7. Consistent(gone)
    BY <1>5 DEF Consistent
  <1> QED BY <1>2, <1>3, <1>4, <1>5, <1>6, <1>7 DEF gone

(* The priority the owner had when it became the owner, and nothing else. *)
LEMMA RestoreLemma ==
    ASSUME IInv, NEW t \in Threads, NEW m \in Mutexes, Held(m)
    PROVE  LET n == Restore(rt, t, m) IN
           /\ KInv(n) /\ n.stat = rt.stat /\ n.prio = [rt.prio EXCEPT ![t] = mutex[m].original]
           /\ n.current = rt.current /\ n.nest = rt.nest /\ n.timer = rt.timer
  <1> DEFINE p == mutex[m].original
  <1>1. /\ KInv(rt) /\ p \in Priorities /\ rt.prio \in [Threads -> Priorities]
    BY Typed DEF IInv, Objects
  <1>2. CASE p # rt.prio[t]
    BY <1>1, <1>2, ChangePriorityLemma DEF Restore
  <1>3. CASE p = rt.prio[t]
    BY <1>1, <1>3 DEF Restore
  <1> QED BY <1>2, <1>3

LEMMA ReleaseFreesKeeps ==
    ASSUME IInv, NEW t \in Threads, NEW m \in Mutexes, ReleaseFrees(t, m)
    PROVE  IInv'
  <1>1. /\ At(t, "run") /\ mutex[m].owner = t /\ mutex[m].list = <<>>
        /\ rt' = Restore(rt, t, m) /\ mutex' = [mutex EXCEPT ![m] = Free]
        /\ owed' = (owed \/ rt'.prio # rt.prio)
        /\ UNCHANGED <<threadvars, own>>
    BY DEF ReleaseFrees, Calls, rt_list_isempty
  <1>2. Held(m)
    BY <1>1, NoneAssumption DEF Held
  <1>3. /\ KInv(rt') /\ rt'.stat = rt.stat /\ rt'.current = rt.current /\ rt'.nest = rt.nest
    BY <1>1, <1>2, RestoreLemma
  <1>4. owed \in BOOLEAN
    BY DEF IInv, TypeOK
  <1>5. owed' \in BOOLEAN /\ (~owed' => ~owed /\ rt'.prio = rt.prio)
    BY <1>1, <1>4
  <1> QED BY <1>1, <1>3, <1>5, FreeIsObject, CallKeepsIInv

LEMMA InitKeeps ==
    ASSUME IInv, NEW t \in Threads, NEW m \in Mutexes, rt_mutex_init(t, m)
    PROVE  IInv'
  <1>1. /\ At(t, "run") /\ ~mutex[m].live /\ mutex' = [mutex EXCEPT ![m] = Free]
        /\ UNCHANGED <<rt, threadvars, owed, own>>
    BY DEF rt_mutex_init
  <1>2. mutex[m].owner = None
    BY <1>1 DEF IInv, Objects, Held
  <1>3. mutex[m].list = <<>>
    BY <1>2, FreeLemma DEF Held
  <1>4. /\ KInv(rt') /\ rt'.stat = rt.stat /\ rt'.nest = rt.nest /\ rt'.current = rt.current
        /\ (~owed' => ~owed /\ rt'.prio = rt.prio) /\ owed' \in BOOLEAN
        /\ UNCHANGED <<threadvars, own>>
    BY <1>1 DEF IInv, TypeOK
  <1> QED BY <1>1, <1>2, <1>3, <1>4, FreeIsObject, CallKeepsIInv

(* A step that changes neither an owner nor a priority; at most x leaves a   *)
(* list, and nobody starts to wait.                                        *)
Quiet(x) ==
    /\ \A n \in Mutexes : /\ mutex'[n].owner = mutex[n].owner
                          /\ mutex'[n].original = mutex[n].original
                          /\ \/ mutex'[n].list = mutex[n].list
                             \/ mutex'[n].list = rt_list_remove(mutex[n].list, x)
    /\ rt'.prio = rt.prio /\ own' = own
    /\ \A u \in Threads : Waiting(u)' => Waiting(u)

-----------------------------------------------------------------------------
(* Deletion: the owner's place changes, the object goes when nobody waits *)

LEMMA DeleteKeeps ==
    ASSUME IInv, NEW t \in Threads, NEW m \in Mutexes, rt_mutex_delete(t, m)
    PROVE  IInv' /\ \E x \in Threads : Quiet(x)
  <1>1. /\ At(t, "run") /\ t # Idle /\ mutex[m].owner = t
        /\ pc' = [pc EXCEPT ![t] = "delete"] /\ want' = [want EXCEPT ![t] = m]
        /\ rt' = rt /\ mutex' = mutex /\ error' = error /\ owed' = owed /\ own' = own
    BY DEF rt_mutex_delete, Calls, Goto
  <1>2. /\ t = rt.current /\ pc[t] = "run" /\ rt.stat[t] = "RUNNING"
        /\ \A u \in Threads : pc[u] # "delete"
    BY <1>1, CallerLemma
  <1>3. TypeOK /\ KInv(rt) /\ rt.nest = 0 /\ Points /\ HighestRuns
    BY DEF IInv
  <1>4. pc \in [Threads -> PCs] /\ want \in [Threads -> Mutexes \cup {None}]
    BY <1>3 DEF TypeOK
  <1>5. \A u \in Threads : /\ pc'[u] = IF u = t THEN "delete" ELSE pc[u]
                           /\ want'[u] = IF u = t THEN m ELSE want[u]
    BY <1>1, <1>4
  <1>6. TypeOK'
    BY <1>1, <1>3, <1>4 DEF TypeOK, PCs
  <1>7. \A u \in Threads : Waiting(u)' <=> Waiting(u)
    BY <1>1, <1>2, <1>5 DEF Waiting
  <1>8. Objects' /\ Lists' /\ Waits' /\ TakeTellsOwner'
    BY <1>1, <1>2, <1>5, <1>7, SameObjects DEF TakePoints
  <1>9. Points'
    <2>1. m # None
      BY NoneAssumption
    <2> QED BY <1>1, <1>2, <1>3, <1>5, <1>7, <2>1, IdleAssumption DEF Points
  <1>10. HighestRuns'
    BY <1>1, <1>2, <1>3, <1>5 DEF HighestRuns
  <1>11. Quiet(t)
    BY <1>1, <1>7 DEF Quiet
  <1> QED BY <1>1, <1>3, <1>6, <1>8, <1>9, <1>10, <1>11 DEF IInv

LEMMA ObjectDeleteKeeps ==
    ASSUME IInv, NEW t \in Threads, rt_object_delete(t)
    PROVE  IInv'
  <1> DEFINE gone == [Free EXCEPT !.live = FALSE]
  <1>1. /\ t = rt.current /\ pc[t] = "delete" /\ mutex[want[t]].list = <<>>
        /\ pc' = [pc EXCEPT ![t] = "run"] /\ want' = [want EXCEPT ![t] = None]
        /\ mutex' = [mutex EXCEPT ![want[t]] = gone]
        /\ rt' = rt /\ error' = error /\ owed' = owed
        /\ own' = [own EXCEPT ![t] = rt.prio[t]]
    BY DEF rt_object_delete, At, Goto, rt_list_isempty
  <1>2. TypeOK /\ KInv(rt) /\ rt.nest = 0 /\ Points /\ HighestRuns
    BY DEF IInv
  <1>3. pc \in [Threads -> PCs] /\ want \in [Threads -> Mutexes \cup {None}]
    BY <1>2 DEF TypeOK
  <1>4. /\ want[t] \in Mutexes /\ mutex[want[t]].owner = t
        /\ rt.stat[t] = "RUNNING" /\ t # Idle
    BY <1>1, <1>2, Typed DEF Points, TakePoints
  <1>5. \A u \in Threads : /\ pc'[u] = IF u = t THEN "run" ELSE pc[u]
                           /\ want'[u] = IF u = t THEN None ELSE want[u]
    BY <1>1, <1>3
  <1>6. gone \in Object /\ gone.owner = None /\ gone.list = <<>> /\ Consistent(gone)
    BY FreeIsObject
  <1> HIDE DEF gone
  <1>7. TypeOK'
    <2>1. own' \in [Threads -> Priorities]
      BY <1>1, <1>2 DEF TypeOK, Kernel
    <2> QED BY <1>1, <1>2, <1>3, <1>4, <1>6, <2>1 DEF TypeOK, PCs
  <1>8. PICK m \in Mutexes : m = want[t]
    BY <1>4
  <1>9. Objects' /\ Lists' /\ Waits' /\ TakeTellsOwner'
    <2>1. mutex' = [mutex EXCEPT ![m] = gone]
      BY <1>1, <1>8
    <2>2. /\ gone.list = mutex[m].list /\ mutex[m].owner \in {None, t} /\ gone.owner \in {None, t}
          /\ mutex[m].list = <<>>
      BY <1>1, <1>4, <1>6, <1>8
    <2>3. /\ pc[t] \notin TakePoints /\ pc'[t] \notin TakePoints /\ rt'.stat = rt.stat
          /\ \A u \in Threads : u # t => /\ pc'[u] = pc[u] /\ want'[u] = want[u]
                                         /\ error'[u] = error[u]
      BY <1>1, <1>5 DEF TakePoints
    <2> QED BY <1>6, <2>1, <2>2, <2>3, OwnerStep DEF Consistent
  <1>10. Points'
    <2>1. \A u \in Threads : Waiting(u)' <=> Waiting(u)
      BY <1>1, <1>5 DEF Waiting
    <2>2. \A u \in Threads : u # t => pc[u] # "delete"
      BY <1>1, <1>2 DEF Points
    <2> QED BY <1>1, <1>2, <1>4, <1>5, <2>1, <2>2, IdleAssumption DEF Points
  <1>11. HighestRuns'
    BY <1>1, <1>2, <1>5 DEF HighestRuns
  <1> QED BY <1>1, <1>2, <1>7, <1>9, <1>10, <1>11 DEF IInv

-----------------------------------------------------------------------------
(* The steps by which a thread leaves a list *)

(* A thread that waits is on the list of the mutex it wants and on no other. *)
LEMMA OnOneList ==
    ASSUME IInv, NEW x \in Threads, Waiting(x)
    PROVE  /\ x \in Linked(mutex[want[x]].list) /\ want[x] \in Mutexes
           /\ \A n \in Mutexes : n # want[x] => rt_list_remove(mutex[n].list, x) = mutex[n].list
  <1>1. Lists /\ Waits
    BY DEF IInv
  <1>2. want[x] \in Mutexes
    BY <1>1 DEF Waits
  <1>3. \A n \in Mutexes : x \in Linked(mutex[n].list) <=> want[x] = n
    BY <1>1 DEF Lists
  <1>4. \A n \in Mutexes : n # want[x] => rt_list_remove(mutex[n].list, x) = mutex[n].list
    BY <1>3 DEF rt_list_remove
  <1> QED BY <1>2, <1>3, <1>4

(* The first of a list waits for that mutex. *)
LEMMA HeadWaits ==
    ASSUME IInv, NEW m \in Mutexes, mutex[m].list # <<>>
    PROVE  LET x == Head(mutex[m].list) IN
           /\ x \in Threads /\ Waiting(x) /\ want[x] = m /\ rt.stat[x] = "SUSPEND"
           /\ error[x] = "EOK" /\ pc[x] \in TakePoints
           /\ Held(m) /\ mutex[m].owner # x
  <1>1. mutex[m].list \in Seq(Threads) /\ Lists /\ Points /\ Waits
    BY Typed DEF IInv
  <1>2. Head(mutex[m].list) \in Linked(mutex[m].list)
    BY <1>1, EmptyLemma
  <1>3. PICK x : x = Head(mutex[m].list)
    OBVIOUS
  <1>4. x \in Threads /\ Waiting(x) /\ want[x] = m
    BY <1>1, <1>2, <1>3 DEF Lists
  <1> QED BY <1>1, <1>3, <1>4 DEF Points, Waits, Waiting, TakePoints

LEMMA HandOverKeeps ==
    ASSUME IInv, NEW t \in Threads, NEW m \in Mutexes, ReleaseHandsOver(t, m)
    PROVE  /\ IInv'
           /\ \E x \in Threads :
                /\ Waiting(x) /\ want[x] = m /\ x = Head(mutex[m].list) /\ x # t
                /\ rt'.prio = [rt.prio EXCEPT ![t] = mutex[m].original]
                /\ mutex'[m].owner = x /\ mutex'[m].original = rt'.prio[x]
                /\ mutex'[m].list = rt_list_remove(mutex[m].list, x)
                /\ \A n \in Mutexes : n # m => mutex'[n] = mutex[n]
                /\ \A u \in Threads : Waiting(u)' => Waiting(u) /\ u # x
  <1>1. PICK x : x = Head(mutex[m].list)
    OBVIOUS
  <1>2. /\ At(t, "run") /\ t # Idle /\ mutex[m].live /\ mutex[m].owner = t /\ mutex[m].list # <<>>
        /\ rt' = ResumeThread(Restore(rt, t, m), x)
        /\ mutex' = [mutex EXCEPT ![m].owner = x, ![m].original = rt'.prio[x],
                                  ![m].list = rt_list_remove(@, x)]
        /\ pc' = [pc EXCEPT ![t] = "sched"]
        /\ want' = want /\ error' = error /\ owed' = owed /\ own' = own
    BY <1>1 DEF ReleaseHandsOver, Calls, Goto, rt_list_isempty
  <1>3. /\ x \in Threads /\ Waiting(x) /\ want[x] = m /\ rt.stat[x] = "SUSPEND"
        /\ error[x] = "EOK" /\ pc[x] \in TakePoints /\ Held(m) /\ x # t
    BY <1>1, <1>2, HeadWaits
  <1>4. /\ t = rt.current /\ pc[t] = "run" /\ rt.stat[t] = "RUNNING" /\ want[t] = None
        /\ \A u \in Threads : pc[u] # "delete"
    BY <1>2, CallerLemma
  <1>5. TypeOK /\ rt.nest = 0 /\ Points
    BY DEF IInv
  <1>6. PICK k : k = Restore(rt, t, m)
    OBVIOUS
  <1>7. /\ KInv(k) /\ k.stat = rt.stat /\ k.prio = [rt.prio EXCEPT ![t] = mutex[m].original]
        /\ k.current = rt.current /\ k.nest = rt.nest
    BY <1>3, <1>6, RestoreLemma
  <1>8. /\ KInv(rt') /\ rt'.stat = [rt.stat EXCEPT ![x] = "READY"]
        /\ rt'.prio = k.prio /\ rt'.current = rt.current /\ rt'.nest = 0
    <2>1. rt' = ResumeThread(k, x)
      BY <1>2, <1>6
    <2>2. KInv(k) /\ k.stat[x] = "SUSPEND" /\ x # k.current
      BY <1>3, <1>4, <1>7
    <2>3. /\ KInv(rt')
          /\ rt'.stat = [k.stat EXCEPT ![x] = IF x = k.current THEN "RUNNING" ELSE "READY"]
          /\ rt'.prio = k.prio /\ rt'.current = k.current /\ rt'.nest = k.nest
      <3>1. KInv(k) /\ x \in Threads /\ k.stat[x] = "SUSPEND"
        BY <1>3, <2>2
      <3> QED BY ONLY <2>1, <3>1, ResumeThreadLemma
    <2> QED BY <1>5, <1>7, <2>2, <2>3
  <1>9. rt' \in Kernel /\ rt'.prio[x] \in Priorities
    BY <1>3, <1>8 DEF KInv, Queues, Kernel
  <1>10. /\ pc \in [Threads -> PCs] /\ mutex \in [Mutexes -> Object] /\ mutex[m] \in Object
         /\ rt.stat \in [Threads -> Stats]
    BY <1>5, Typed DEF TypeOK
  <1>11. \A u \in Threads : /\ pc'[u] = IF u = t THEN "sched" ELSE pc[u]
                            /\ rt'.stat[u] = IF u = x THEN "READY" ELSE rt.stat[u]
    BY <1>2, <1>8, <1>10
  <1>12. rt_list_remove(mutex[m].list, x) \in Seq(Threads)
    <2>1. mutex[m].list \in Seq(Threads) /\ NoDup(mutex[m].list)
      BY Typed DEF IInv, Lists
    <2> QED BY <2>1, RemoveLemma
  <1>13. mutex' \in [Mutexes -> Object]
    BY <1>2, <1>3, <1>9, <1>10, <1>12 DEF Object
  <1>14. TypeOK'
    BY <1>2, <1>5, <1>9, <1>10, <1>13 DEF TypeOK, PCs
  <1>15. /\ \A n \in Mutexes :
                /\ mutex'[n].list = rt_list_remove(mutex[n].list, x)
                /\ mutex'[n].value = mutex[n].value /\ mutex'[n].hold = mutex[n].hold
                /\ mutex'[n].live = mutex[n].live
         /\ \A n \in Mutexes : n # m => /\ mutex'[n].owner = mutex[n].owner
                                        /\ mutex'[n].original = mutex[n].original
         /\ mutex'[m].owner = x /\ mutex'[m].original = rt'.prio[x]
    <2>1. /\ mutex'[m].list = rt_list_remove(mutex[m].list, x)
          /\ mutex'[m].value = mutex[m].value /\ mutex'[m].hold = mutex[m].hold
          /\ mutex'[m].live = mutex[m].live
          /\ mutex'[m].owner = x /\ mutex'[m].original = rt'.prio[x]
      BY <1>2, <1>10 DEF Object
    <2>2. \A n \in Mutexes : n # m => mutex'[n] = mutex[n]
      BY <1>2, <1>10
    <2>3. \A n \in Mutexes : n # m => rt_list_remove(mutex[n].list, x) = mutex[n].list
      BY <1>3, OnOneList
    <2> QED BY <2>1, <2>2, <2>3
  <1>16. Objects' /\ Lists' /\ Waits' /\ TakeTellsOwner'
    <2>1. mutex'[m].owner = x /\ mutex'[m].original \in Priorities /\ error'[x] = "EOK"
      BY <1>2, <1>3, <1>9, <1>15
    <2>2. pc[mutex[m].owner] \notin TakePoints
      BY <1>2, <1>4 DEF TakePoints
    <2>3. \A u \in Threads : /\ u # x => error'[u] = error[u]
                             /\ rt'.stat[u] = "SUSPEND" <=> rt.stat[u] = "SUSPEND" /\ u # x
                             /\ pc'[u] \in TakePoints <=> pc[u] \in TakePoints
      BY <1>2, <1>4, <1>11 DEF TakePoints
    <2>4. m = want[x] /\ want' = want
      BY <1>2, <1>3
    <2> QED BY ONLY IInv, m \in Mutexes, <1>3, <1>15, <2>1, <2>2, <2>3, <2>4,
               LeaveStep
  <1>17. Points'
    <2>1. \A u \in Threads : Waiting(u)' => Waiting(u)
      BY <1>4, <1>11 DEF Waiting
    <2> QED BY <1>2, <1>4, <1>5, <1>8, <1>11, <2>1, IdleAssumption DEF Points
  <1>18. HighestRuns'
    BY <1>4, <1>8, <1>11 DEF HighestRuns
  <1>19. IInv'
    BY <1>8, <1>14, <1>16, <1>17, <1>18 DEF IInv
  <1>20. \A u \in Threads : Waiting(u)' => Waiting(u) /\ u # x
    BY <1>4, <1>11 DEF Waiting
  <1>21. \A n \in Mutexes : n # m => mutex'[n] = mutex[n]
    BY <1>2, <1>10
  <1> QED BY <1>1, <1>3, <1>7, <1>8, <1>15, <1>19, <1>20, <1>21

LEMMA PopKeeps ==
    ASSUME IInv, NEW t \in Threads, ResumeAllPops(t)
    PROVE  IInv' /\ \E x \in Threads : Quiet(x)
  <1>1. PICK m : m = want[t]
    OBVIOUS
  <1>2. PICK x : x = Head(mutex[m].list)
    OBVIOUS
  <1>3. /\ t = rt.current /\ pc[t] = "delete" /\ mutex[m].list # <<>>
        /\ mutex' = [mutex EXCEPT ![m].list = rt_list_remove(@, x)]
        /\ error' = [error EXCEPT ![x] = "ERROR"]
        /\ rt' = ResumeThread(rt, x)
        /\ owed' = TRUE /\ pc' = pc /\ want' = want /\ own' = own
    BY <1>1, <1>2 DEF ResumeAllPops, At, rt_list_isempty
  <1>4. TypeOK /\ KInv(rt) /\ rt.nest = 0 /\ Points
    BY DEF IInv
  <1>5. m \in Mutexes /\ mutex[m].owner = t /\ rt.stat[t] = "RUNNING"
    BY <1>1, <1>3, <1>4, Typed DEF Points, TakePoints
  <1>6. /\ x \in Threads /\ Waiting(x) /\ want[x] = m /\ rt.stat[x] = "SUSPEND" /\ x # t
    BY <1>2, <1>3, <1>5, HeadWaits
  <1>7. /\ KInv(rt') /\ rt'.stat = [rt.stat EXCEPT ![x] = "READY"]
        /\ rt'.prio = rt.prio /\ rt'.current = rt.current /\ rt'.nest = 0
    BY <1>3, <1>4, <1>6, ResumeThreadLemma
  <1>8. /\ mutex \in [Mutexes -> Object] /\ mutex[m] \in Object
        /\ rt.stat \in [Threads -> Stats] /\ error \in [Threads -> Errors]
    BY <1>4, <1>5, Typed DEF TypeOK
  <1>9. \A u \in Threads : /\ rt'.stat[u] = IF u = x THEN "READY" ELSE rt.stat[u]
                           /\ error'[u] = IF u = x THEN "ERROR" ELSE error[u]
    BY <1>3, <1>7, <1>8
  <1>10. rt_list_remove(mutex[m].list, x) \in Seq(Threads)
    <2>1. mutex[m].list \in Seq(Threads) /\ NoDup(mutex[m].list)
      BY <1>5, Typed DEF IInv, Lists
    <2> QED BY <2>1, RemoveLemma
  <1>11. TypeOK'
    <2>1. rt' \in Kernel
      BY <1>7 DEF KInv, Queues
    <2>2. mutex' \in [Mutexes -> Object]
      BY <1>3, <1>8, <1>10 DEF Object
    <2> QED BY <1>3, <1>4, <1>8, <2>1, <2>2 DEF TypeOK, Errors
  <1>12. /\ \A n \in Mutexes :
                /\ mutex'[n].list = rt_list_remove(mutex[n].list, x)
                /\ mutex'[n].value = mutex[n].value /\ mutex'[n].hold = mutex[n].hold
                /\ mutex'[n].live = mutex[n].live
                /\ mutex'[n].owner = mutex[n].owner
                /\ mutex'[n].original = mutex[n].original
    <2>1. /\ mutex'[m].list = rt_list_remove(mutex[m].list, x)
          /\ mutex'[m].value = mutex[m].value /\ mutex'[m].hold = mutex[m].hold
          /\ mutex'[m].live = mutex[m].live
          /\ mutex'[m].owner = mutex[m].owner /\ mutex'[m].original = mutex[m].original
      BY <1>3, <1>5, <1>8 DEF Object
    <2>2. \A n \in Mutexes : n # m => mutex'[n] = mutex[n]
      BY <1>3, <1>8
    <2>3. \A n \in Mutexes : n # m => rt_list_remove(mutex[n].list, x) = mutex[n].list
      BY <1>6, OnOneList
    <2> QED BY <2>1, <2>2, <2>3
  <1>13. Objects' /\ Lists' /\ Waits' /\ TakeTellsOwner'
    <2>1. error'[x] # "EOK"
      BY <1>6, <1>9
    <2>2. \A u \in Threads : /\ u # x => error'[u] = error[u]
                             /\ rt'.stat[u] = "SUSPEND" <=> rt.stat[u] = "SUSPEND" /\ u # x
                             /\ pc'[u] \in TakePoints <=> pc[u] \in TakePoints
      BY <1>3, <1>9
    <2> QED BY <1>3, <1>5, <1>6, <1>12, <2>1, <2>2, LeaveStep
  <1>14. Points'
    <2>1. \A u \in Threads : Waiting(u)' => Waiting(u) /\ u # x
      BY <1>3, <1>9 DEF Waiting
    <2>2. \A n \in Mutexes : mutex'[n].owner = mutex[n].owner
      BY <1>12
    <2>3. pc'[rt'.current] \in {"run", "woken", "delete"} => rt'.stat[rt'.current] = "RUNNING"
      BY <1>3, <1>5, <1>6, <1>7, <1>9
    <2>4. \A u \in Threads : pc'[u] = "delete" => u = rt'.current /\ mutex'[want'[u]].owner = u
      BY <1>1, <1>3, <1>4, <1>5, <1>7, <2>2 DEF Points
    <2>5. \A u \in Threads : Waiting(u)' => error'[u] = "EOK"
      BY <1>4, <1>9, <2>1 DEF Points
    <2> QED BY <1>3, <1>4, <2>3, <2>4, <2>5 DEF Points
  <1>15. HighestRuns'
    BY <1>3 DEF HighestRuns
  <1>16. Quiet(x)
    <2>1. \A u \in Threads : Waiting(u)' => Waiting(u)
      BY <1>3, <1>9 DEF Waiting
    <2> QED BY <1>3, <1>7, <1>12, <2>1 DEF Quiet
  <1> QED BY <1>6, <1>7, <1>11, <1>13, <1>14, <1>15, <1>16 DEF IInv

-----------------------------------------------------------------------------
(* Waiting and scheduling *)

(* The owner runs as urgently as t, and nothing else changes. *)
LEMMA InheritLemma ==
    ASSUME IInv, NEW o \in Threads, NEW t \in Threads, o # t
    PROVE  LET n == Inherit(rt, o, t) IN
           /\ KInv(n) /\ n.stat = rt.stat /\ n.current = rt.current /\ n.nest = rt.nest
           /\ n.prio \in [Threads -> Nat]
           /\ \A u \in Threads : u # o => n.prio[u] = rt.prio[u]
           /\ n.prio[o] <= rt.prio[o] /\ n.prio[o] <= rt.prio[t]
  <1>1. /\ KInv(rt) /\ rt.prio \in [Threads -> Priorities] /\ rt.prio \in [Threads -> Nat]
    BY Typed DEF IInv
  <1> DEFINE p == rt.prio[t]
  <1>2. p \in Priorities /\ p \in Nat /\ rt.prio[o] \in Nat
    BY <1>1
  <1>3. CASE p < rt.prio[o]
    <2> DEFINE n == ChangePriority(rt, o, p)
    <2>1. Inherit(rt, o, t) = n
      BY <1>3 DEF Inherit
    <2>2. /\ KInv(n) /\ n.stat = rt.stat /\ n.prio = [rt.prio EXCEPT ![o] = p]
          /\ n.current = rt.current /\ n.nest = rt.nest
      BY <1>1, <1>2, ChangePriorityLemma
    <2> HIDE DEF n
    <2>3. /\ n.prio \in [Threads -> Nat]
          /\ \A u \in Threads : n.prio[u] = IF u = o THEN p ELSE rt.prio[u]
      BY <1>1, <1>2, <2>2
    <2> QED BY <1>2, <1>3, <2>1, <2>2, <2>3
  <1>4. CASE ~(p < rt.prio[o])
    BY <1>1, <1>2, <1>4 DEF Inherit
  <1> QED BY <1>3, <1>4

(* What a thread on its way into a wait leaves in the kernel. *)
LEMMA WaitKernel ==
    ASSUME IInv, NEW t \in Threads, NEW m \in Mutexes, NEW ticks \in BOOLEAN,
           TakeWaits(t, m, ticks)
    PROVE  /\ mutex[m].owner \in Threads /\ mutex[m].owner # t /\ Held(m)
           /\ KInv(rt') /\ rt'.stat = [rt.stat EXCEPT ![t] = "SUSPEND"]
           /\ rt'.current = rt.current /\ rt'.nest = 0
           /\ rt'.prio \in [Threads -> Nat]
           /\ \A u \in Threads : u # mutex[m].owner => rt'.prio[u] = rt.prio[u]
           /\ rt'.prio[mutex[m].owner] <= rt.prio[mutex[m].owner]
           /\ rt'.prio[mutex[m].owner] <= rt.prio[t]
  <1>1. /\ At(t, "run") /\ t # Idle /\ mutex[m].owner # t /\ mutex[m].value = 0
        /\ rt' = SuspendThread(Inherit(rt, mutex[m].owner, t), t, ticks)
    BY DEF TakeWaits, Calls
  <1>2. t = rt.current /\ rt.stat[t] = "RUNNING" /\ rt.nest = 0
    BY <1>1, CallerLemma DEF IInv
  <1>3. mutex[m].owner \in Threads /\ Held(m)
    BY <1>1, Typed DEF IInv, Objects, Held
  <1>4. PICK k : k = Inherit(rt, mutex[m].owner, t)
    OBVIOUS
  <1>5. /\ KInv(k) /\ k.stat = rt.stat /\ k.current = rt.current /\ k.nest = rt.nest
        /\ k.prio \in [Threads -> Nat]
        /\ \A u \in Threads : u # mutex[m].owner => k.prio[u] = rt.prio[u]
        /\ k.prio[mutex[m].owner] <= rt.prio[mutex[m].owner]
        /\ k.prio[mutex[m].owner] <= rt.prio[t]
    BY <1>1, <1>3, <1>4, InheritLemma
  <1>6. rt' = SuspendThread(k, t, ticks)
    BY <1>1, <1>4
  <1>7. KInv(k) /\ k.nest = 0 /\ t = k.current /\ t # Idle /\ k.stat[t] = "RUNNING"
    BY <1>1, <1>2, <1>5
  <1>8. /\ KInv(rt') /\ rt'.stat = [k.stat EXCEPT ![t] = "SUSPEND"] /\ rt'.prio = k.prio
        /\ rt'.current = k.current /\ rt'.nest = k.nest
    <2>1. /\ KInv(SuspendThread(k, t, ticks))
          /\ SuspendThread(k, t, ticks).stat = [k.stat EXCEPT ![t] = "SUSPEND"]
          /\ SuspendThread(k, t, ticks).prio = k.prio
          /\ SuspendThread(k, t, ticks).current = k.current
          /\ SuspendThread(k, t, ticks).nest = k.nest
      <3>1. CASE ticks = TRUE
        BY ONLY t \in Threads, <1>7, <3>1, SuspendThreadLemma
      <3>2. CASE ticks = FALSE
        BY ONLY t \in Threads, <1>7, <3>2, SuspendThreadLemma
      <3> QED BY <3>1, <3>2
    <2> QED BY <1>6, <2>1
  <1> QED BY <1>1, <1>2, <1>3, <1>5, <1>8

LEMMA TakeWaitsKeeps ==
    ASSUME IInv, NEW t \in Threads, NEW m \in Mutexes, NEW ticks \in BOOLEAN,
           TakeWaits(t, m, ticks)
    PROVE  IInv'
  <1>1. /\ At(t, "run") /\ t # Idle /\ mutex[m].owner # t /\ mutex[m].value = 0
        /\ mutex' = [mutex EXCEPT ![m].list = _ipc_list_suspend(@, t, "PRIO", rt.prio)]
        /\ pc' = [pc EXCEPT ![t] = "take"]
        /\ want' = [want EXCEPT ![t] = m]
        /\ error' = [error EXCEPT ![t] = "EOK"]
        /\ owed' = owed /\ own' = own
    BY DEF TakeWaits, Calls, Goto
  <1>2. /\ t = rt.current /\ pc[t] = "run" /\ rt.stat[t] = "RUNNING" /\ ~Waiting(t)
        /\ \A u \in Threads : pc[u] # "delete"
    BY <1>1, CallerLemma
  <1>3. /\ TypeOK /\ Points /\ Objects /\ Lists /\ Waits /\ TakeTellsOwner
    BY DEF IInv
  <1>4. /\ mutex[m].owner # t /\ Held(m)
        /\ KInv(rt') /\ rt'.stat = [rt.stat EXCEPT ![t] = "SUSPEND"]
        /\ rt'.current = rt.current /\ rt'.nest = 0
    BY WaitKernel
  <1>5. /\ pc \in [Threads -> PCs] /\ want \in [Threads -> Mutexes \cup {None}]
        /\ error \in [Threads -> Errors] /\ mutex \in [Mutexes -> Object]
        /\ mutex[m] \in Object /\ rt.stat \in [Threads -> Stats] /\ rt.prio \in [Threads -> Nat]
    BY <1>3, Typed DEF TypeOK
  <1>6. \A u \in Threads : /\ pc'[u] = IF u = t THEN "take" ELSE pc[u]
                           /\ want'[u] = IF u = t THEN m ELSE want[u]
                           /\ error'[u] = IF u = t THEN "EOK" ELSE error[u]
                           /\ rt'.stat[u] = IF u = t THEN "SUSPEND" ELSE rt.stat[u]
    BY <1>1, <1>4, <1>5
  <1>7. \A u \in Threads : Waiting(u)' <=> Waiting(u) \/ u = t
    BY <1>6 DEF Waiting
  <1>8. PICK l : l = _ipc_list_suspend(mutex[m].list, t, "PRIO", rt.prio)
    OBVIOUS
  <1>9. /\ l \in Seq(Threads) /\ Linked(l) = Linked(mutex[m].list) \cup {t} /\ NoDup(l)
    <2>1. mutex[m].list \in Seq(Threads) /\ NoDup(mutex[m].list) /\ t \notin Linked(mutex[m].list)
      BY <1>2, <1>3, Typed DEF Lists
    <2> QED BY <1>5, <1>8, <2>1, SuspendLemma
  <1>10. /\ mutex' \in [Mutexes -> Object]
         /\ mutex'[m].list = l
         /\ \A n \in Mutexes : n # m => mutex'[n].list = mutex[n].list
         /\ \A n \in Mutexes :
                /\ mutex'[n].value = mutex[n].value /\ mutex'[n].hold = mutex[n].hold
                /\ mutex'[n].live = mutex[n].live /\ mutex'[n].owner = mutex[n].owner
                /\ mutex'[n].original = mutex[n].original
    <2>1. mutex' = [mutex EXCEPT ![m].list = l]
      BY <1>1, <1>8
    <2>2. \A n \in Mutexes : mutex[n] \in Object
      BY <1>5
    <2> QED BY <1>5, <1>9, <2>1, <2>2 DEF Object
  <1>11. TypeOK'
    <2>1. rt' \in Kernel
      BY <1>4 DEF KInv, Queues
    <2> QED BY <1>1, <1>3, <1>5, <1>10, <2>1 DEF TypeOK, PCs, Errors
  <1>12. Objects'
    BY <1>3, <1>10 DEF Objects, Held
  <1>13. Lists'
    <2> SUFFICES ASSUME NEW n \in Mutexes
                 PROVE  /\ NoDup(mutex'[n].list)
                        /\ Linked(mutex'[n].list) = {u \in Threads : Waiting(u)' /\ want'[u] = n}
      BY DEF Lists
    <2>1. /\ NoDup(mutex[n].list)
          /\ Linked(mutex[n].list) = {u \in Threads : Waiting(u) /\ want[u] = n}
      BY <1>3 DEF Lists
    <2>2. CASE n = m
      BY <1>2, <1>6, <1>7, <1>9, <1>10, <2>1, <2>2
    <2>3. CASE n # m
      BY <1>2, <1>6, <1>7, <1>10, <2>1, <2>3
    <2> QED BY <2>2, <2>3
  <1>14. Waits'
    <2> SUFFICES ASSUME NEW u \in Threads, Waiting(u)'
                 PROVE  want'[u] \in Mutexes /\ mutex'[want'[u]].owner \notin {None, u}
      BY DEF Waits, Held
    <2>1. CASE u = t
      BY <1>4, <1>6, <1>10, <2>1 DEF Held
    <2>2. CASE u # t
      BY <1>3, <1>6, <1>7, <1>10, <2>2 DEF Waits, Held
    <2> QED BY <2>1, <2>2
  <1>15. TakeTellsOwner'
    <2> SUFFICES ASSUME NEW u \in Threads, pc'[u] \in TakePoints, ~Waiting(u)'
                 PROVE  error'[u] = "EOK" <=> mutex'[want'[u]].owner = u
      BY DEF TakeTellsOwner, TakePoints
    <2>1. u # t /\ pc[u] \in TakePoints /\ ~Waiting(u)
      BY <1>6, <1>7
    <2>2. error[u] = "EOK" <=> mutex[want[u]].owner = u
      BY <1>3, <2>1 DEF TakeTellsOwner, TakePoints
    <2>3. want[u] \in Mutexes
      BY <2>1, Typed
    <2> QED BY <1>6, <1>10, <2>1, <2>2, <2>3
  <1>16. Points'
    <2>1. m # None
      BY NoneAssumption
    <2> QED BY <1>1, <1>2, <1>3, <1>4, <1>6, <1>7, <2>1, IdleAssumption DEF Points
  <1>17. HighestRuns'
    BY <1>2, <1>4, <1>6 DEF HighestRuns
  <1> QED BY <1>4, <1>11, <1>12, <1>13, <1>14, <1>15, <1>16, <1>17 DEF IInv

LEMMA TakeReturnsKeeps ==
    ASSUME IInv, NEW t \in Threads, TakeReturns(t)
    PROVE  IInv' /\ \E x \in Threads : Quiet(x)
  <1>1. /\ t = rt.current /\ pc[t] = "woken"
        /\ pc' = [pc EXCEPT ![t] = "run"] /\ want' = [want EXCEPT ![t] = None]
        /\ error' = [error EXCEPT ![t] = "EOK"]
        /\ rt' = rt /\ mutex' = mutex /\ owed' = owed /\ own' = own
    BY DEF TakeReturns, At
  <1>2. TypeOK /\ KInv(rt) /\ rt.nest = 0 /\ Points /\ HighestRuns
    BY DEF IInv
  <1>3. /\ pc \in [Threads -> PCs] /\ want \in [Threads -> Mutexes \cup {None}]
        /\ error \in [Threads -> Errors]
    BY <1>2 DEF TypeOK
  <1>4. \A u \in Threads : /\ pc'[u] = IF u = t THEN "run" ELSE pc[u]
                           /\ want'[u] = IF u = t THEN None ELSE want[u]
                           /\ error'[u] = IF u = t THEN "EOK" ELSE error[u]
    BY <1>1, <1>3
  <1>5. rt.stat[t] = "RUNNING" /\ t # Idle
    BY <1>1, <1>2 DEF Points
  <1>6. TypeOK'
    BY <1>1, <1>2, <1>3 DEF TypeOK, PCs, Errors
  <1>7. \A u \in Threads : Waiting(u)' <=> Waiting(u)
    BY <1>1, <1>4, <1>5 DEF Waiting
  <1>8. Objects' /\ Lists' /\ Waits' /\ TakeTellsOwner'
    BY <1>1, <1>4, <1>7, SameObjects DEF TakePoints
  <1>9. Points'
    <2>1. \A u \in Threads : pc'[u] = "delete" => u = rt'.current /\ mutex'[want'[u]].owner = u
      BY <1>1, <1>2, <1>4 DEF Points
    <2> QED BY <1>1, <1>2, <1>4, <1>5, <1>7, <2>1, IdleAssumption DEF Points
  <1>10. HighestRuns'
    BY <1>1, <1>2, <1>4 DEF HighestRuns
  <1>11. Quiet(t)
    BY <1>1, <1>7 DEF Quiet
  <1> QED BY <1>1, <1>2, <1>6, <1>8, <1>9, <1>10, <1>11 DEF IInv

(* What rt_schedule leaves, see ScheduleLemma, for a scheduler not locked. *)
LEMMA ScheduleStep ==
    ASSUME NEW k, KInv(k), k.nest = 0
    PROVE  LET n == rt_schedule(k) IN
           /\ KInv(n) /\ n.nest = 0 /\ n.prio = k.prio
           /\ n.stat[n.current] = "RUNNING"
           /\ \A u \in Threads : n.stat[u] = "SUSPEND" <=> k.stat[u] = "SUSPEND"
           /\ \A u \in Threads : n.stat[u] = "READY" => n.prio[n.current] <= n.prio[u]
  <1>1. PICK n : n = rt_schedule(k)
    OBVIOUS
  <1>2. /\ KInv(n) /\ n.nest = k.nest /\ n.prio = k.prio
        /\ \A t \in Threads : k.stat[t] \notin {"READY", "RUNNING"} => n.stat[t] = k.stat[t]
        /\ \A t \in Threads : k.stat[t] \in {"READY", "RUNNING"} =>
                                        n.stat[t] \in {"READY", "RUNNING"}
        /\ n.stat[n.current] = "RUNNING"
        /\ \A t \in Threads : n.stat[t] = "READY" => n.prio[n.current] <= n.prio[t]
    BY <1>1, ScheduleLemma
  <1>3. \A u \in Threads : n.stat[u] = "SUSPEND" <=> k.stat[u] = "SUSPEND"
    BY <1>2
  <1> QED BY <1>1, <1>2, <1>3

LEMMA RescheduleKeeps ==
    ASSUME IInv, NEW t \in Threads, Reschedule(t)
    PROVE  IInv' /\ \E x \in Threads : Quiet(x)
  <1>1. /\ t = rt.current /\ pc[t] \in {"sched", "take"} /\ rt' = rt_schedule(rt)
        /\ pc' = [pc EXCEPT ![t] = IF pc[t] = "take" THEN "woken" ELSE "run"]
        /\ owed' = FALSE /\ mutex' = mutex /\ want' = want /\ error' = error /\ own' = own
    BY DEF Reschedule, Goto
  <1>2. TypeOK /\ KInv(rt) /\ rt.nest = 0 /\ Points
    BY DEF IInv
  <1>3. pc \in [Threads -> PCs]
    BY <1>2 DEF TypeOK
  <1>4. \A u \in Threads : pc'[u] = IF u # t THEN pc[u]
                                    ELSE IF pc[t] = "take" THEN "woken" ELSE "run"
    BY <1>1, <1>3
  <1>5. /\ KInv(rt') /\ rt'.nest = 0 /\ rt'.stat[rt'.current] = "RUNNING"
        /\ rt'.prio = rt.prio
        /\ \A u \in Threads : rt'.stat[u] = "SUSPEND" <=> rt.stat[u] = "SUSPEND"
        /\ \A u \in Threads : rt'.stat[u] = "READY" => rt'.prio[rt'.current] <= rt'.prio[u]
    BY <1>1, <1>2, ScheduleStep
  <1>6. TypeOK'
    <2>1. rt' \in Kernel
      BY <1>5 DEF KInv, Queues
    <2> QED BY <1>1, <1>2, <1>3, <2>1 DEF TypeOK, PCs
  <1>7. \A u \in Threads : Waiting(u)' <=> Waiting(u)
    BY <1>1, <1>4, <1>5 DEF Waiting
  <1>8. Objects' /\ Lists' /\ Waits' /\ TakeTellsOwner'
    BY <1>1, <1>4, <1>7, SameObjects DEF TakePoints
  <1>9. Points'
    <2>1. \A u \in Threads : pc'[u] # "delete"
      BY <1>1, <1>2, <1>4 DEF Points
    <2>2. \A u \in Threads : pc'[u] \in {"run", "sched"} <=> want'[u] = None
      BY <1>1, <1>2, <1>4 DEF Points
    <2>3. pc'[Idle] = "run"
      BY <1>1, <1>2, <1>4, IdleAssumption DEF Points
    <2> QED BY <1>1, <1>2, <1>5, <1>7, <2>1, <2>2, <2>3 DEF Points
  <1>10. HighestRuns'
    BY <1>5 DEF HighestRuns
  <1>11. Quiet(t)
    BY <1>1, <1>5, <1>7 DEF Quiet
  <1> QED BY <1>5, <1>6, <1>8, <1>9, <1>10, <1>11 DEF IInv

LEMMA SleepKeeps ==
    ASSUME IInv, NEW t \in Threads, rt_thread_sleep(t)
    PROVE  IInv' /\ \E x \in Threads : Quiet(x)
  <1>1. /\ At(t, "run") /\ t # Idle /\ rt' = SuspendThread(rt, t, TRUE)
        /\ pc' = [pc EXCEPT ![t] = "sched"]
        /\ mutex' = mutex /\ want' = want /\ error' = error /\ owed' = owed /\ own' = own
    BY DEF rt_thread_sleep, Goto
  <1>2. /\ t = rt.current /\ pc[t] = "run" /\ rt.stat[t] = "RUNNING"
        /\ \A u \in Threads : pc[u] # "delete"
    BY <1>1, CallerLemma
  <1>3. TypeOK /\ KInv(rt) /\ rt.nest = 0 /\ Points
    BY DEF IInv
  <1>4. pc \in [Threads -> PCs] /\ rt.stat \in [Threads -> Stats]
    BY <1>3, Typed DEF TypeOK
  <1>5. /\ KInv(rt') /\ rt'.stat = [rt.stat EXCEPT ![t] = "SUSPEND"]
        /\ rt'.current = rt.current /\ rt'.nest = rt.nest /\ rt'.prio = rt.prio
    <2>1. KInv(rt) /\ rt.nest = 0 /\ t = rt.current /\ t # Idle /\ rt.stat[t] = "RUNNING"
          /\ TRUE \in BOOLEAN /\ t \in Threads /\ rt' = SuspendThread(rt, t, TRUE)
      BY <1>1, <1>2, <1>3
    <2> QED BY ONLY <2>1, SuspendThreadLemma
  <1>6. \A u \in Threads : /\ pc'[u] = IF u = t THEN "sched" ELSE pc[u]
                           /\ rt'.stat[u] = IF u = t THEN "SUSPEND" ELSE rt.stat[u]
    BY <1>1, <1>4, <1>5
  <1>7. TypeOK'
    <2>1. rt' \in Kernel
      BY <1>5 DEF KInv, Queues
    <2> QED BY <1>1, <1>3, <1>4, <2>1 DEF TypeOK, PCs
  <1>8. \A u \in Threads : Waiting(u)' <=> Waiting(u)
    BY <1>2, <1>6 DEF Waiting
  <1>9. Objects' /\ Lists' /\ Waits' /\ TakeTellsOwner'
    BY <1>1, <1>6, <1>8, SameObjects DEF TakePoints
  <1>10. Points'
    <2>1. pc'[Idle] = "run" /\ \A u \in Threads : pc'[u] # "delete"
      BY <1>1, <1>2, <1>3, <1>6, IdleAssumption DEF Points
    <2>2. pc'[rt'.current] = "sched"
      BY <1>2, <1>5, <1>6
    <2>3. \A u \in Threads : pc'[u] \in {"run", "sched"} <=> want'[u] = None
      BY <1>1, <1>2, <1>3, <1>6 DEF Points
    <2>4. \A u \in Threads : Waiting(u)' => error'[u] = "EOK"
      BY <1>1, <1>3, <1>8 DEF Points
    <2> QED BY ONLY <2>1, <2>2, <2>3, <2>4 DEF Points
  <1>11. HighestRuns'
    BY <1>2, <1>5, <1>6 DEF HighestRuns
  <1>12. Quiet(t)
    BY <1>1, <1>5, <1>8 DEF Quiet
  <1> QED BY <1>3, <1>5, <1>7, <1>9, <1>10, <1>11, <1>12 DEF IInv

(* After an interrupt the thread that executes next is in its own code, on   *)
(* its way into rt_schedule or out of it.                                  *)
LEMMA InterruptPoints ==
    ASSUME IInv, IrqEnabled, pc' = pc, want' = want, rt'.stat[rt'.current] = "RUNNING",
           \A u \in Threads : Waiting(u)' => error'[u] = "EOK"
    PROVE  Points'
  <1>1. \A u \in Threads : pc[u] # "delete"
    BY DEF IInv, Points, IrqEnabled
  <1>2. /\ pc[Idle] = "run"
        /\ \A u \in Threads : pc[u] \in {"run", "sched"} <=> want[u] = None
    BY DEF IInv, Points
  <1>3. pc'[Idle] = "run" /\ \A u \in Threads : pc'[u] \in {"run", "sched"} <=> want'[u] = None
    BY <1>2
  <1>4. \A u \in Threads : pc'[u] # "delete"
    BY <1>1
  <1>5. pc'[rt'.current] \in {"run", "woken", "delete"} => rt'.stat[rt'.current] = "RUNNING"
    OBVIOUS
  <1>6. \A u \in Threads : pc'[u] = "delete" => u = rt'.current /\ mutex'[want'[u]].owner = u
    BY <1>4
  <1>7. \A u \in Threads : Waiting(u)' => error'[u] = "EOK"
    OBVIOUS
  <1> QED BY ONLY <1>3, <1>5, <1>6, <1>7 DEF Points

LEMMA SliceKeeps ==
    ASSUME IInv, SliceEnds
    PROVE  IInv' /\ \E x \in Threads : Quiet(x)
  <1>1. PICK k : k = [rt EXCEPT !.yield[rt.current] = TRUE]
    OBVIOUS
  <1>2. /\ IrqEnabled /\ rt' = rt_schedule(k) /\ owed' = FALSE
        /\ mutex' = mutex /\ pc' = pc /\ want' = want /\ error' = error /\ own' = own
    BY <1>1 DEF SliceEnds, threadvars
  <1>3. TypeOK /\ KInv(rt) /\ rt.nest = 0 /\ Points
    BY DEF IInv
  <1>4. /\ k \in Kernel /\ k.stat = rt.stat /\ k.prio = rt.prio /\ k.current = rt.current
        /\ k.nest = rt.nest /\ k.timer = rt.timer
        /\ k.ready = rt.ready /\ k.group = rt.group /\ k.defunct = rt.defunct
    BY <1>1, Typed DEF Kernel
  <1>5. KInv(k)
    <2>1. Queues(rt, {t \in Threads : k.stat[t] = "READY"}, {t \in Threads : k.stat[t] = "CLOSE"})
      BY <1>3, <1>4 DEF KInv
    <2>2. Queues(k, {t \in Threads : k.stat[t] = "READY"}, {t \in Threads : k.stat[t] = "CLOSE"})
      BY <1>4, <2>1, QueuesFrame
    <2> QED BY <1>3, <1>4, <2>2 DEF KInv
  <1>6. /\ KInv(rt') /\ rt'.nest = 0 /\ rt'.stat[rt'.current] = "RUNNING"
        /\ rt'.prio = rt.prio
        /\ \A u \in Threads : rt'.stat[u] = "SUSPEND" <=> rt.stat[u] = "SUSPEND"
        /\ \A u \in Threads : rt'.stat[u] = "READY" => rt'.prio[rt'.current] <= rt'.prio[u]
    BY <1>2, <1>3, <1>4, <1>5, ScheduleStep
  <1>7. TypeOK'
    <2>1. rt' \in Kernel
      BY <1>6 DEF KInv, Queues
    <2> QED BY <1>2, <1>3, <2>1 DEF TypeOK
  <1>8. \A u \in Threads : Waiting(u)' <=> Waiting(u)
    BY <1>2, <1>6 DEF Waiting
  <1>9. Objects' /\ Lists' /\ Waits' /\ TakeTellsOwner'
    BY <1>2, <1>8, SameObjects
  <1>10. Points'
    BY <1>2, <1>3, <1>6, <1>8, InterruptPoints DEF Points
  <1>11. HighestRuns'
    BY <1>6 DEF HighestRuns
  <1>12. Quiet(Idle)
    BY <1>2, <1>6, <1>8 DEF Quiet
  <1> QED BY <1>6, <1>7, <1>9, <1>10, <1>11, <1>12, IdleAssumption DEF IInv

LEMMA TimerKeeps ==
    ASSUME IInv, NEW t \in Threads, TimerExpires(t)
    PROVE  IInv' /\ \E x \in Threads : Quiet(x)
  <1>1. /\ IrqEnabled /\ rt.timer[t] /\ rt' = _thread_timeout(rt, t)
        /\ mutex' = [m \in Mutexes |-> [mutex[m] EXCEPT !.list = rt_list_remove(@, t)]]
        /\ error' = IF want[t] = None THEN error ELSE [error EXCEPT ![t] = "ETIMEOUT"]
        /\ owed' = FALSE /\ pc' = pc /\ want' = want /\ own' = own
    BY DEF TimerExpires
  <1>2. TypeOK /\ KInv(rt) /\ rt.nest = 0 /\ Points /\ Lists
    BY DEF IInv
  <1>3. rt.stat[t] = "SUSPEND"
    BY <1>1, <1>2 DEF KInv
  <1>4. PICK k : k = ResumeThread(rt, t)
    OBVIOUS
  <1>5. /\ KInv(k)
        /\ k.stat = [rt.stat EXCEPT ![t] = IF t = rt.current THEN "RUNNING" ELSE "READY"]
        /\ k.nest = rt.nest /\ k.prio = rt.prio /\ rt' = rt_schedule(k)
    BY <1>1, <1>2, <1>3, <1>4, ResumeThreadLemma DEF _thread_timeout
  <1>6. \A u \in Threads : k.stat[u] = "SUSPEND" <=> rt.stat[u] = "SUSPEND" /\ u # t
    <2>1. rt.stat \in [Threads -> Stats]
      BY Typed
    <2> QED BY <1>5, <2>1
  <1>7. /\ KInv(rt') /\ rt'.nest = 0 /\ rt'.stat[rt'.current] = "RUNNING"
        /\ rt'.prio = rt.prio
        /\ \A u \in Threads : rt'.stat[u] = "SUSPEND" <=> rt.stat[u] = "SUSPEND" /\ u # t
        /\ \A u \in Threads : rt'.stat[u] = "READY" => rt'.prio[rt'.current] <= rt'.prio[u]
    <2>1. KInv(k) /\ k.nest = 0
      BY <1>2, <1>5
    <2>2. /\ KInv(rt') /\ rt'.nest = 0 /\ rt'.stat[rt'.current] = "RUNNING"
          /\ rt'.prio = k.prio
          /\ \A u \in Threads : rt'.stat[u] = "SUSPEND" <=> k.stat[u] = "SUSPEND"
          /\ \A u \in Threads : rt'.stat[u] = "READY" => rt'.prio[rt'.current] <= rt'.prio[u]
      <3>1. rt' = rt_schedule(k)
        BY <1>5
      <3> QED BY ONLY <2>1, <3>1, ScheduleStep
    <2> QED BY <1>5, <1>6, <2>2
  <1>8. /\ mutex \in [Mutexes -> Object] /\ error \in [Threads -> Errors]
        /\ \A m \in Mutexes : mutex[m].list \in Seq(Threads) /\ NoDup(mutex[m].list)
    BY <1>2, Typed DEF TypeOK, Lists
  <1>9. \A m \in Mutexes : rt_list_remove(mutex[m].list, t) \in Seq(Threads)
    BY <1>8, RemoveLemma
  <1>10. /\ mutex' \in [Mutexes -> Object]
         /\ \A n \in Mutexes :
                /\ mutex'[n].list = rt_list_remove(mutex[n].list, t)
                /\ mutex'[n].value = mutex[n].value /\ mutex'[n].hold = mutex[n].hold
                /\ mutex'[n].live = mutex[n].live /\ mutex'[n].owner = mutex[n].owner
                /\ mutex'[n].original = mutex[n].original
    <2>1. mutex' = [m \in Mutexes |-> [mutex[m] EXCEPT !.list = rt_list_remove(@, t)]]
      BY <1>1 DEF _thread_timeout
    <2>2. ASSUME NEW n \in Mutexes
          PROVE  /\ mutex'[n] = [mutex[n] EXCEPT !.list = rt_list_remove(mutex[n].list, t)]
                 /\ mutex[n] \in Object
      BY <1>8, <2>1
    <2>3. ASSUME NEW n \in Mutexes
          PROVE  /\ mutex'[n] \in Object
                 /\ mutex'[n].list = rt_list_remove(mutex[n].list, t)
                 /\ mutex'[n].value = mutex[n].value /\ mutex'[n].hold = mutex[n].hold
                 /\ mutex'[n].live = mutex[n].live /\ mutex'[n].owner = mutex[n].owner
                 /\ mutex'[n].original = mutex[n].original
      BY <1>9, <2>2 DEF Object
    <2> QED BY <2>1, <2>3
  <1>11. TypeOK'
    <2>1. rt' \in Kernel
      BY <1>7 DEF KInv, Queues
    <2>2. error' \in [Threads -> Errors]
      BY <1>1, <1>8 DEF Errors
    <2> QED BY <1>1, <1>2, <1>10, <2>1, <2>2 DEF TypeOK
  <1>12. Objects' /\ Lists' /\ Waits' /\ TakeTellsOwner'
    <2>1. CASE Waiting(t)
      <3>1. want[t] \in Mutexes /\ want[t] # None
        BY <2>1, NoneAssumption DEF IInv, Waits
      <3>2. \A u \in Threads : error'[u] = IF u = t THEN "ETIMEOUT" ELSE error[u]
        BY <1>1, <1>8, <3>1
      <3>3. PICK m : m = want[t]
        OBVIOUS
      <3>4. /\ m \in Mutexes /\ mutex'[m].owner = mutex[m].owner
            /\ mutex'[m].original = mutex[m].original /\ error'[t] # "EOK"
        BY <1>10, <3>1, <3>2, <3>3
      <3>5. \A u \in Threads : /\ u # t => error'[u] = error[u]
                               /\ rt'.stat[u] = "SUSPEND" <=> rt.stat[u] = "SUSPEND" /\ u # t
                               /\ pc'[u] \in TakePoints <=> pc[u] \in TakePoints
        BY <1>1, <1>7, <3>2
      <3>6. Waiting(t) /\ want' = want
        BY <1>1, <2>1
      <3> QED BY ONLY IInv, t \in Threads, <1>10, <3>3, <3>4, <3>5, <3>6, LeaveStep
    <2>2. CASE ~Waiting(t)
      <3>1. want[t] = None
        <4>1. pc[t] \notin TakePoints
          BY <1>3, <2>2 DEF Waiting, TakePoints
        <4>2. pc[t] # "delete"
          BY <1>1, <1>2 DEF Points, IrqEnabled
        <4>3. pc[t] \in PCs
          BY <1>2 DEF TypeOK
        <4> QED BY <1>2, <4>1, <4>2, <4>3 DEF Points, PCs, TakePoints
      <3>2. \A n \in Mutexes : rt_list_remove(mutex[n].list, t) = mutex[n].list
        BY <1>2, <2>2 DEF Lists, rt_list_remove
      <3>3. mutex' = mutex
        <4>1. \A n \in Mutexes : [mutex[n] EXCEPT !.list = rt_list_remove(@, t)] = mutex[n]
          BY <1>8, <3>2 DEF Object
        <4> QED BY <1>1, <1>8, <4>1
      <3>4. \A u \in Threads : Waiting(u)' <=> Waiting(u)
        BY <1>1, <1>7, <2>2 DEF Waiting
      <3> QED BY <1>1, <3>1, <3>3, <3>4, SameObjects
    <2> QED BY <2>1, <2>2
  <1>13. Points'
    <2>1. \A u \in Threads : Waiting(u)' => Waiting(u) /\ u # t
      BY <1>1, <1>7 DEF Waiting
    <2>2. \A u \in Threads : u # t => error'[u] = error[u]
      BY <1>1, <1>8
    <2> QED BY <1>1, <1>2, <1>7, <2>1, <2>2, InterruptPoints DEF Points
  <1>14. HighestRuns'
    BY <1>7 DEF HighestRuns
  <1>15. Quiet(t)
    <2>1. \A u \in Threads : Waiting(u)' => Waiting(u)
      BY <1>1, <1>7 DEF Waiting
    <2> QED BY <1>1, <1>7, <1>10, <2>1 DEF Quiet
  <1> QED BY <1>7, <1>11, <1>12, <1>13, <1>14, <1>15 DEF IInv

-----------------------------------------------------------------------------
(* The invariant of every run, and what it says *)

LEMMA InitIInv == Init => IInv
  <1> SUFFICES ASSUME Init PROVE IInv
    OBVIOUS
  <1> DEFINE S == {t \in Threads : rt.stat[t] = "READY"}
             D == {t \in Threads : rt.stat[t] = "CLOSE"}
  <1>1. /\ rt = [stat    |-> [t \in Threads |-> IF t = Idle THEN "RUNNING" ELSE "SUSPEND"],
                 yield   |-> [t \in Threads |-> FALSE],
                 prio    |-> Base,
                 ready   |-> [p \in Priorities |-> <<>>],
                 group   |-> {},
                 current |-> Idle,
                 nest    |-> 0,
                 timer   |-> [t \in Threads |-> t # Idle],
                 defunct |-> <<>>]
        /\ mutex = [m \in Mutexes |-> Free]
        /\ pc = [t \in Threads |-> "run"] /\ want = [t \in Threads |-> None]
        /\ error = [t \in Threads |-> "EOK"] /\ owed = FALSE /\ own = Base
    BY DEF Init
  <1>2. rt \in Kernel
    <2>1. 0 \in 0 .. MaxNest /\ <<>> \in Seq(Threads)
      BY MaxNestAssumption
    <2>2. [p \in Priorities |-> <<>>] \in [Priorities -> Seq(Threads)]
      BY <2>1
    <2>3. /\ [t \in Threads |-> IF t = Idle THEN "RUNNING" ELSE "SUSPEND"] \in [Threads -> Stats]
          /\ [t \in Threads |-> t # Idle] \in [Threads -> BOOLEAN]
      BY DEF Stats
    <2> QED BY <1>1, <2>1, <2>2, <2>3, IdleAssumption, BaseAssumption DEF Kernel
  <1>3. Linked(<<>>) = {} /\ NoDup(<<>>)
    BY DEF Linked, NoDup
  <1>4. S = {} /\ D = {}
    BY <1>1
  <1>5. Queues(rt, S, D)
    BY <1>1, <1>2, <1>3, <1>4 DEF Queues
  <1>6. KInv(rt)
    BY <1>1, <1>5, IdleAssumption DEF KInv
  <1>7. TypeOK
    BY <1>1, <1>2, FreeIsObject, NoneAssumption, BaseAssumption DEF TypeOK, PCs, Errors
  <1>8. \A t \in Threads : ~Waiting(t)
    BY <1>1 DEF Waiting
  <1>9. Points
    BY <1>1, <1>8, IdleAssumption DEF Points
  <1>10. Objects /\ Lists /\ Waits
    BY <1>1, <1>3, <1>8, FreeIsObject DEF Objects, Lists, Waits, Held
  <1>11. TakeTellsOwner
    BY <1>1 DEF TakeTellsOwner
  <1>12. HighestRuns
    BY <1>1 DEF HighestRuns
  <1> QED BY <1>1, <1>6, <1>7, <1>9, <1>10, <1>11, <1>12 DEF IInv

LEMMA StepKeepsIInv ==
    ASSUME IInv, [Next]_vars
    PROVE  IInv'
  <1>1. CASE UNCHANGED vars
    <2>1. /\ rt' = rt /\ mutex' = mutex /\ pc' = pc /\ want' = want /\ error' = error
          /\ owed' = owed /\ own' = own
      BY <1>1 DEF vars, threadvars
    <2>2. TypeOK' /\ KInv(rt') /\ rt'.nest = 0
      BY <2>1 DEF IInv, TypeOK
    <2>3. \A t \in Threads : Waiting(t)' <=> Waiting(t)
      BY <2>1 DEF Waiting
    <2>4. Objects' /\ Lists' /\ Waits' /\ TakeTellsOwner'
      BY <2>1, <2>3, SameObjects
    <2>5. Points' /\ HighestRuns'
      BY <2>1, <2>3 DEF IInv, Points, HighestRuns
    <2> QED BY <2>2, <2>4, <2>5 DEF IInv
  <1>2. ASSUME NEW t \in Threads, NEW m \in Mutexes, MutexCall(t, m) PROVE IInv'
    BY <1>2, TakeFreeKeeps, TakeAgainKeeps, TakeWaitsKeeps, ReleaseInnerKeeps, ReleaseFreesKeeps,
       HandOverKeeps, DeleteKeeps, InitKeeps DEF MutexCall
  <1>3. ASSUME NEW t \in Threads,
               \/ TakeReturns(t) \/ ResumeAllPops(t) \/ rt_object_delete(t)
               \/ Reschedule(t) \/ rt_thread_sleep(t) \/ TimerExpires(t)
        PROVE  IInv'
    BY <1>3, TakeReturnsKeeps, PopKeeps, ObjectDeleteKeeps, RescheduleKeeps, SleepKeeps, TimerKeeps
  <1>4. CASE SliceEnds
    BY <1>4, SliceKeeps
  <1> QED BY <1>1, <1>2, <1>3, <1>4 DEF Next

LEMMA SpecIInv == Spec => []IInv
  <1>1. IInv /\ [Next]_vars => IInv'
    BY StepKeepsIInv
  <1> QED BY <1>1, InitIInv, PTL DEF Spec

(* The kernel state, the objects and the threads have their types. *)
THEOREM TypeCorrect == Spec => []TypeOK
  <1>1. IInv => TypeOK
    BY DEF IInv
  <1> QED BY <1>1, SpecIInv, PTL

(* A mutex is owned, counted and not available, or free with nobody waiting, *)
(* and its list holds exactly the threads that wait for it, through         *)
(* releases, timeouts and deletions in any order.                           *)
THEOREM MutexesAreOwnedOrFree == Spec => []OwnedOrFree
  <1>1. IInv => OwnedOrFree
    BY DEF IInv, Objects, Lists, Waits, OwnedOrFree
  <1> QED BY <1>1, SpecIInv, PTL

(* rt_mutex_take says RT_EOK exactly to the thread that owns the mutex. *)
THEOREM TakersKnow == Spec => []TakeTellsOwner
  <1>1. IInv => TakeTellsOwner
    BY DEF IInv
  <1> QED BY <1>1, SpecIInv, PTL

-----------------------------------------------------------------------------
(* Priority inheritance, when no thread owns two mutexes at a time *)

(* Nobody who waits owns a mutex, so that the priority of who waits does not *)
(* change and the lists stay in the order they were joined in; the priority *)
(* to restore is the owner's own.                                          *)
OneAtATime ==
    /\ \A t \in Threads : \A m, n \in Owned(t) : m = n
    /\ \A t \in Threads : Waiting(t) => Owned(t) = {}
    /\ NoInversion
    /\ \A m \in Mutexes : ByPriority(mutex[m].list, rt.prio)
    /\ BaseRestored
    /\ \A m \in Mutexes : Held(m) => mutex[m].original = own[mutex[m].owner]

LEMMA OwnTyped ==
    ASSUME IInv
    PROVE  own \in [Threads -> Nat] /\ Base \in [Threads -> Nat]
  <1>1. own \in [Threads -> Priorities] /\ Priorities \subseteq Nat
    BY PrioritiesAssumption DEF IInv, TypeOK
  <1> QED BY <1>1, BaseAssumption

LEMMA QuietOne ==
    ASSUME IInv, OneAtATime, NEW x,
           Quiet(x)
    PROVE  OneAtATime'
  <1>1. \A u \in Threads : Owned(u)' = Owned(u)
    BY DEF Owned, Quiet
  <1>2. ASSUME NEW n \in Mutexes
        PROVE  /\ Linked(mutex'[n].list) \subseteq Linked(mutex[n].list)
               /\ ByPriority(mutex'[n].list, rt.prio)
    <2>1. mutex[n].list \in Seq(Threads) /\ NoDup(mutex[n].list)
      BY Typed DEF IInv, Lists
    <2>2. ByPriority(mutex[n].list, rt.prio)
      BY DEF OneAtATime
    <2>3. mutex'[n].list \in {mutex[n].list, rt_list_remove(mutex[n].list, x)}
      BY DEF Quiet
    <2> QED BY <2>1, <2>2, <2>3, RemoveLemma, RemoveByPriority
  <1>3. NoInversion'
    BY <1>2 DEF OneAtATime, NoInversion, Quiet
  <1>4. BaseRestored'
    BY <1>1 DEF OneAtATime, BaseRestored, Quiet
  <1>5. \A m \in Mutexes : Held(m)' => mutex'[m].original = own'[mutex'[m].owner]
    BY DEF OneAtATime, Held, Quiet
  <1> QED BY <1>1, <1>2, <1>3, <1>4, <1>5 DEF OneAtATime, Quiet

LEMMA ByPriorityFrame ==
    ASSUME NEW q, NEW prio, NEW new, ByPriority(q, prio), \A x \in Linked(q) : new[x] = prio[x]
    PROVE  ByPriority(q, new)
  BY DEF ByPriority, Linked

(* Who waits on a list waits for a mutex that somebody else owns. *)
LEMMA WaiterFacts ==
    ASSUME IInv, OneAtATime, NEW n \in Mutexes, NEW x \in Linked(mutex[n].list)
    PROVE  /\ x \in Threads /\ Waiting(x) /\ want[x] = n /\ Owned(x) = {}
           /\ mutex[n].owner \in Threads /\ n \in Owned(mutex[n].owner)
           /\ rt.prio[mutex[n].owner] <= rt.prio[x]
  <1>1. x \in Threads /\ Waiting(x) /\ want[x] = n
    BY DEF IInv, Lists
  <1>2. Held(n)
    BY <1>1 DEF IInv, Waits
  <1>3. mutex[n].owner \in Threads
    BY <1>2, Typed DEF Held
  <1> QED BY <1>1, <1>3 DEF Owned, OneAtATime, NoInversion

(* m, which nobody waits for, gets the owner t or loses it. *)
LEMMA OwnerOne ==
    ASSUME IInv, OneAtATime, NEW t \in Threads, NEW m \in Mutexes,
           \A n \in Mutexes : n # m => mutex'[n] = mutex[n],
           mutex[m].owner \in {None, t}, mutex'[m].owner \in {None, t},
           mutex'[m].list = <<>>,
           Owned(t) \subseteq {m},
           ~Waiting(t), \A u \in Threads : Waiting(u)' => Waiting(u),
           \A u \in Threads : u # t => rt'.prio[u] = rt.prio[u] /\ own'[u] = own[u],
           rt'.prio[t] <= own'[t] /\ own'[t] <= Base[t],
           mutex'[m].owner = None => rt'.prio[t] = own'[t],
           mutex'[m].owner = t => mutex'[m].original = own'[t]
    PROVE  OneAtATime'
  <1>1. t # None
    BY NoneAssumption
  <1>2. /\ \A u \in Threads : u # t => Owned(u)' = Owned(u)
        /\ Owned(t)' \subseteq {m}
        /\ Owned(t)' = {} => mutex'[m].owner = None
    <2>1. ASSUME NEW u \in Threads, u # t PROVE Owned(u)' = Owned(u)
      <3>1. \A n \in Mutexes : mutex'[n].owner = u <=> mutex[n].owner = u
        <4>1. u # None
          BY NoneAssumption
        <4> QED BY <2>1, <4>1
      <3> QED BY <3>1 DEF Owned
    <2>2. Owned(t)' \subseteq {m}
      BY DEF Owned
    <2>3. Owned(t)' = {} => mutex'[m].owner = None
      BY DEF Owned
    <2> QED BY <2>1, <2>2, <2>3
  <1>3. ASSUME NEW n \in Mutexes, NEW x \in Linked(mutex'[n].list)
        PROVE  /\ n # m /\ x \in Linked(mutex[n].list) /\ x # t
               /\ rt'.prio[x] = rt.prio[x] /\ rt'.prio[mutex'[n].owner] = rt.prio[mutex[n].owner]
    <2>1. n # m
      BY <1>3 DEF Linked
    <2>2. x \in Linked(mutex[n].list)
      BY <1>3, <2>1
    <2>3. x \in Threads /\ x # t /\ mutex[n].owner \in Threads /\ n \in Owned(mutex[n].owner)
      BY <2>2, WaiterFacts
    <2>4. mutex[n].owner # t
      BY <2>1, <2>3
    <2> QED BY <2>1, <2>2, <2>3, <2>4
  <1>4. \A u \in Threads : \A a, b \in Owned(u)' : a = b
    <2> SUFFICES ASSUME NEW u \in Threads, NEW a \in Owned(u)', NEW b \in Owned(u)'
                 PROVE  a = b
      OBVIOUS
    <2>1. CASE u = t
      BY <1>2, <2>1
    <2>2. CASE u # t
      BY <1>2, <2>2 DEF OneAtATime
    <2> QED BY <2>1, <2>2
  <1>5. \A u \in Threads : Waiting(u)' => Owned(u)' = {}
    BY <1>2 DEF OneAtATime
  <1>6. NoInversion'
    BY <1>3, WaiterFacts DEF NoInversion
  <1>7. ASSUME NEW n \in Mutexes PROVE ByPriority(mutex'[n].list, rt'.prio)
    <2>1. CASE n = m
      BY <2>1 DEF ByPriority
    <2>2. CASE n # m
      BY <1>3, <2>2, ByPriorityFrame DEF OneAtATime
    <2> QED BY <2>1, <2>2
  <1>8. BaseRestored'
    <2> SUFFICES ASSUME NEW u \in Threads
                 PROVE  /\ rt'.prio[u] <= own'[u] /\ own'[u] <= Base[u]
                        /\ Owned(u)' = {} => rt'.prio[u] = own'[u]
      BY DEF BaseRestored
    <2>1. CASE u = t
      BY <1>2, <2>1
    <2>2. CASE u # t
      BY <1>2, <2>2 DEF OneAtATime, BaseRestored
    <2> QED BY <2>1, <2>2
  <1>9. \A n \in Mutexes : Held(n)' => mutex'[n].original = own'[mutex'[n].owner]
    <2> SUFFICES ASSUME NEW n \in Mutexes, mutex'[n].owner # None
                 PROVE  mutex'[n].original = own'[mutex'[n].owner]
      BY DEF Held
    <2>1. CASE n = m
      BY <2>1
    <2>2. CASE n # m
      <3>1. mutex'[n] = mutex[n] /\ mutex[n].owner \in Threads
        BY <2>2, Typed DEF Held
      <3>2. mutex[n].owner # t
        BY <2>2, <3>1 DEF Owned
      <3> QED BY <3>1, <3>2 DEF OneAtATime, Held
    <2> QED BY <2>1, <2>2
  <1> QED BY <1>4, <1>5, <1>6, <1>7, <1>8, <1>9 DEF OneAtATime

LEMMA TakeFreeOne ==
    ASSUME ~Nested, IInv, OneAtATime, NEW t \in Threads, NEW m \in Mutexes, TakeFree(t, m)
    PROVE  OneAtATime'
  <1>1. /\ At(t, "run") /\ Owned(t) = {} /\ mutex[m].value > 0
        /\ mutex' = [mutex EXCEPT ![m].value = @ - 1, ![m].owner = t,
                                  ![m].original = rt.prio[t], ![m].hold = @ + 1]
        /\ rt' = rt /\ pc' = pc /\ own' = own
    BY DEF TakeFree, Calls, threadvars
  <1>2. mutex \in [Mutexes -> Object] /\ mutex[m] \in Object /\ mutex[m].value \in {0, 1}
    BY Typed DEF IInv, TypeOK
  <1>3. ~Held(m)
    BY <1>1, <1>2 DEF IInv, Objects
  <1>4. mutex[m].owner = None /\ mutex[m].list = <<>>
    BY <1>3, FreeLemma DEF Held
  <1>5. /\ mutex'[m].owner = t /\ mutex'[m].list = <<>> /\ mutex'[m].original = rt.prio[t]
        /\ \A n \in Mutexes : n # m => mutex'[n] = mutex[n]
    BY <1>1, <1>2, <1>4 DEF Object
  <1>6. rt.prio[t] = own[t] /\ rt.prio[t] <= own[t] /\ own[t] <= Base[t]
    BY <1>1 DEF OneAtATime, BaseRestored
  <1>7. ~Waiting(t) /\ t # None
    BY <1>1, CallerLemma, NoneAssumption
  <1>8. \A u \in Threads : Waiting(u)' => Waiting(u)
    BY <1>1 DEF Waiting
  <1> QED BY <1>1, <1>4, <1>5, <1>6, <1>7, <1>8, OwnerOne

LEMMA ReleaseFreesOne ==
    ASSUME IInv, OneAtATime, NEW t \in Threads, NEW m \in Mutexes, ReleaseFrees(t, m)
    PROVE  OneAtATime'
  <1>1. /\ At(t, "run") /\ mutex[m].owner = t
        /\ rt' = Restore(rt, t, m) /\ mutex' = [mutex EXCEPT ![m] = Free]
        /\ pc' = pc /\ own' = own
    BY DEF ReleaseFrees, Calls, threadvars
  <1>2. Held(m) /\ t # None
    BY <1>1, NoneAssumption DEF Held
  <1>3. /\ rt'.stat = rt.stat /\ rt'.prio = [rt.prio EXCEPT ![t] = mutex[m].original]
    BY <1>1, <1>2, RestoreLemma
  <1>4. \A u \in Threads : rt'.prio[u] = IF u = t THEN mutex[m].original ELSE rt.prio[u]
    <2>1. rt.prio \in [Threads -> Nat]
      BY Typed
    <2> QED BY <1>3, <2>1
  <1>5. /\ mutex'[m].owner = None /\ mutex'[m].list = <<>>
        /\ \A n \in Mutexes : n # m => mutex'[n] = mutex[n]
    BY <1>1, FreeIsObject DEF IInv, TypeOK
  <1>6. Owned(t) \subseteq {m}
    BY <1>1 DEF OneAtATime, Owned
  <1>7. mutex[m].original = own[t] /\ own[t] <= own[t] /\ own[t] <= Base[t]
    BY <1>1, <1>2, OwnTyped DEF OneAtATime, BaseRestored
  <1>8. ~Waiting(t) /\ \A u \in Threads : Waiting(u)' => Waiting(u)
    BY <1>1, <1>3, CallerLemma DEF Waiting
  <1> QED BY <1>1, <1>2, <1>4, <1>5, <1>6, <1>7, <1>8, OwnerOne

LEMMA ObjectDeleteOne ==
    ASSUME IInv, OneAtATime, NEW t \in Threads, rt_object_delete(t)
    PROVE  OneAtATime'
  <1>1. /\ t = rt.current /\ pc[t] = "delete"
        /\ pc' = [pc EXCEPT ![t] = "run"] /\ rt' = rt
        /\ mutex' = [mutex EXCEPT ![want[t]] = [Free EXCEPT !.live = FALSE]]
        /\ own' = [own EXCEPT ![t] = rt.prio[t]]
    BY DEF rt_object_delete, At, Goto
  <1>2. PICK m : m = want[t]
    OBVIOUS
  <1>3. m \in Mutexes /\ mutex[m].owner = t
    BY <1>1, <1>2, Typed DEF IInv, Points, TakePoints
  <1>4. /\ mutex'[m].owner = None /\ mutex'[m].list = <<>>
        /\ \A n \in Mutexes : n # m => mutex'[n] = mutex[n]
    BY <1>1, <1>2, <1>3, FreeIsObject DEF IInv, TypeOK
  <1>5. Owned(t) \subseteq {m}
    BY <1>3 DEF OneAtATime, Owned
  <1>6. pc \in [Threads -> PCs]
    BY DEF IInv, TypeOK
  <1>7. ~Waiting(t) /\ \A u \in Threads : Waiting(u)' => Waiting(u)
    BY <1>1, <1>6 DEF Waiting
  <1>8. /\ \A u \in Threads : u # t => own'[u] = own[u]
        /\ rt'.prio[t] = own'[t] /\ rt'.prio[t] <= own'[t] /\ own'[t] <= Base[t]
    <2>1. /\ own \in [Threads -> Nat] /\ Base[t] \in Nat /\ rt.prio[t] \in Nat
          /\ rt.prio[t] <= own[t] /\ own[t] <= Base[t]
      BY OwnTyped, Typed DEF OneAtATime, BaseRestored
    <2>2. own'[t] = rt.prio[t] /\ rt'.prio[t] = rt.prio[t]
      BY <1>1, <2>1
    <2> QED BY <1>1, <2>1, <2>2
  <1>9. t # None
    BY NoneAssumption
  <1> QED BY <1>1, <1>3, <1>4, <1>5, <1>7, <1>8, <1>9, OwnerOne

LEMMA HandOverOne ==
    ASSUME IInv, OneAtATime, NEW t \in Threads, NEW m \in Mutexes, ReleaseHandsOver(t, m)
    PROVE  OneAtATime'
  <1>1. /\ mutex[m].owner = t /\ mutex[m].list # <<>> /\ own' = own
    BY DEF ReleaseHandsOver, Calls, rt_list_isempty
  <1>2. PICK x \in Threads :
            /\ Waiting(x) /\ want[x] = m /\ x = Head(mutex[m].list) /\ x # t
            /\ rt'.prio = [rt.prio EXCEPT ![t] = mutex[m].original]
            /\ mutex'[m].owner = x /\ mutex'[m].original = rt'.prio[x]
            /\ mutex'[m].list = rt_list_remove(mutex[m].list, x)
            /\ \A n \in Mutexes : n # m => mutex'[n] = mutex[n]
            /\ \A u \in Threads : Waiting(u)' => Waiting(u) /\ u # x
    BY HandOverKeeps
  <1>3. /\ rt.prio \in [Threads -> Nat]
        /\ \A u \in Threads : u # t => rt'.prio[u] = rt.prio[u]
        /\ rt'.prio[t] = mutex[m].original
    BY <1>2, Typed
  <1>4. t # None /\ x # None /\ Held(m)
    BY <1>1, NoneAssumption DEF Held
  <1>5. Owned(t) = {m} /\ Owned(x) = {}
    BY <1>1, <1>2 DEF OneAtATime, Owned
  <1>6. /\ Owned(t)' = {} /\ Owned(x)' = {m}
        /\ \A u \in Threads : u # t /\ u # x => Owned(u)' = Owned(u)
    <2>1. \A n \in Mutexes : n # m => mutex[n].owner # t /\ mutex[n].owner # x
      BY <1>5 DEF Owned
    <2> QED BY <1>1, <1>2, <2>1 DEF Owned
  <1>7. /\ mutex[m].list \in Seq(Threads) /\ NoDup(mutex[m].list)
        /\ ByPriority(mutex[m].list, rt.prio)
    BY Typed DEF IInv, Lists, OneAtATime
  <1>8. /\ Linked(mutex'[m].list) = Linked(mutex[m].list) \ {x}
        /\ ByPriority(mutex'[m].list, rt.prio)
        /\ \A y \in Linked(mutex[m].list) : rt.prio[x] <= rt.prio[y]
    <2>1. Linked(mutex'[m].list) = Linked(mutex[m].list) \ {x}
      BY <1>2, <1>7, RemoveLemma
    <2>2. ByPriority(mutex'[m].list, rt.prio)
      BY <1>2, <1>7, RemoveByPriority
    <2>3. \A y \in Linked(mutex[m].list) : rt.prio[Head(mutex[m].list)] <= rt.prio[y]
      BY <1>1, <1>3, <1>7, HeadByPriority
    <2> QED BY <1>2, <2>1, <2>2, <2>3
  <1>9. ASSUME NEW n \in Mutexes, NEW y \in Linked(mutex'[n].list)
        PROVE  y \in Linked(mutex[n].list) /\ y \in Threads /\ y # t /\ rt'.prio[y] = rt.prio[y]
    <2>1. y \in Linked(mutex[n].list)
      BY <1>2, <1>8, <1>9
    <2>2. y \in Threads /\ Owned(y) = {}
      BY <2>1, WaiterFacts
    <2> QED BY <1>3, <1>5, <2>1, <2>2
  <1>10. NoInversion'
    <2> SUFFICES ASSUME NEW n \in Mutexes, NEW y \in Linked(mutex'[n].list)
                 PROVE  rt'.prio[mutex'[n].owner] <= rt'.prio[y]
      BY DEF NoInversion
    <2>1. CASE n = m
      BY <1>2, <1>3, <1>8, <1>9, <2>1
    <2>2. CASE n # m
      <3>1. /\ mutex[n].owner \in Threads /\ n \in Owned(mutex[n].owner)
            /\ rt.prio[mutex[n].owner] <= rt.prio[y]
        BY <1>9, WaiterFacts
      <3>2. mutex[n].owner # t
        BY <1>5, <2>2, <3>1
      <3> QED BY <1>2, <1>3, <1>9, <2>2, <3>1, <3>2
    <2> QED BY <2>1, <2>2
  <1>11. ASSUME NEW n \in Mutexes PROVE ByPriority(mutex'[n].list, rt'.prio)
    <2>1. ByPriority(mutex'[n].list, rt.prio)
      BY <1>2, <1>8 DEF OneAtATime
    <2> QED BY <1>9, <2>1, ByPriorityFrame
  <1>12. \A u \in Threads : \A a, b \in Owned(u)' : a = b
    <2> SUFFICES ASSUME NEW u \in Threads, NEW a \in Owned(u)', NEW b \in Owned(u)'
                 PROVE  a = b
      OBVIOUS
    <2>1. CASE u \in {t, x}
      BY <1>6, <2>1
    <2>2. CASE u \notin {t, x}
      BY <1>6, <2>2 DEF OneAtATime
    <2> QED BY <2>1, <2>2
  <1>13. \A u \in Threads : Waiting(u)' => Owned(u)' = {}
    BY <1>2, <1>6 DEF OneAtATime
  <1>14. BaseRestored'
    <2> SUFFICES ASSUME NEW u \in Threads
                 PROVE  /\ rt'.prio[u] <= own[u] /\ own[u] <= Base[u]
                        /\ Owned(u)' = {} => rt'.prio[u] = own[u]
      BY <1>1 DEF BaseRestored
    <2>1. CASE u = t
      BY <1>1, <1>3, <1>4, <2>1, OwnTyped DEF OneAtATime, BaseRestored
    <2>2. CASE u # t
      <3>1. Owned(u)' = {} => Owned(u) = {}
        BY <1>2, <1>5, <1>6, <2>2
      <3> QED BY <1>3, <2>2, <3>1 DEF OneAtATime, BaseRestored
    <2> QED BY <2>1, <2>2
  <1>15. \A n \in Mutexes : Held(n)' => mutex'[n].original = own'[mutex'[n].owner]
    <2> SUFFICES ASSUME NEW n \in Mutexes, mutex'[n].owner # None
                 PROVE  mutex'[n].original = own[mutex'[n].owner]
      BY <1>1 DEF Held
    <2>1. CASE n = m
      <3>1. rt.prio[x] = own[x]
        BY <1>2, <1>5, <2>1 DEF OneAtATime, BaseRestored
      <3> QED BY <1>2, <1>3, <2>1, <3>1
    <2>2. CASE n # m
      BY <1>2, <2>2 DEF OneAtATime, Held
    <2> QED BY <2>1, <2>2
  <1> QED BY <1>10, <1>11, <1>12, <1>13, <1>14, <1>15 DEF OneAtATime

LEMMA TakeWaitsOne ==
    ASSUME ~Nested, IInv, OneAtATime, NEW t \in Threads, NEW m \in Mutexes, NEW ticks \in BOOLEAN,
           TakeWaits(t, m, ticks)
    PROVE  OneAtATime'
  <1>1. /\ At(t, "run") /\ Owned(t) = {} /\ own' = own /\ pc' = [pc EXCEPT ![t] = "take"]
        /\ mutex' = [mutex EXCEPT ![m].list = _ipc_list_suspend(@, t, "PRIO", rt.prio)]
    BY DEF TakeWaits, Calls, Goto
  <1>2. PICK o : o = mutex[m].owner
    OBVIOUS
  <1>3. /\ o \in Threads /\ o # t
        /\ rt'.stat = [rt.stat EXCEPT ![t] = "SUSPEND"]
        /\ rt'.prio \in [Threads -> Nat]
        /\ \A u \in Threads : u # o => rt'.prio[u] = rt.prio[u]
        /\ rt'.prio[o] <= rt.prio[o] /\ rt'.prio[o] <= rt.prio[t]
    BY <1>2, WaitKernel
  <1>4. m \in Owned(o)
    BY <1>2 DEF Owned
  <1>5. /\ mutex \in [Mutexes -> Object] /\ mutex[m] \in Object /\ rt.prio \in [Threads -> Nat]
        /\ rt.stat \in [Threads -> Stats] /\ pc \in [Threads -> PCs]
    BY Typed DEF IInv, TypeOK
  <1>6. PICK l : l = _ipc_list_suspend(mutex[m].list, t, "PRIO", rt.prio)
    OBVIOUS
  <1>7. /\ Linked(l) = Linked(mutex[m].list) \cup {t} /\ ByPriority(l, rt.prio)
    <2>1. mutex[m].list \in Seq(Threads) /\ ByPriority(mutex[m].list, rt.prio)
      BY Typed DEF OneAtATime
    <2> QED BY <1>5, <1>6, <2>1, SuspendLemma, SuspendByPriority
  <1>8. /\ mutex'[m].list = l /\ mutex'[m].owner = o /\ mutex'[m].original = mutex[m].original
        /\ \A n \in Mutexes : n # m => mutex'[n] = mutex[n]
    <2>1. mutex' = [mutex EXCEPT ![m].list = l]
      BY <1>1, <1>6
    <2> QED BY <1>2, <1>5, <2>1 DEF Object
  <1>9. \A u \in Threads : Owned(u)' = Owned(u)
    BY <1>2, <1>8 DEF Owned
  <1>10. \A u \in Threads : Waiting(u)' => Waiting(u) \/ u = t
    BY <1>1, <1>3, <1>5 DEF Waiting
  <1>11. ASSUME NEW n \in Mutexes, NEW x \in Linked(mutex'[n].list)
         PROVE  /\ x \in Threads /\ x # o /\ rt'.prio[x] = rt.prio[x]
                /\ x \in Linked(mutex[n].list) \/ (n = m /\ x = t)
    <2>1. x \in Linked(mutex[n].list) \/ (n = m /\ x = t)
      BY <1>7, <1>8, <1>11
    <2>2. x \in Threads /\ Owned(x) = {}
      BY <1>1, <2>1, WaiterFacts
    <2> QED BY <1>3, <1>4, <2>1, <2>2
  <1>12. NoInversion'
    <2> SUFFICES ASSUME NEW n \in Mutexes, NEW x \in Linked(mutex'[n].list)
                 PROVE  rt'.prio[mutex'[n].owner] <= rt'.prio[x]
      BY DEF NoInversion
    <2>1. CASE x \in Linked(mutex[n].list)
      <3>1. /\ mutex[n].owner \in Threads /\ n \in Owned(mutex[n].owner)
            /\ rt.prio[mutex[n].owner] <= rt.prio[x]
        BY <2>1, WaiterFacts
      <3>2. mutex'[n].owner = mutex[n].owner
        BY <1>2, <1>8
      <3>3. rt'.prio[mutex[n].owner] <= rt.prio[mutex[n].owner]
        BY <1>3, <1>5, <3>1
      <3>4. /\ rt'.prio[mutex[n].owner] \in Nat /\ rt.prio[mutex[n].owner] \in Nat
            /\ rt.prio[x] \in Nat /\ rt'.prio[x] = rt.prio[x]
        BY <1>3, <1>5, <1>11, <3>1
      <3> QED BY <3>1, <3>2, <3>3, <3>4
    <2>2. CASE n = m /\ x = t
      BY <1>3, <1>8, <1>11, <2>2
    <2> QED BY <1>11, <2>1, <2>2
  <1>13. ASSUME NEW n \in Mutexes PROVE ByPriority(mutex'[n].list, rt'.prio)
    <2>1. ByPriority(mutex'[n].list, rt.prio)
      BY <1>7, <1>8 DEF OneAtATime
    <2> QED BY <1>11, <2>1, ByPriorityFrame
  <1>14. \A u \in Threads : Waiting(u)' => Owned(u)' = {}
    BY <1>1, <1>9, <1>10 DEF OneAtATime
  <1>15. BaseRestored'
    <2> SUFFICES ASSUME NEW u \in Threads
                 PROVE  /\ rt'.prio[u] <= own[u] /\ own[u] <= Base[u]
                        /\ Owned(u)' = {} => rt'.prio[u] = own[u]
      BY <1>1 DEF BaseRestored
    <2>1. /\ rt.prio[u] <= own[u] /\ own[u] <= Base[u]
          /\ Owned(u) = {} => rt.prio[u] = own[u]
      BY DEF OneAtATime, BaseRestored
    <2>2. CASE u = o
      <3>1. rt'.prio[o] \in Nat /\ rt.prio[o] \in Nat /\ own[o] \in Nat
        BY <1>3, <1>5, OwnTyped
      <3>2. rt'.prio[o] <= own[o]
        BY <1>3, <2>1, <2>2, <3>1
      <3> QED BY <1>4, <1>9, <2>1, <2>2, <3>2
    <2>3. CASE u # o
      BY <1>3, <1>9, <2>1, <2>3
    <2> QED BY <2>2, <2>3
  <1>16. \A n \in Mutexes : Held(n)' => mutex'[n].original = own'[mutex'[n].owner]
    <2>1. \A n \in Mutexes : /\ mutex'[n].owner = mutex[n].owner
                             /\ mutex'[n].original = mutex[n].original
      BY <1>2, <1>8
    <2> QED BY <1>1, <2>1 DEF OneAtATime, Held
  <1>17. \A u \in Threads : \A a, b \in Owned(u)' : a = b
    BY <1>9 DEF OneAtATime
  <1> QED BY <1>12, <1>13, <1>14, <1>15, <1>16, <1>17 DEF OneAtATime

LEMMA HoldQuiet ==
    ASSUME IInv, NEW t \in Threads, NEW m \in Mutexes, TakeAgain(t, m) \/ ReleaseInner(t, m)
    PROVE  Quiet(t)
  <1>1. PICK h : mutex' = [mutex EXCEPT ![m].hold = h]
    BY DEF TakeAgain, ReleaseInner
  <1>2. rt' = rt /\ pc' = pc /\ own' = own
    BY DEF TakeAgain, ReleaseInner, threadvars
  <1>3. mutex \in [Mutexes -> Object] /\ mutex[m] \in Object
    BY Typed DEF IInv, TypeOK
  <1>4. \A n \in Mutexes : /\ mutex'[n].owner = mutex[n].owner
                           /\ mutex'[n].original = mutex[n].original
                           /\ mutex'[n].list = mutex[n].list
    BY <1>1, <1>3 DEF Object
  <1> QED BY <1>2, <1>4 DEF Quiet, Waiting

LEMMA InitQuiet ==
    ASSUME IInv, NEW t \in Threads, NEW m \in Mutexes, rt_mutex_init(t, m)
    PROVE  Quiet(t)
  <1>1. /\ ~mutex[m].live /\ mutex' = [mutex EXCEPT ![m] = Free]
        /\ rt' = rt /\ pc' = pc /\ own' = own
    BY DEF rt_mutex_init, threadvars
  <1>2. ~Held(m)
    BY <1>1 DEF IInv, Objects
  <1>3. mutex[m].owner = None /\ mutex[m].original = NoPriority /\ mutex[m].list = <<>>
    BY <1>2, FreeLemma DEF IInv, Objects, Held
  <1>4. mutex'[m] = Free /\ \A n \in Mutexes : n # m => mutex'[n] = mutex[n]
    BY <1>1 DEF IInv, TypeOK
  <1>5. \A n \in Mutexes : /\ mutex'[n].owner = mutex[n].owner
                           /\ mutex'[n].original = mutex[n].original
                           /\ mutex'[n].list = mutex[n].list
    BY <1>3, <1>4, FreeIsObject
  <1> QED BY <1>1, <1>5 DEF Quiet, Waiting

LEMMA StepKeepsOne ==
    ASSUME ~Nested, IInv, OneAtATime, [Next]_vars
    PROVE  OneAtATime'
  <1>1. CASE UNCHANGED vars
    <2>1. rt' = rt /\ mutex' = mutex /\ pc' = pc /\ own' = own
      BY <1>1 DEF vars, threadvars
    <2>2. Quiet(Idle)
      BY <2>1 DEF Quiet, Waiting
    <2> QED BY <2>2, QuietOne
  <1>2. ASSUME NEW t \in Threads, NEW m \in Mutexes, MutexCall(t, m) PROVE OneAtATime'
    <2>1. CASE TakeFree(t, m)
      BY <2>1, TakeFreeOne
    <2>2. CASE TakeAgain(t, m) \/ ReleaseInner(t, m)
      BY <2>2, HoldQuiet, QuietOne
    <2>3. ASSUME NEW ticks \in BOOLEAN, TakeWaits(t, m, ticks) PROVE OneAtATime'
      BY <2>3, TakeWaitsOne
    <2>4. CASE ReleaseFrees(t, m)
      BY <2>4, ReleaseFreesOne
    <2>5. CASE ReleaseHandsOver(t, m)
      BY <2>5, HandOverOne
    <2>6. CASE rt_mutex_delete(t, m)
      BY <2>6, DeleteKeeps, QuietOne
    <2>7. CASE rt_mutex_init(t, m)
      BY <2>7, InitQuiet, QuietOne
    <2> QED BY <1>2, <2>1, <2>2, <2>3, <2>4, <2>5, <2>6, <2>7 DEF MutexCall
  <1>3. ASSUME NEW t \in Threads,
               \/ TakeReturns(t) \/ ResumeAllPops(t)
               \/ Reschedule(t) \/ rt_thread_sleep(t) \/ TimerExpires(t)
        PROVE  OneAtATime'
    BY <1>3, QuietOne, TakeReturnsKeeps, PopKeeps, RescheduleKeeps, SleepKeeps, TimerKeeps
  <1>4. ASSUME NEW t \in Threads, rt_object_delete(t) PROVE OneAtATime'
    BY <1>4, ObjectDeleteOne
  <1>5. CASE SliceEnds
    BY <1>5, QuietOne, SliceKeeps
  <1> QED BY <1>1, <1>2, <1>3, <1>4, <1>5 DEF Next

LEMMA InitOne == Init => OneAtATime
  <1> SUFFICES ASSUME Init PROVE OneAtATime
    OBVIOUS
  <1>1. \A m \in Mutexes : mutex[m].owner = None /\ mutex[m].list = <<>>
    BY FreeIsObject DEF Init
  <1>2. \A t \in Threads : Owned(t) = {}
    BY <1>1, NoneAssumption DEF Owned
  <1>3. rt.prio = Base
    BY DEF Init
  <1>4. NoInversion
    BY <1>1 DEF NoInversion, Linked
  <1>5. \A m \in Mutexes : ByPriority(mutex[m].list, rt.prio)
    BY <1>1 DEF ByPriority
  <1>6. BaseRestored
    <2>1. \A t \in Threads : Base[t] \in Nat
      BY BaseAssumption, PrioritiesAssumption
    <2> QED BY <1>3, <2>1 DEF Init, BaseRestored
  <1> QED BY <1>1, <1>2, <1>4, <1>5, <1>6 DEF OneAtATime, Held

(* The owner could run, and HighestRuns gives the processor to nobody less   *)
(* urgent than the owner, who is no less urgent than x.                     *)
LEMMA InversionLemma ==
    ASSUME IInv, OneAtATime
    PROVE  InversionBounded
  <1> SUFFICES ASSUME NEW m \in Mutexes, NEW x \in Linked(mutex[m].list),
                      rt.stat[mutex[m].owner] \in {"READY", "RUNNING"},
                      ~owed, pc[rt.current] \in {"run", "woken"}
               PROVE  rt.prio[rt.current] <= rt.prio[x]
    BY DEF InversionBounded
  <1>1. PICK o : o = mutex[m].owner
    OBVIOUS
  <1>2. x \in Threads /\ o \in Threads /\ rt.prio[o] <= rt.prio[x]
    BY <1>1, WaiterFacts
  <1>3. rt.current \in Threads /\ rt.prio \in [Threads -> Nat]
    BY Typed
  <1>4. rt.prio[rt.current] <= rt.prio[o]
    <2>1. CASE rt.stat[o] = "READY"
      BY <1>2, <2>1 DEF IInv, HighestRuns
    <2>2. CASE rt.stat[o] = "RUNNING"
      <3>1. o = rt.current
        BY <1>2, <2>2 DEF IInv, KInv
      <3> QED BY <1>3, <3>1
    <2> QED BY <1>1, <2>1, <2>2
  <1>5. rt.prio[rt.current] \in Nat /\ rt.prio[o] \in Nat /\ rt.prio[x] \in Nat
    BY <1>2, <1>3
  <1> QED BY <1>2, <1>4, <1>5

(* Priority inheritance works when no thread owns two mutexes at a time: the *)
(* processor is not with a thread less urgent than one that waits while the *)
(* owner could run, but for the steps until an rt_schedule that is owed; an *)
(* owner is as urgent as all who wait for it; and who released all it owned *)
(* has its own priority back.  That is the priority of its creation unless  *)
(* it deleted a mutex while boosted: the deletion leaves it the boost.      *)
(* The run with nesting shows that it takes the assumption.                *)
THEOREM InheritanceBoundsInversion ==
    ~Nested => (Spec => [](InversionBounded /\ NoInversion /\ BaseRestored))
  <1> SUFFICES ASSUME ~Nested
               PROVE  Spec => [](InversionBounded /\ NoInversion /\ BaseRestored)
    OBVIOUS
  <1>1. Init => IInv /\ OneAtATime
    BY InitIInv, InitOne
  <1>2. IInv /\ OneAtATime /\ [Next]_vars => (IInv /\ OneAtATime)'
    BY StepKeepsIInv, StepKeepsOne
  <1>3. IInv /\ OneAtATime => InversionBounded /\ NoInversion /\ BaseRestored
    BY InversionLemma DEF OneAtATime
  <1> QED BY <1>1, <1>2, <1>3, PTL DEF Spec
=============================================================================
