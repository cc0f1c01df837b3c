---------------------------- MODULE KernelProofs ----------------------------
(***************************************************************************)
(* The functions of Kernel on any kernel state: what each does to the ready *)
(* queues, the bitmap and the defunct list, what rt_schedule chooses, and   *)
(* what the priority of a thread may be changed under.                      *)
(***************************************************************************)
EXTENDS Kernel, ListProofs

(* The ready queues of k hold exactly the threads of S, each on the queue   *)
(* of its priority, and the defunct list exactly those of D.               *)
Queues(k, S, D) ==
    /\ k \in Kernel
    /\ \A p \in Priorities : NoDup(k.ready[p])
    /\ \A p \in Priorities : Linked(k.ready[p]) = {t \in S : k.prio[t] = p}
    /\ k.group = {p \in Priorities : \E t \in S : k.prio[t] = p}
    /\ NoDup(k.defunct)
    /\ Linked(k.defunct) = D

-----------------------------------------------------------------------------
(* The list operations, one lemma each *)

(* Only the lists, the bitmap and the priorities matter to Queues. *)
LEMMA QueuesFrame ==
    ASSUME NEW k, NEW j, NEW S, NEW D, Queues(k, S, D), j \in Kernel,
           j.ready = k.ready, j.group = k.group, j.defunct = k.defunct, j.prio = k.prio
    PROVE  Queues(j, S, D)
  BY DEF Queues

(* A thread on no list is unlinked from none. *)
LEMMA UnlinkNothing ==
    ASSUME NEW k, NEW S, NEW D, Queues(k, S, D), NEW t \in Threads, t \notin S, t \notin D
    PROVE  Unlink(k, t) = k
  <1>1. k \in Kernel /\ k.ready \in [Priorities -> Seq(Threads)] /\ k.defunct \in Seq(Threads)
    BY DEF Queues, Kernel
  <1>2. ASSUME NEW p \in Priorities PROVE rt_list_remove(k.ready[p], t) = k.ready[p]
    <2>1. t \notin Linked(k.ready[p])
      BY DEF Queues
    <2> QED BY <2>1 DEF rt_list_remove
  <1>3. rt_list_remove(k.defunct, t) = k.defunct
    BY DEF Queues, rt_list_remove
  <1>4. [p \in Priorities |-> rt_list_remove(k.ready[p], t)] = k.ready
    BY <1>1, <1>2
  <1>5. [k EXCEPT !.ready = k.ready, !.defunct = k.defunct] = k
    BY <1>1 DEF Kernel
  <1> QED BY <1>3, <1>4, <1>5 DEF Unlink

(* rt_schedule_remove_thread takes t off its queue and keeps the bitmap     *)
(* right; the rest of the kernel state is not touched.                     *)
LEMMA RemoveThreadLemma ==
    ASSUME NEW k, NEW S, NEW D, Queues(k, S, D), NEW t \in Threads,
           S \subseteq Threads
    PROVE  LET n == rt_schedule_remove_thread(k, t) IN
           /\ Queues(n, S \ {t}, D \ {t})
           /\ n.stat = k.stat /\ n.yield = k.yield /\ n.prio = k.prio
           /\ n.current = k.current /\ n.nest = k.nest /\ n.timer = k.timer
  <1> DEFINE u == Unlink(k, t)
             n == rt_schedule_remove_thread(k, t)
  <1>1. k \in Kernel /\ k.prio \in [Threads -> Priorities] /\ k.group \subseteq Priorities
        /\ k.ready \in [Priorities -> Seq(Threads)] /\ k.defunct \in Seq(Threads)
    BY DEF Queues, Kernel
  <1>2. /\ u.stat = k.stat /\ u.yield = k.yield /\ u.prio = k.prio /\ u.group = k.group
        /\ u.current = k.current /\ u.nest = k.nest /\ u.timer = k.timer
        /\ u.ready = [p \in Priorities |-> rt_list_remove(k.ready[p], t)]
        /\ u.defunct = rt_list_remove(k.defunct, t)
    BY <1>1 DEF Unlink, Kernel
  <1>3. ASSUME NEW p \in Priorities
        PROVE  /\ u.ready[p] \in Seq(Threads) /\ NoDup(u.ready[p])
               /\ Linked(u.ready[p]) = {s \in S \ {t} : k.prio[s] = p}
    <2>1. /\ u.ready[p] = rt_list_remove(k.ready[p], t)
          /\ k.ready[p] \in Seq(Threads) /\ NoDup(k.ready[p])
          /\ Linked(k.ready[p]) = {s \in S : k.prio[s] = p}
      BY <1>1, <1>2 DEF Queues
    <2>2. /\ u.ready[p] \in Seq(Threads) /\ NoDup(u.ready[p])
          /\ Linked(u.ready[p]) = Linked(k.ready[p]) \ {t}
      BY <2>1, RemoveLemma
    <2> QED BY <2>1, <2>2
  <1>4. /\ u.defunct \in Seq(Threads) /\ NoDup(u.defunct)
        /\ Linked(u.defunct) = D \ {t}
    BY <1>1, <1>2, RemoveLemma DEF Queues
  <1>5. u \in Kernel
    <2>1. u.ready \in [Priorities -> Seq(Threads)]
      BY <1>2, <1>3
    <2> QED BY <1>1, <1>2, <1>4, <2>1 DEF Unlink, Kernel
  <1>6. u.ready[k.prio[t]] = <<>> <=> ~ \E s \in S \ {t} : k.prio[s] = k.prio[t]
    BY <1>1, <1>3, EmptyLemma
  <1>7. \A p \in Priorities : p # k.prio[t] =>
            ((\E s \in S : k.prio[s] = p) <=> (\E s \in S \ {t} : k.prio[s] = p))
    OBVIOUS
  <1>8. /\ n \in Kernel
        /\ n.stat = k.stat /\ n.yield = k.yield /\ n.prio = k.prio
        /\ n.current = k.current /\ n.nest = k.nest /\ n.timer = k.timer
        /\ n.ready = u.ready /\ n.defunct = u.defunct
        /\ n.group = IF u.ready[k.prio[t]] = <<>> THEN k.group \ {k.prio[t]} ELSE k.group
    <2>1. n = IF u.ready[k.prio[t]] = <<>> THEN [u EXCEPT !.group = u.group \ {k.prio[t]}] ELSE u
      BY DEF rt_schedule_remove_thread, rt_list_isempty
    <2> HIDE DEF u, n
    <2>2. CASE u.ready[k.prio[t]] = <<>>
      <3>1. n = [u EXCEPT !.group = u.group \ {k.prio[t]}]
        BY <2>1, <2>2
      <3>2. u.group \ {k.prio[t]} \in SUBSET Priorities
        BY <1>1, <1>2
      <3> QED BY <3>1, <3>2, <1>2, <1>5, <2>2 DEF Kernel
    <2>3. CASE u.ready[k.prio[t]] # <<>>
      BY <2>1, <2>3, <1>2, <1>5
    <2> QED BY <2>2, <2>3
  <1>9. n.group = {p \in Priorities : \E s \in S \ {t} : k.prio[s] = p}
    <2>1. k.group = {p \in Priorities : \E s \in S : k.prio[s] = p}
      BY DEF Queues
    <2>2. k.prio[t] \in Priorities
      BY <1>1
    <2>3. CASE u.ready[k.prio[t]] = <<>>
      BY <2>1, <2>2, <2>3, <1>6, <1>7, <1>8
    <2>4. CASE u.ready[k.prio[t]] # <<>>
      BY <2>1, <2>2, <2>4, <1>6, <1>7, <1>8
    <2> QED BY <2>3, <2>4
  <1> HIDE DEF u, n
  <1>10. Queues(n, S \ {t}, D \ {t})
    BY <1>3, <1>4, <1>8, <1>9 DEF Queues
  <1> QED BY <1>8, <1>10 DEF n

(* rt_schedule_insert_thread queues any thread but the current one. *)
LEMMA InsertThreadLemma ==
    ASSUME NEW k, NEW S, NEW D, Queues(k, S, D), NEW t \in Threads,
           S \subseteq Threads, t \notin S, t # k.current
    PROVE  LET n == rt_schedule_insert_thread(k, t) IN
           /\ Queues(n, S \cup {t}, D)
           /\ n.stat = [k.stat EXCEPT ![t] = "READY"]
           /\ n.yield = k.yield /\ n.prio = k.prio
           /\ n.current = k.current /\ n.nest = k.nest /\ n.timer = k.timer
  <1> DEFINE n == rt_schedule_insert_thread(k, t)
             c == k.prio[t]
  <1>1. k \in Kernel /\ k.prio \in [Threads -> Priorities] /\ k.group \subseteq Priorities
        /\ k.ready \in [Priorities -> Seq(Threads)] /\ k.stat \in [Threads -> Stats]
    BY DEF Queues, Kernel
  <1>2. c \in Priorities /\ k.ready[c] \in Seq(Threads)
    BY <1>1
  <1>3. /\ n.stat = [k.stat EXCEPT ![t] = "READY"]
        /\ n.yield = k.yield /\ n.prio = k.prio /\ n.defunct = k.defunct
        /\ n.current = k.current /\ n.nest = k.nest /\ n.timer = k.timer
        /\ n.group = k.group \cup {c}
        /\ n.ready = [k.ready EXCEPT ![c] = rt_list_insert_before(@, t)]
    BY <1>1 DEF rt_schedule_insert_thread, Kernel
  <1>4. t \notin Linked(k.ready[c]) /\ NoDup(k.ready[c])
        /\ Linked(k.ready[c]) = {s \in S : k.prio[s] = c}
    BY <1>2 DEF Queues
  <1>5. /\ n.ready[c] \in Seq(Threads) /\ NoDup(n.ready[c])
        /\ Linked(n.ready[c]) = Linked(k.ready[c]) \cup {t}
    <2>1. n.ready[c] = rt_list_insert_before(k.ready[c], t)
      BY <1>1, <1>2, <1>3
    <2> DEFINE q == k.ready[c]
    <2>2. q \in Seq(Threads) /\ NoDup(q) /\ t \notin Linked(q)
      BY <1>2, <1>4
    <2> HIDE DEF n, q
    <2>3. /\ rt_list_insert_before(q, t) \in Seq(Threads)
          /\ Linked(rt_list_insert_before(q, t)) = Linked(q) \cup {t}
          /\ NoDup(rt_list_insert_before(q, t))
      BY <2>2, InsertBeforeLemma
    <2> QED BY <2>1, <2>3 DEF q
  <1>6. \A p \in Priorities : p # c => n.ready[p] = k.ready[p]
    BY <1>1, <1>3
  <1>7. n \in Kernel
    <2>1. n.ready \in [Priorities -> Seq(Threads)]
      BY <1>1, <1>2, <1>3, <1>5, <1>6
    <2>2. n.stat \in [Threads -> Stats]
      BY <1>1, <1>3 DEF Stats
    <2>3. n.group \subseteq Priorities
      BY <1>1, <1>2, <1>3
    <2> QED BY <1>1, <1>3, <2>1, <2>2, <2>3 DEF rt_schedule_insert_thread, Kernel
  <1> HIDE DEF n
  <1>8. ASSUME NEW p \in Priorities
        PROVE  NoDup(n.ready[p]) /\ Linked(n.ready[p]) = {s \in S \cup {t} : n.prio[s] = p}
    <2>1. CASE p = c
      BY <2>1, <1>3, <1>4, <1>5
    <2>2. CASE p # c
      BY <2>2, <1>3, <1>6 DEF Queues
    <2> QED BY <2>1, <2>2
  <1>9. n.group = {p \in Priorities : \E s \in S \cup {t} : n.prio[s] = p}
    BY <1>2, <1>3 DEF Queues
  <1>10. Queues(n, S \cup {t}, D)
    BY <1>3, <1>7, <1>8, <1>9 DEF Queues
  <1> QED BY <1>3, <1>10 DEF n

(* CloseThread puts a thread that is on no list on the defunct list. *)
LEMMA CloseThreadLemma ==
    ASSUME NEW k, NEW S, NEW D, Queues(k, S, D), NEW t \in Threads, t \notin D
    PROVE  LET n == CloseThread(k, t) IN
           /\ Queues(n, S, D \cup {t})
           /\ n.stat = [k.stat EXCEPT ![t] = "CLOSE"]
           /\ n.timer = [k.timer EXCEPT ![t] = FALSE]
           /\ n.prio = k.prio /\ n.current = k.current /\ n.nest = k.nest
  <1> DEFINE n == CloseThread(k, t)
  <1>1. k \in Kernel /\ k.defunct \in Seq(Threads) /\ NoDup(k.defunct) /\ Linked(k.defunct) = D
        /\ k.stat \in [Threads -> Stats] /\ k.timer \in [Threads -> BOOLEAN]
        /\ k.yield \in [Threads -> BOOLEAN]
    BY DEF Queues, Kernel
  <1>2. /\ n.stat = [k.stat EXCEPT ![t] = "CLOSE"]
        /\ n.timer = [k.timer EXCEPT ![t] = FALSE]
        /\ n.yield = [k.yield EXCEPT ![t] = FALSE]
        /\ n.prio = k.prio /\ n.current = k.current /\ n.nest = k.nest
        /\ n.ready = k.ready /\ n.group = k.group
        /\ n.defunct = rt_list_insert_after(k.defunct, t)
    BY <1>1 DEF CloseThread, Kernel
  <1>3. /\ n.defunct \in Seq(Threads) /\ NoDup(n.defunct) /\ Linked(n.defunct) = D \cup {t}
    BY <1>1, <1>2, InsertAfterLemma
  <1>4. n \in Kernel
    <2>1. n.stat \in [Threads -> Stats] /\ n.timer \in [Threads -> BOOLEAN]
          /\ n.yield \in [Threads -> BOOLEAN]
      BY <1>1, <1>2 DEF Stats
    <2> QED BY <1>1, <1>2, <1>3, <2>1 DEF CloseThread, Kernel
  <1> HIDE DEF n
  <1>5. Queues(n, S, D \cup {t})
    BY <1>2, <1>3, <1>4 DEF Queues
  <1> QED BY <1>2, <1>5 DEF n

-----------------------------------------------------------------------------
(* What a kernel function may rely on when no thread is being closed *)

KInv(k) ==
    /\ Queues(k, {t \in Threads : k.stat[t] = "READY"}, {t \in Threads : k.stat[t] = "CLOSE"})
    /\ \A t \in Threads : k.stat[t] = "RUNNING" => t = k.current
    /\ k.stat[k.current] \in {"RUNNING", "SUSPEND", "CLOSE"}
    /\ k.stat[k.current] = "SUSPEND" => k.nest = 0
    /\ k.stat[Idle] \in {"READY", "RUNNING"}
    /\ \A t \in Threads : k.timer[t] => k.stat[t] = "SUSPEND"

(* The first thread of the queue __rt_ffs finds is a most urgent one. *)
LEMMA HighestLemma ==
    ASSUME NEW k, NEW S, NEW D, Queues(k, S, D), S \subseteq Threads, k.group # {}
    PROVE  LET p == highest_ready_priority(k)
               to == _scheduler_get_highest_priority_thread(k)
           IN  /\ p \in Priorities /\ to \in S /\ k.prio[to] = p
               /\ \A s \in S : p <= k.prio[s]
  <1> DEFINE p == highest_ready_priority(k)
             to == _scheduler_get_highest_priority_thread(k)
  <1>1. k \in Kernel /\ k.group \subseteq Priorities /\ k.prio \in [Threads -> Priorities]
        /\ k.ready \in [Priorities -> Seq(Threads)]
    BY DEF Queues, Kernel
  <1>2. \E q \in k.group : \A r \in k.group : q <= r
    <2>1. k.group \subseteq Nat /\ k.group # {}
      BY <1>1, PrioritiesAssumption
    <2> QED BY <2>1, LeastLemma
  <1>3. p \in k.group /\ \A r \in k.group : p <= r
    BY <1>2 DEF highest_ready_priority
  <1> HIDE DEF p
  <1>4. k.group = {r \in Priorities : \E s \in S : k.prio[s] = r}
    BY DEF Queues
  <1>5. PICK s \in S : k.prio[s] = p
    BY <1>3, <1>4
  <1>6. s \in Linked(k.ready[p]) /\ k.ready[p] \in Seq(Threads)
    BY <1>1, <1>3, <1>5 DEF Queues
  <1>7. Head(k.ready[p]) \in Linked(k.ready[p])
    BY <1>6, EmptyLemma
  <1>8. to \in S /\ k.prio[to] = p
    <2>1. to = Head(k.ready[p])
      BY DEF _scheduler_get_highest_priority_thread, p
    <2> QED BY <2>1, <1>3, <1>1, <1>7 DEF Queues
  <1>9. \A r \in S : k.prio[r] \in k.group
    BY <1>1, <1>4
  <1> QED BY <1>1, <1>3, <1>8, <1>9 DEF p
(* SwitchTo takes the chosen thread off its queue and makes it RUNNING. *)
LEMMA SwitchToLemma ==
    ASSUME NEW k, NEW S, NEW D, Queues(k, S, D), NEW t \in Threads, S \subseteq Threads
    PROVE  LET n == SwitchTo(k, t) IN
           /\ Queues(n, S \ {t}, D \ {t})
           /\ n.stat = [k.stat EXCEPT ![t] = "RUNNING"]
           /\ n.prio = k.prio /\ n.current = k.current /\ n.nest = k.nest
           /\ n.timer = k.timer
  <1> DEFINE u == rt_schedule_remove_thread(k, t)
             n == SwitchTo(k, t)
  <1>1. /\ Queues(u, S \ {t}, D \ {t})
        /\ u.stat = k.stat /\ u.prio = k.prio
        /\ u.current = k.current /\ u.nest = k.nest /\ u.timer = k.timer
    BY RemoveThreadLemma
  <1>2. n = [u EXCEPT !.stat[t] = "RUNNING"]
    BY DEF SwitchTo
  <1> HIDE DEF u, n
  <1>3. u \in Kernel /\ u.stat \in [Threads -> Stats]
    BY <1>1 DEF Queues, Kernel
  <1>4. /\ n.stat = [k.stat EXCEPT ![t] = "RUNNING"]
        /\ n.prio = k.prio /\ n.current = k.current /\ n.nest = k.nest
        /\ n.timer = k.timer /\ n.ready = u.ready /\ n.group = u.group
        /\ n.defunct = u.defunct
    BY <1>1, <1>2, <1>3 DEF Kernel
  <1>5. n \in Kernel
    <2>1. [u.stat EXCEPT ![t] = "RUNNING"] \in [Threads -> Stats]
      BY <1>3 DEF Stats
    <2> QED BY <1>2, <1>3, <2>1 DEF Kernel
  <1>6. Queues(n, S \ {t}, D \ {t})
    BY <1>1, <1>4, <1>5, QueuesFrame
  <1> QED BY <1>4, <1>6 DEF n

(* rt_schedule keeps the kernel consistent, gives the processor only to a   *)
(* READY thread, leaves every thread that is neither READY nor RUNNING as   *)
(* it was, and unless the scheduler is locked the thread that runs next is *)
(* RUNNING and a most urgent one.                                          *)
LEMMA ScheduleLemma ==
    ASSUME NEW k, KInv(k)
    PROVE  LET n == rt_schedule(k)
               c == k.current
           IN  /\ KInv(n)
               /\ n.nest = k.nest /\ n.prio = k.prio /\ n.timer = k.timer
               /\ k.nest # 0 => n = k
               /\ n.current # c => k.nest = 0 /\ k.stat[n.current] = "READY"
               /\ n.current # c /\ n.stat[c] = "READY" =>
                    \/ k.prio[n.current] < k.prio[c]
                    \/ k.prio[n.current] = k.prio[c] /\ k.yield[c]
               /\ \A t \in Threads : k.stat[t] \notin {"READY", "RUNNING"} => n.stat[t] = k.stat[t]
               /\ \A t \in Threads : k.stat[t] \in {"READY", "RUNNING"} =>
                                        n.stat[t] \in {"READY", "RUNNING"}
               /\ k.nest = 0 => /\ n.stat[n.current] = "RUNNING"
                                /\ \A t \in Threads : n.stat[t] = "READY" =>
                                        n.prio[n.current] <= n.prio[t]
  <1> DEFINE n == rt_schedule(k)
             c == k.current
             S == {t \in Threads : k.stat[t] = "READY"}
             D == {t \in Threads : k.stat[t] = "CLOSE"}
             p == highest_ready_priority(k)
             to == _scheduler_get_highest_priority_thread(k)
             kept == [k EXCEPT !.yield[c] = FALSE]
  <1>1. /\ k \in Kernel /\ c \in Threads /\ k.stat \in [Threads -> Stats]
        /\ k.prio \in [Threads -> Priorities] /\ k.yield \in [Threads -> BOOLEAN]
        /\ Priorities \subseteq Nat /\ k.nest \in Nat
    BY PrioritiesAssumption, MaxNestAssumption DEF KInv, Queues, Kernel
  <1>2. Queues(k, S, D) /\ S \subseteq Threads /\ c \notin S
    BY DEF KInv
  <1>3. k.group = {} => S = {}
    BY <1>1, <1>2 DEF Queues
  <1>4. ASSUME k.group # {}
        PROVE  /\ p \in Priorities /\ to \in S /\ k.prio[to] = p
               /\ \A s \in S : p <= k.prio[s]
    BY <1>2, <1>4, HighestLemma
  <1>5. /\ kept \in Kernel /\ kept.ready = k.ready /\ kept.group = k.group
        /\ kept.defunct = k.defunct /\ kept.prio = k.prio /\ kept.stat = k.stat
        /\ kept.current = k.current /\ kept.nest = k.nest /\ kept.timer = k.timer
    BY <1>1 DEF Kernel
  <1>6. Queues(kept, S, D)
    BY <1>2, <1>5, QueuesFrame
  <1>7. CASE k.nest # 0 \/ k.group = {}
    <2>1. n = k
      BY <1>7 DEF rt_schedule
    <2>2. ASSUME k.nest = 0 PROVE c = Idle /\ k.stat[c] = "RUNNING" /\ S = {}
      BY <1>3, <1>7, <2>2, IdleAssumption DEF KInv
    <2> HIDE DEF n
    <2> QED BY <2>1, <2>2 DEF n
  <1>8. CASE k.nest = 0 /\ k.group # {} /\ k.stat[c] = "RUNNING"
             /\ (k.prio[c] < p \/ (k.prio[c] = p /\ ~k.yield[c]))
    <2>1. n = SwitchTo(kept, c)
      BY <1>8 DEF rt_schedule, ScheduleRunning
    <2> HIDE DEF n, kept, p, to
    <2>2. /\ Queues(n, S \ {c}, D \ {c})
          /\ n.stat = [kept.stat EXCEPT ![c] = "RUNNING"]
          /\ n.prio = kept.prio /\ n.current = kept.current /\ n.nest = kept.nest
          /\ n.timer = kept.timer
      <3>1. c \in Threads /\ S \subseteq Threads
        BY <1>1
      <3> HIDE DEF S, D, c
      <3> QED BY ONLY <2>1, <3>1, <1>6, SwitchToLemma
    <2>3. n.stat = k.stat /\ S \ {c} = S /\ D \ {c} = D
      BY <2>2, <1>1, <1>2, <1>5, <1>8
    <2>4. Queues(n, S, D)
      BY <2>2, <2>3
    <2>5. KInv(n)
      BY <2>2, <2>3, <2>4, <1>5 DEF KInv
    <2>6. ASSUME NEW t \in S PROVE k.prio[c] <= k.prio[t]
      <3>1. p \in Nat /\ k.prio[c] \in Nat /\ k.prio[t] \in Nat
        BY <1>1, <1>4, <1>8
      <3>2. p <= k.prio[t] /\ k.prio[c] <= p
        BY <3>1, <1>4, <1>8
      <3> QED BY <3>1, <3>2
    <2> QED BY <2>2, <2>3, <2>5, <2>6, <1>5, <1>8 DEF n
  <1>9. CASE k.nest = 0 /\ k.group # {} /\ k.stat[c] = "RUNNING"
             /\ ~(k.prio[c] < p \/ (k.prio[c] = p /\ ~k.yield[c]))
    <2> DEFINE m == [kept EXCEPT !.current = to]
               i == rt_schedule_insert_thread(m, c)
    <2>1. n = SwitchTo(i, to)
      BY <1>9 DEF rt_schedule, ScheduleRunning
    <2>2. to \in S /\ to \in Threads /\ to # c /\ k.stat[to] = "READY"
      BY <1>2, <1>4, <1>9
    <2> HIDE DEF n, kept, p, to
    <2>3. /\ m \in Kernel /\ m.ready = kept.ready /\ m.group = kept.group
          /\ m.defunct = kept.defunct /\ m.prio = kept.prio /\ m.stat = kept.stat
          /\ m.nest = kept.nest /\ m.timer = kept.timer /\ m.current = to
      BY <1>5, <2>2 DEF Kernel
    <2>4. Queues(m, S, D)
      BY <1>6, <2>3, QueuesFrame
    <2> HIDE DEF m
    <2>5. /\ Queues(i, S \cup {c}, D)
          /\ i.stat = [m.stat EXCEPT ![c] = "READY"]
          /\ i.prio = m.prio /\ i.current = m.current /\ i.nest = m.nest /\ i.timer = m.timer
      <3> HIDE DEF S, D, c
      <3> QED BY <1>1, <1>2, <2>2, <2>3, <2>4, InsertThreadLemma
    <2> HIDE DEF i
    <2>6. /\ Queues(n, (S \cup {c}) \ {to}, D \ {to})
          /\ n.stat = [i.stat EXCEPT ![to] = "RUNNING"]
          /\ n.prio = i.prio /\ n.current = i.current /\ n.nest = i.nest
          /\ n.timer = i.timer
      <3>1. S \cup {c} \subseteq Threads
        BY <1>1
      <3> HIDE DEF S, D, c
      <3> QED BY <2>1, <2>2, <2>5, <3>1, SwitchToLemma
    <2>7. /\ n.stat = [k.stat EXCEPT ![c] = "READY", ![to] = "RUNNING"]
          /\ n.prio = k.prio /\ n.current = to /\ n.nest = k.nest /\ n.timer = k.timer
      BY <2>3, <2>5, <2>6, <1>5
    <2>8. /\ \A t \in Threads : n.stat[t] = IF t = to THEN "RUNNING"
                                            ELSE IF t = c THEN "READY" ELSE k.stat[t]
      BY <2>7, <1>1, <2>2
    <2>9. /\ (S \cup {c}) \ {to} = {t \in Threads : n.stat[t] = "READY"}
          /\ D \ {to} = {t \in Threads : n.stat[t] = "CLOSE"}
      BY <2>8, <2>2, <1>1, <1>9
    <2>10. Queues(n, {t \in Threads : n.stat[t] = "READY"}, {t \in Threads : n.stat[t] = "CLOSE"})
      BY <2>6, <2>9
    <2>11. KInv(n)
      <3>1. \A t \in Threads : n.stat[t] = "RUNNING" => t = n.current
        BY <2>7, <2>8 DEF KInv
      <3>2. n.stat[n.current] = "RUNNING"
        BY <2>2, <2>7, <2>8
      <3>3. n.stat[Idle] \in {"READY", "RUNNING"}
        BY <2>8, IdleAssumption DEF KInv
      <3>4. \A t \in Threads : n.timer[t] => n.stat[t] = "SUSPEND"
        BY <2>2, <2>7, <2>8, <1>9 DEF KInv
      <3> QED BY <2>10, <3>1, <3>2, <3>3, <3>4 DEF KInv
    <2>12. k.prio[to] < k.prio[c] \/ (k.prio[to] = k.prio[c] /\ k.yield[c])
      <3>1. p \in Nat /\ k.prio[c] \in Nat /\ k.prio[to] = p
        BY <1>1, <1>4, <1>9
      <3> QED BY <3>1, <1>1, <1>9
    <2>13. ASSUME NEW t \in S \cup {c} PROVE k.prio[to] <= k.prio[t]
      <3>1. p \in Nat /\ k.prio[c] \in Nat /\ k.prio[to] = p
        BY <1>1, <1>4, <1>9
      <3>2. CASE t = c
        BY <3>1, <3>2, <1>9
      <3>3. CASE t \in S
        BY <3>1, <3>3, <1>4, <1>9
      <3> QED BY <3>2, <3>3
    <2>14. \A t \in Threads : n.stat[t] = "READY" => t \in S \cup {c}
      BY <2>8
    <2> QED BY <2>2, <2>7, <2>8, <2>11, <2>12, <2>13, <2>14, <1>9 DEF n
  <1>10. CASE k.nest = 0 /\ k.group # {} /\ k.stat[c] # "RUNNING"
    <2> DEFINE m == [k EXCEPT !.current = to]
    <2>1. n = SwitchTo(m, to)
      BY <1>10 DEF rt_schedule, ScheduleStopped
    <2>2. to \in S /\ to \in Threads /\ to # c /\ k.stat[to] = "READY"
      BY <1>2, <1>4, <1>10
    <2> HIDE DEF n, p, to
    <2>3. /\ m \in Kernel /\ m.ready = k.ready /\ m.group = k.group
          /\ m.defunct = k.defunct /\ m.prio = k.prio /\ m.stat = k.stat
          /\ m.nest = k.nest /\ m.timer = k.timer /\ m.current = to
      BY <1>1, <2>2 DEF Kernel
    <2>4. Queues(m, S, D)
      BY <1>2, <2>3, QueuesFrame
    <2> HIDE DEF m
    <2>6. /\ Queues(n, S \ {to}, D \ {to})
          /\ n.stat = [m.stat EXCEPT ![to] = "RUNNING"]
          /\ n.prio = m.prio /\ n.current = m.current /\ n.nest = m.nest
          /\ n.timer = m.timer
      <3>1. to \in Threads /\ S \subseteq Threads
        BY <1>2, <2>2
      <3> HIDE DEF S, D, c, kept
      <3>2. LET j == SwitchTo(m, to) IN
            /\ Queues(j, S \ {to}, D \ {to})
            /\ j.stat = [m.stat EXCEPT ![to] = "RUNNING"]
            /\ j.prio = m.prio /\ j.current = m.current /\ j.nest = m.nest
            /\ j.timer = m.timer
        BY ONLY <2>4, <3>1, SwitchToLemma, Zenon
      <3> QED BY ONLY <2>1, <3>2
    <2>7. /\ n.stat = [k.stat EXCEPT ![to] = "RUNNING"]
          /\ n.prio = k.prio /\ n.current = to /\ n.nest = k.nest /\ n.timer = k.timer
      BY <2>3, <2>6
    <2>8. /\ \A t \in Threads : n.stat[t] = IF t = to THEN "RUNNING" ELSE k.stat[t]
      BY <2>7, <1>1, <2>2
    <2>9. /\ S \ {to} = {t \in Threads : n.stat[t] = "READY"}
          /\ D \ {to} = {t \in Threads : n.stat[t] = "CLOSE"}
      BY <2>8, <2>2, <1>1
    <2>10. Queues(n, {t \in Threads : n.stat[t] = "READY"}, {t \in Threads : n.stat[t] = "CLOSE"})
      BY <2>6, <2>9
    <2>11. KInv(n)
      <3>1. \A t \in Threads : n.stat[t] = "RUNNING" => t = n.current
        BY <2>7, <2>8, <1>10 DEF KInv
      <3>2. n.stat[n.current] = "RUNNING"
        BY <2>2, <2>7, <2>8
      <3>3. n.stat[Idle] \in {"READY", "RUNNING"}
        BY <2>8, IdleAssumption DEF KInv
      <3>4. \A t \in Threads : n.timer[t] => n.stat[t] = "SUSPEND"
        BY <2>2, <2>7, <2>8 DEF KInv
      <3> QED BY <2>10, <3>1, <3>2, <3>3, <3>4 DEF KInv
    <2>12. k.stat[c] # "READY"
      BY DEF KInv
    <2> QED BY <2>2, <2>7, <2>8, <2>11, <2>12, <1>1, <1>4, <1>10 DEF n
  <1> QED BY <1>1, <1>7, <1>8, <1>9, <1>10
(* Waking a suspended thread: READY, or RUNNING again when it was caught on *)
(* its way into rt_schedule.  rt_thread_resume and _thread_timeout agree.   *)
LEMMA ResumeThreadLemma ==
    ASSUME NEW k, KInv(k), NEW t \in Threads, k.stat[t] = "SUSPEND"
    PROVE  LET n == ResumeThread(k, t) IN
           /\ KInv(n)
           /\ n.stat = [k.stat EXCEPT ![t] = IF t = k.current THEN "RUNNING" ELSE "READY"]
           /\ n.prio = k.prio /\ n.current = k.current /\ n.nest = k.nest
           /\ n.yield = k.yield
           /\ rt_schedule_insert_thread(Unlink([k EXCEPT !.timer[t] = FALSE], t), t) = n
  <1> DEFINE n == ResumeThread(k, t)
             S == {s \in Threads : k.stat[s] = "READY"}
             D == {s \in Threads : k.stat[s] = "CLOSE"}
             j == [k EXCEPT !.timer[t] = FALSE]
  <1>1. /\ k \in Kernel /\ k.stat \in [Threads -> Stats] /\ k.timer \in [Threads -> BOOLEAN]
        /\ Queues(k, S, D) /\ S \subseteq Threads /\ t \notin S /\ t \notin D
        /\ k.current \in Threads
    BY DEF KInv, Queues, Kernel
  <1>2. /\ j \in Kernel /\ j.ready = k.ready /\ j.group = k.group /\ j.defunct = k.defunct
        /\ j.prio = k.prio /\ j.stat = k.stat /\ j.current = k.current /\ j.nest = k.nest
        /\ j.timer = [k.timer EXCEPT ![t] = FALSE] /\ j.yield = k.yield
    <2>1. [k.timer EXCEPT ![t] = FALSE] \in [Threads -> BOOLEAN]
      BY <1>1
    <2> QED BY <2>1, <1>1 DEF Kernel
  <1>3. Queues(j, S, D)
    <2> HIDE DEF S, D, j
    <2> QED BY <1>1, <1>2, QueuesFrame
  <1>4. Unlink(k, t) = k /\ Unlink(j, t) = j
    <2> HIDE DEF S, D, j
    <2> QED BY <1>1, <1>3, UnlinkNothing
  <1>5. n = rt_schedule_insert_thread(j, t)
    BY <1>4 DEF ResumeThread
  <1>6. rt_schedule_insert_thread(Unlink(j, t), t) = n
    BY <1>4, <1>5
  <1> HIDE DEF j, n
  <1>7. CASE t = k.current
    <2>1. n = [j EXCEPT !.stat[t] = "RUNNING"]
      BY <1>2, <1>5, <1>7 DEF rt_schedule_insert_thread
    <2>2. [j.stat EXCEPT ![t] = "RUNNING"] \in [Threads -> Stats]
      BY <1>1, <1>2 DEF Stats
    <2>3. /\ n \in Kernel /\ n.ready = j.ready /\ n.group = j.group /\ n.defunct = j.defunct
          /\ n.prio = j.prio /\ n.stat = [k.stat EXCEPT ![t] = "RUNNING"]
          /\ n.current = j.current /\ n.nest = j.nest /\ n.timer = j.timer
          /\ n.yield = j.yield
      BY <1>2, <2>1, <2>2 DEF Kernel
    <2>4. Queues(n, S, D)
      <3> HIDE DEF S, D
      <3> QED BY <1>3, <2>3, QueuesFrame
    <2>5. \A s \in Threads : n.stat[s] = IF s = t THEN "RUNNING" ELSE k.stat[s]
      BY <1>1, <2>3
    <2>6. S = {s \in Threads : n.stat[s] = "READY"} /\ D = {s \in Threads : n.stat[s] = "CLOSE"}
      BY <1>1, <2>5
    <2>7. Queues(n, {s \in Threads : n.stat[s] = "READY"}, {s \in Threads : n.stat[s] = "CLOSE"})
      BY <2>4, <2>6
    <2>8. KInv(n)
      <3>1. \A s \in Threads : n.timer[s] => n.stat[s] = "SUSPEND"
        BY <1>1, <1>2, <2>3, <2>5 DEF KInv
      <3>2. n.stat[Idle] \in {"READY", "RUNNING"}
        BY <2>5, IdleAssumption DEF KInv
      <3>3. n.stat[n.current] = "RUNNING"
        BY <1>2, <1>7, <2>3, <2>5
      <3>4. \A s \in Threads : n.stat[s] = "RUNNING" => s = n.current
        BY <1>2, <1>7, <2>3, <2>5 DEF KInv
      <3> QED BY <2>7, <3>1, <3>2, <3>3, <3>4 DEF KInv
    <2> QED BY <1>2, <1>6, <1>7, <2>3, <2>8 DEF n, j
  <1>8. CASE t # k.current
    <2>1. /\ Queues(n, S \cup {t}, D)
          /\ n.stat = [j.stat EXCEPT ![t] = "READY"]
          /\ n.prio = j.prio /\ n.current = j.current /\ n.nest = j.nest /\ n.timer = j.timer
          /\ n.yield = j.yield
      <3>1. t # j.current /\ t \notin S /\ S \subseteq Threads
        BY <1>1, <1>2, <1>8
      <3> HIDE DEF S, D
      <3> QED BY <1>3, <1>5, <3>1, InsertThreadLemma
    <2>2. \A s \in Threads : n.stat[s] = IF s = t THEN "READY" ELSE k.stat[s]
      BY <1>1, <1>2, <2>1
    <2>3. S \cup {t} = {s \in Threads : n.stat[s] = "READY"}
          /\ D = {s \in Threads : n.stat[s] = "CLOSE"}
      BY <1>1, <2>2
    <2>4. Queues(n, {s \in Threads : n.stat[s] = "READY"}, {s \in Threads : n.stat[s] = "CLOSE"})
      BY <2>1, <2>3
    <2>5. KInv(n)
      <3>1. \A s \in Threads : n.timer[s] => n.stat[s] = "SUSPEND"
        BY <1>1, <1>2, <2>1, <2>2 DEF KInv
      <3>2. n.stat[Idle] \in {"READY", "RUNNING"}
        BY <2>2, IdleAssumption DEF KInv
      <3>3. n.current = k.current /\ n.nest = k.nest /\ n.stat[k.current] = k.stat[k.current]
        BY <1>1, <1>2, <1>8, <2>1, <2>2
      <3>4. \A s \in Threads : n.stat[s] = "RUNNING" => s = n.current
        BY <2>2, <3>3 DEF KInv
      <3>5. n.stat[n.current] \in {"RUNNING", "SUSPEND", "CLOSE"}
            /\ (n.stat[n.current] = "SUSPEND" => n.nest = 0)
        BY <3>3 DEF KInv
      <3> QED BY <2>4, <3>1, <3>2, <3>4, <3>5 DEF KInv
    <2> QED BY <1>2, <1>6, <1>8, <2>1, <2>5 DEF n, j
  <1> QED BY <1>7, <1>8


(* From the lists and the states to KInv. *)
LEMMA KInvIntro ==
    ASSUME NEW k, NEW S, NEW D, Queues(k, S, D),
           S = {t \in Threads : k.stat[t] = "READY"},
           D = {t \in Threads : k.stat[t] = "CLOSE"},
           \A t \in Threads : k.stat[t] = "RUNNING" => t = k.current,
           k.stat[k.current] \in {"RUNNING", "SUSPEND", "CLOSE"},
           k.stat[k.current] = "SUSPEND" => k.nest = 0,
           k.stat[Idle] \in {"READY", "RUNNING"},
           \A t \in Threads : k.timer[t] => k.stat[t] = "SUSPEND"
    PROVE  KInv(k)
  BY DEF KInv

(* A thread that is on no ready queue may change its priority. *)
LEMMA PriorityLemma ==
    ASSUME NEW k, NEW S, NEW D, Queues(k, S, D), S \subseteq Threads,
           NEW x \in Threads, x \notin S, NEW p, NEW j \in Kernel,
           j.ready = k.ready, j.group = k.group, j.defunct = k.defunct,
           j.prio = [k.prio EXCEPT ![x] = p]
    PROVE  Queues(j, S, D)
  <1>1. k.prio \in [Threads -> Priorities]
    BY DEF Queues, Kernel
  <1>2. \A t \in S : j.prio[t] = k.prio[t]
    BY <1>1
  <1>3. /\ \A q \in Priorities : {t \in S : j.prio[t] = q} = {t \in S : k.prio[t] = q}
        /\ \A q \in Priorities : (\E t \in S : j.prio[t] = q) <=> (\E t \in S : k.prio[t] = q)
    BY <1>2
  <1> QED BY <1>3 DEF Queues

(* RT_THREAD_CTRL_CHANGE_PRIORITY changes a priority and nothing else; a      *)
(* READY thread is then on the queue of the new one.                        *)
LEMMA ChangePriorityLemma ==
    ASSUME NEW k, KInv(k), NEW t \in Threads, NEW p \in Priorities
    PROVE  LET n == ChangePriority(k, t, p) IN
           /\ KInv(n) /\ n.stat = k.stat /\ n.prio = [k.prio EXCEPT ![t] = p]
           /\ n.current = k.current /\ n.nest = k.nest /\ n.timer = k.timer
  <1> DEFINE n == ChangePriority(k, t, p)
             S == {s \in Threads : k.stat[s] = "READY"}
             D == {s \in Threads : k.stat[s] = "CLOSE"}
             f == [k.prio EXCEPT ![t] = p]
  <1>1. /\ k \in Kernel /\ k.stat \in [Threads -> Stats] /\ k.prio \in [Threads -> Priorities]
        /\ Queues(k, S, D) /\ S \subseteq Threads /\ f \in [Threads -> Priorities]
    BY DEF KInv, Queues, Kernel
  <1>2. CASE k.stat[t] # "READY"
    <2>1. n = [k EXCEPT !.prio[t] = p]
      BY <1>2 DEF ChangePriority
    <2> HIDE DEF n
    <2>2. /\ n \in Kernel /\ n.ready = k.ready /\ n.group = k.group /\ n.defunct = k.defunct
          /\ n.prio = f /\ n.stat = k.stat /\ n.current = k.current /\ n.nest = k.nest
          /\ n.timer = k.timer
      BY <1>1, <2>1 DEF Kernel
    <2>3. t \notin S
      BY <1>2
    <2>4. Queues(n, S, D)
      <3> HIDE DEF S, D
      <3> QED BY <1>1, <2>2, <2>3, PriorityLemma
    <2>5. KInv(n)
      BY <2>2, <2>4 DEF KInv
    <2> QED BY <2>2, <2>5 DEF n
  <1>3. CASE k.stat[t] = "READY"
    <2> DEFINE u == rt_schedule_remove_thread(k, t)
               v == [u EXCEPT !.prio[t] = p]
    <2>1. n = rt_schedule_insert_thread(v, t)
      BY <1>3 DEF ChangePriority
    <2>2. /\ Queues(u, S \ {t}, D \ {t})
          /\ u.stat = k.stat /\ u.yield = k.yield /\ u.prio = k.prio
          /\ u.current = k.current /\ u.nest = k.nest /\ u.timer = k.timer
      <3> HIDE DEF S, D
      <3> QED BY <1>1, RemoveThreadLemma
    <2> HIDE DEF n, u
    <2>3. /\ v \in Kernel /\ v.ready = u.ready /\ v.group = u.group /\ v.defunct = u.defunct
          /\ v.prio = f /\ v.stat = k.stat /\ v.current = k.current /\ v.nest = k.nest
          /\ v.timer = k.timer
      <3>1. u \in Kernel
        BY <2>2 DEF Queues
      <3> QED BY <1>1, <2>2, <3>1 DEF Kernel
    <2> HIDE DEF v
    <2>4. Queues(v, S \ {t}, D \ {t})
      <3>1. t \notin S \ {t} /\ S \ {t} \subseteq Threads
        BY <1>1
      <3> HIDE DEF S, D
      <3> QED BY <2>2, <2>3, <3>1, PriorityLemma
    <2>5. t # v.current
      BY <1>3, <2>3 DEF KInv
    <2>6. /\ Queues(n, (S \ {t}) \cup {t}, D \ {t}) /\ n.stat = [v.stat EXCEPT ![t] = "READY"]
          /\ n.prio = v.prio /\ n.current = v.current /\ n.nest = v.nest /\ n.timer = v.timer
      <3>1. t \notin S \ {t} /\ S \ {t} \subseteq Threads
        BY <1>1
      <3> HIDE DEF S, D
      <3> QED BY <2>1, <2>4, <2>5, <3>1, InsertThreadLemma
    <2>7. n.stat = k.stat /\ (S \ {t}) \cup {t} = S /\ D \ {t} = D
      BY <1>1, <1>3, <2>3, <2>6
    <2>8. Queues(n, S, D)
      BY <2>6, <2>7
    <2>9. KInv(n)
      <3>1. n.stat = k.stat /\ n.current = k.current /\ n.nest = k.nest /\ n.timer = k.timer
        BY <2>3, <2>6, <2>7
      <3>2. Queues(n, {s \in Threads : n.stat[s] = "READY"}, {s \in Threads : n.stat[s] = "CLOSE"})
        BY <2>8, <3>1
      <3> QED BY <3>1, <3>2 DEF KInv
    <2> QED BY <2>3, <2>6, <2>7, <2>9 DEF n
  <1> QED BY <1>2, <1>3

(* The running thread goes to sleep on the way into rt_schedule. *)
LEMMA SuspendThreadLemma ==
    ASSUME NEW k, KInv(k), k.nest = 0, NEW t \in Threads, t = k.current, t # Idle,
           k.stat[t] = "RUNNING", NEW timed \in BOOLEAN
    PROVE  LET n == SuspendThread(k, t, timed) IN
           /\ KInv(n) /\ n.stat = [k.stat EXCEPT ![t] = "SUSPEND"] /\ n.prio = k.prio
           /\ n.timer = [k.timer EXCEPT ![t] = timed]
           /\ n.current = k.current /\ n.nest = k.nest
  <1> DEFINE n == SuspendThread(k, t, timed)
             S == {s \in Threads : k.stat[s] = "READY"}
             D == {s \in Threads : k.stat[s] = "CLOSE"}
             u == rt_schedule_remove_thread(k, t)
  <1>1. /\ k \in Kernel /\ k.stat \in [Threads -> Stats] /\ k.timer \in [Threads -> BOOLEAN]
        /\ Queues(k, S, D) /\ S \subseteq Threads /\ t \notin S /\ t \notin D
    BY DEF KInv, Queues, Kernel
  <1>2. /\ Queues(u, S \ {t}, D \ {t})
        /\ u.stat = k.stat /\ u.yield = k.yield /\ u.prio = k.prio
        /\ u.current = k.current /\ u.nest = k.nest /\ u.timer = k.timer
    <2> HIDE DEF S, D
    <2> QED BY <1>1, RemoveThreadLemma
  <1>3. n = [u EXCEPT !.stat[t] = "SUSPEND", !.timer[t] = timed]
    BY DEF SuspendThread
  <1> HIDE DEF u, n
  <1>4. S \ {t} = S /\ D \ {t} = D
    BY <1>1
  <1>5. /\ n \in Kernel /\ n.ready = u.ready /\ n.group = u.group /\ n.defunct = u.defunct
        /\ n.prio = u.prio /\ n.current = u.current /\ n.nest = u.nest
        /\ n.stat = [k.stat EXCEPT ![t] = "SUSPEND"] /\ n.timer = [k.timer EXCEPT ![t] = timed]
    <2>1. /\ u \in Kernel /\ [u.stat EXCEPT ![t] = "SUSPEND"] \in [Threads -> Stats]
          /\ [u.timer EXCEPT ![t] = timed] \in [Threads -> BOOLEAN]
      BY <1>1, <1>2 DEF Queues, Stats
    <2> QED BY <1>2, <1>3, <2>1 DEF Kernel
  <1>6. Queues(n, S, D)
    <2>1. Queues(u, S, D)
      BY <1>2, <1>4
    <2> HIDE DEF S, D
    <2> QED BY <1>5, <2>1, QueuesFrame
  <1>7. \A s \in Threads : n.stat[s] = IF s = t THEN "SUSPEND" ELSE k.stat[s]
    BY <1>1, <1>5
  <1>8. S = {s \in Threads : n.stat[s] = "READY"} /\ D = {s \in Threads : n.stat[s] = "CLOSE"}
    BY <1>1, <1>7
  <1>9. /\ \A s \in Threads : n.stat[s] = "RUNNING" => s = n.current
        /\ n.stat[n.current] = "SUSPEND" /\ n.nest = 0
        /\ n.stat[Idle] \in {"READY", "RUNNING"}
        /\ \A s \in Threads : n.timer[s] => n.stat[s] = "SUSPEND"
    BY <1>1, <1>2, <1>5, <1>7, IdleAssumption DEF KInv
  <1>10. KInv(n)
    <2> HIDE DEF S, D
    <2> QED BY <1>6, <1>8, <1>9, KInvIntro DEF S, D
  <1> QED BY <1>2, <1>5, <1>10 DEF n
=============================================================================
