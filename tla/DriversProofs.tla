--------------------------- MODULE DriversProofs ---------------------------
(***************************************************************************)
(* The drivers of MCDrivers for any number of works, submitters, writers,    *)
(* buffers, waiting threads and finishers, any length of the transmit queue  *)
(* and any size of the ring buffer and of the receive FIFO: no accepted work *)
(* is lost, what is written is transmitted in order, what is received        *)
(* reaches the shell, a ring buffer holds the latest that was put, nobody    *)
(* sleeps while a completion stands, and what a wait queue loses is lost     *)
(* where the flag is cleared or a late node spent; and the heap, of any      *)
(* size, stays in order, finds what is free and hands out disjoint blocks.   *)
(***************************************************************************)
EXTENDS MCDrivers, ListProofs, FiniteSetTheorems

-----------------------------------------------------------------------------
(* DMA transmission, its writers holding interrupts disabled *)

(* TransmitsInOrder is not inductive: that a writer starts what is first in *)
(* the queue takes that it is alone between its push and its start, and     *)
(* that the queue was empty before when the DMA was idle.                   *)
TxIInv ==
    /\ data_queue \in Seq(Buffers)
    /\ activated \in BOOLEAN /\ (activated <=> dma # Idle)
    /\ pushed \in [Writers -> Buffers \cup {Idle}]
    /\ TransmitsInOrder
    /\ \A v, w \in Writers : pushed[v] # Idle /\ pushed[w] # Idle => v = w
    /\ \A w \in Writers : pushed[w] # Idle =>
        /\ data_queue # <<>>
        /\ dma = Idle => Head(data_queue) = pushed[w]

LEMMA TxInitLemma == TxInit => TxIInv
  <1> SUFFICES ASSUME TxInit PROVE TxIInv
    OBVIOUS
  <1>1. data_queue = <<>> /\ dma = Idle /\ activated = FALSE /\ <<>> \in Seq(Buffers)
    BY DEF TxInit
  <1>2. /\ pushed \in [Writers -> Buffers \cup {Idle}]
        /\ \A w \in Writers : pushed[w] = Idle
    BY DEF TxInit
  <1>3. TransmitsInOrder
    BY <1>1 DEF TransmitsInOrder, TransmitsHead, QueueIsServed
  <1> QED BY <1>1, <1>2, <1>3 DEF TxIInv

LEMMA TxPushStep ==
    ASSUME WriterMasksIrq, TxIInv, NEW w \in Writers, NEW b \in Buffers, _serial_dma_tx(w, b)
    PROVE  TxIInv'
  <1>1. \A v \in Writers : pushed[v] = Idle
    BY DEF _serial_dma_tx, MayAct
  <1>2. data_queue \in Seq(Buffers) /\ data_queue' = Append(data_queue, b)
    BY DEF _serial_dma_tx, TxIInv
  <1>3. /\ data_queue' \in Seq(Buffers) /\ data_queue' # <<>>
        /\ data_queue # <<>> => Head(data_queue') = Head(data_queue)
        /\ data_queue = <<>> => Head(data_queue') = b
    BY <1>2
  <1>4. dma = Idle => data_queue = <<>>
    BY <1>1 DEF TxIInv, TransmitsInOrder, QueueIsServed
  <1>5. b # Idle
    BY SerialTxAssumption
  <1>6. \A v \in Writers : pushed'[v] = IF v = w THEN b ELSE Idle
    BY <1>1 DEF _serial_dma_tx, TxIInv
  <1>7. pushed' \in [Writers -> Buffers \cup {Idle}] /\ UNCHANGED <<activated, dma>>
    BY DEF _serial_dma_tx, TxIInv
  <1>8. TransmitsInOrder'
    BY <1>3, <1>5, <1>6, <1>7 DEF TxIInv, TransmitsInOrder, TransmitsHead, QueueIsServed
  <1> QED BY <1>3, <1>4, <1>6, <1>7, <1>8 DEF TxIInv

LEMMA TxStartStep ==
    ASSUME TxIInv, NEW w \in Writers, DmaTxStarts(w)
    PROVE  TxIInv'
  <1>1. pushed[w] # Idle /\ Started(pushed[w])
    BY DEF DmaTxStarts
  <1>2. \A v \in Writers : pushed'[v] = Idle
    BY <1>1 DEF TxIInv, DmaTxStarts
  <1>3. pushed' \in [Writers -> Buffers \cup {Idle}] /\ UNCHANGED data_queue
    BY DEF TxIInv, DmaTxStarts
  <1>4. data_queue # <<>> /\ (dma = Idle => Head(data_queue) = pushed[w])
    BY <1>1 DEF TxIInv
  <1>5. dma' # Idle /\ Head(data_queue) = dma' /\ activated' = TRUE
    BY <1>1, <1>4 DEF Started, TxIInv, TransmitsInOrder, TransmitsHead
  <1> QED
    BY <1>2, <1>3, <1>4, <1>5 DEF TxIInv, TransmitsInOrder, TransmitsHead, QueueIsServed

LEMMA TxDoneStep ==
    ASSUME WriterMasksIrq, TxIInv, TxDmaDone
    PROVE  TxIInv'
  <1> DEFINE rest == Tail(data_queue)
  <1>1. \A v \in Writers : pushed[v] = Idle
    BY DEF TxDmaDone, MayAct
  <1>2. data_queue # <<>> /\ data_queue \in Seq(Buffers)
    BY DEF TxDmaDone, TxIInv, TransmitsInOrder, TransmitsHead
  <1>3. /\ data_queue' = rest /\ activated' = (rest # <<>>)
        /\ dma' = IF rest = <<>> THEN Idle ELSE Head(rest)
        /\ UNCHANGED pushed
    BY <1>2 DEF TxDmaDone
  <1>4. rest \in Seq(Buffers) /\ (rest # <<>> => Head(rest) \in Buffers)
    BY <1>2
  <1> HIDE DEF rest
  <1>5. dma' # Idle <=> rest # <<>>
    BY <1>3, <1>4, SerialTxAssumption
  <1> QED
    BY <1>1, <1>3, <1>4, <1>5 DEF TxIInv, TransmitsInOrder, TransmitsHead, QueueIsServed

LEMMA TxNextLemma ==
    WriterMasksIrq /\ TxIInv /\ (TxNext \/ UNCHANGED txVars) => TxIInv'
  <1> SUFFICES ASSUME WriterMasksIrq, TxIInv, TxNext \/ UNCHANGED txVars PROVE TxIInv'
    OBVIOUS
  <1>1. CASE UNCHANGED txVars
    BY <1>1 DEF txVars, TxIInv, TransmitsInOrder, TransmitsHead, QueueIsServed
  <1>2. CASE TxNext
    BY <1>2, TxPushStep, TxStartStep, TxDoneStep DEF TxNext
  <1> QED BY <1>1, <1>2

(* The DMA transmits the first buffer of its queue and never idles with one *)
(* in it, whatever writers and the interrupt at the end of a transfer do -- *)
(* if rt_device_write is called with interrupts disabled.                   *)
THEOREM TransmissionInOrder == WriterMasksIrq => (Spec => []TransmitsInOrder)
  <1> SUFFICES ASSUME WriterMasksIrq PROVE Spec => []TransmitsInOrder
    OBVIOUS
  <1>1. Init => TxIInv
    BY TxInitLemma DEF Init
  <1>2. TxIInv /\ [Next]_vars => TxIInv'
    <2>1. [Next]_vars => TxNext \/ UNCHANGED txVars
      BY DEF Next, vars
    <2> QED BY <2>1, TxNextLemma
  <1>3. TxIInv => TransmitsInOrder
    BY DEF TxIInv
  <1> QED BY <1>1, <1>2, <1>3, PTL DEF Spec

-----------------------------------------------------------------------------
(* A completion *)

(* That a thread which was woken finds the flag set takes that it is the    *)
(* only one inside rt_completion_wait, and that nobody is on the list with  *)
(* the flag set.                                                           *)
CompletionIInv ==
    /\ completed \in BOOLEAN /\ oneSleeper \in BOOLEAN
    /\ sleeper \in [Sleepers -> {"run", "suspended", "suspendedTimed", "woken", "late"}]
    /\ suspended_list = <<>> \/ \E t \in Sleepers : suspended_list = <<t>>
    /\ oneSleeper => \A t, u \in Sleepers : sleeper[t] # "run" /\ sleeper[u] # "run" => t = u
    /\ CompletionIsSeen

LEMMA CompletionInitLemma == CompletionInit => CompletionIInv
  <1> SUFFICES ASSUME CompletionInit PROVE CompletionIInv
    OBVIOUS
  <1>1. completed = FALSE /\ suspended_list = <<>> /\ oneSleeper \in BOOLEAN
    BY DEF CompletionInit
  <1>2. /\ sleeper \in [Sleepers -> {"run", "suspended", "suspendedTimed", "woken", "late"}]
        /\ \A t \in Sleepers : sleeper[t] = "run" /\ suspended_list # <<t>>
    BY <1>1 DEF CompletionInit
  <1> QED BY <1>1, <1>2 DEF CompletionIInv, CompletionIsSeen

(* Nobody is suspended when a thread suspends itself; a thread alone finds   *)
(* everybody else out.                                                      *)
LEMMA WaitStep ==
    ASSUME CompletionIInv, UNCHANGED oneSleeper, NEW t \in Sleepers,
           NEW suspended \in {"suspended", "suspendedTimed"},
           rt_completion_wait(t, suspended) \/ WaitFinds(t)
    PROVE  CompletionIInv'
  <1>1. oneSleeper => \A u \in Sleepers : sleeper[u] = "run"
    BY DEF rt_completion_wait, WaitFinds
  <1>2. CASE rt_completion_wait(t, suspended)
    <2>1. /\ completed' = FALSE /\ suspended_list = <<>> /\ suspended_list' = <<t>>
          /\ \A u \in Sleepers : sleeper'[u] = IF u = t THEN suspended ELSE sleeper[u]
      BY <1>2 DEF rt_completion_wait, CompletionIInv
    <2>2. sleeper' \in [Sleepers -> {"run", "suspended", "suspendedTimed", "woken", "late"}]
      BY <1>2 DEF rt_completion_wait, CompletionIInv
    <2>3. \A u \in Sleepers : suspended_list' = <<u>> <=> u = t
      BY <2>1
    <2>4. \A u \in Sleepers : sleeper[u] \notin {"suspended", "suspendedTimed"}
      BY <2>1 DEF CompletionIInv, CompletionIsSeen
    <2>5. CompletionIsSeen'
      BY <1>1, <2>1, <2>3, <2>4 DEF CompletionIsSeen
    <2>6. oneSleeper' => \A v, u \in Sleepers : sleeper'[v] # "run" /\ sleeper'[u] # "run" => v = u
      BY <1>1, <2>1
    <2> QED BY <2>1, <2>2, <2>5, <2>6 DEF CompletionIInv
  <1>3. CASE WaitFinds(t)
    BY <1>1, <1>3 DEF WaitFinds, CompletionIInv, CompletionIsSeen
  <1> QED BY <1>2, <1>3

LEMMA TimeoutStep ==
    ASSUME CompletionIInv, UNCHANGED oneSleeper, NEW t \in Sleepers, CompletionTimeout(t)
    PROVE  CompletionIInv'
  <1>1. /\ suspended_list' = <<>> /\ UNCHANGED completed /\ suspended_list = <<t>>
        /\ sleeper' = [sleeper EXCEPT ![t] = "late"] /\ sleeper[t] = "suspendedTimed"
    BY DEF CompletionTimeout, CompletionIInv, CompletionIsSeen
  <1>2. \A u \in Sleepers : sleeper'[u] = IF u = t THEN "late" ELSE sleeper[u]
    BY <1>1 DEF CompletionIInv
  <1>3. sleeper' \in [Sleepers -> {"run", "suspended", "suspendedTimed", "woken", "late"}]
    BY <1>1 DEF CompletionIInv
  <1>4. \A u \in Sleepers : suspended_list' # <<u>>
    BY <1>1
  <1>5. \A u \in Sleepers : u # t => sleeper[u] \notin {"suspended", "suspendedTimed"}
    BY <1>1 DEF CompletionIInv, CompletionIsSeen
  <1>6. CompletionIsSeen'
    BY <1>1, <1>2, <1>4, <1>5 DEF CompletionIsSeen, CompletionIInv
  <1> QED BY <1>1, <1>2, <1>3, <1>6 DEF CompletionIInv

LEMMA ReturnStep ==
    ASSUME CompletionIInv, UNCHANGED oneSleeper, NEW t \in Sleepers, WaitReturns(t)
    PROVE  CompletionIInv'
  <1>1. /\ completed' = FALSE /\ UNCHANGED suspended_list
        /\ sleeper' = [sleeper EXCEPT ![t] = "run"] /\ sleeper[t] \in {"woken", "late"}
    BY DEF WaitReturns
  <1>2. \A u \in Sleepers : sleeper'[u] = IF u = t THEN "run" ELSE sleeper[u]
    BY <1>1 DEF CompletionIInv
  <1>3. sleeper' \in [Sleepers -> {"run", "suspended", "suspendedTimed", "woken", "late"}]
    BY <1>1 DEF CompletionIInv
  <1>4. CompletionIsSeen'
    BY <1>1, <1>2 DEF CompletionIInv, CompletionIsSeen
  <1> QED BY <1>1, <1>2, <1>3, <1>4 DEF CompletionIInv

LEMMA DoneStep ==
    ASSUME CompletionIInv, UNCHANGED oneSleeper, NEW f \in Finishers, rt_completion_done(f)
    PROVE  CompletionIInv'
  <1>1. /\ completed' = TRUE /\ suspended_list' = <<>>
        /\ sleeper' = [t \in Sleepers |-> IF suspended_list = <<t>> THEN "woken" ELSE sleeper[t]]
    BY DEF rt_completion_done
  <1>2. \A t \in Sleepers :
            sleeper'[t] \notin {"suspended", "suspendedTimed"} /\ suspended_list' # <<t>>
    BY <1>1 DEF CompletionIInv, CompletionIsSeen
  <1>3. \A t \in Sleepers : sleeper'[t] # "run" => sleeper[t] # "run"
    BY <1>1 DEF CompletionIInv, CompletionIsSeen
  <1>4. sleeper' \in [Sleepers -> {"run", "suspended", "suspendedTimed", "woken", "late"}]
    BY <1>1 DEF CompletionIInv
  <1> QED BY <1>1, <1>2, <1>3, <1>4 DEF CompletionIInv, CompletionIsSeen

LEMMA CompletionNextLemma ==
    CompletionIInv /\ (CompletionNext \/ UNCHANGED completionVars) => CompletionIInv'
  <1> SUFFICES ASSUME CompletionIInv, CompletionNext \/ UNCHANGED completionVars
               PROVE  CompletionIInv'
    OBVIOUS
  <1>1. CASE UNCHANGED completionVars
    BY <1>1 DEF completionVars, CompletionIInv, CompletionIsSeen
  <1>2. ASSUME NEW f \in Finishers, DoneTests(f), UNCHANGED oneSleeper PROVE CompletionIInv'
    BY <1>2 DEF DoneTests, CompletionIInv, CompletionIsSeen
  <1>3. CASE CompletionNext
    BY <1>2, <1>3, WaitStep, TimeoutStep, ReturnStep, DoneStep DEF CompletionNext
  <1> QED BY <1>1, <1>3

(* Nobody is suspended while a completion stands, whatever the tests of      *)
(* rt_completion_done outside of its region find; and with one thread at     *)
(* most in rt_completion_wait, the completion a thread was woken for still   *)
(* stands when it gets to run.                                              *)
THEOREM CompletionSeen == Spec => []CompletionIsSeen
  <1>1. Init => CompletionIInv
    BY CompletionInitLemma DEF Init
  <1>2. CompletionIInv /\ [Next]_vars => CompletionIInv'
    <2>1. [Next]_vars => CompletionNext \/ UNCHANGED completionVars
      BY DEF Next, vars
    <2> QED BY <2>1, CompletionNextLemma
  <1>3. CompletionIInv => CompletionIsSeen
    BY DEF CompletionIInv
  <1> QED BY <1>1, <1>2, <1>3, PTL DEF Spec

-----------------------------------------------------------------------------
(* The wait queue *)

(* Every suspended thread has its node on the list, and a node there is that *)
(* of a suspended thread or of one whose timeout has come. *)
WaitqShape ==
    /\ wakeup \in BOOLEAN /\ alone \in BOOLEAN /\ lost \in BOOLEAN
    /\ there \in Nat /\ waking \in Nat
    /\ poller \in [Pollers -> PollerPCs]
    /\ waiting_list \in Seq(Pollers) /\ NoDup(waiting_list)
    /\ \A t \in Pollers : poller[t] \in Suspended => t \in Linked(waiting_list)
    /\ \A t \in Linked(waiting_list) : poller[t] \in Suspended \cup {"late", "lateRemove"}

(* Unless a wake-up was lost, what is there is accounted for by threads that *)
(* will look and wake-ups to come, or the flag stands and nobody sleeps. *)
Accounted == Unanswered => lost \/ (wakeup /\ \A t \in Pollers : poller[t] \notin Suspended)

(* A thread alone that has looked finds the flag, or all that is there came  *)
(* after its look and has its wake-up to come. *)
AloneAccounted ==
    alone =>
        /\ \A t, u \in Pollers : t # u => poller[t] = "run" \/ poller[u] = "run"
        /\ \A t \in Pollers : poller[t] = "looked" => there <= waking \/ wakeup
        /\ \A t \in Pollers : poller[t] \in Suspended => there <= waking

WaitqIInv == WaitqShape /\ Accounted /\ AloneAccounted

LEMMA CountLemma ==
    ASSUME NEW S, S \subseteq Pollers, NEW T, T \subseteq Pollers, NEW t
    PROVE  /\ Cardinality(S) \in Nat
           /\ S \subseteq T => Cardinality(S) <= Cardinality(T)
           /\ S \subseteq T \cup {t} => Cardinality(S) <= Cardinality(T) + 1
           /\ T = S \cup {t} /\ t \notin S => Cardinality(T) = Cardinality(S) + 1
           /\ S = {} => Cardinality(S) = 0
  <1>1. IsFiniteSet(S) /\ IsFiniteSet(T)
    BY FS_Subset, PollersAssumption
  <1>2. Cardinality(S) \in Nat /\ Cardinality(T) \in Nat
    BY <1>1, FS_CardinalityType
  <1>3. S \subseteq T => Cardinality(S) <= Cardinality(T)
    BY <1>1, FS_Subset
  <1>4. S \subseteq T \cup {t} => Cardinality(S) <= Cardinality(T) + 1
    <2>1. /\ IsFiniteSet(T \cup {t})
          /\ Cardinality(T \cup {t}) = IF t \in T THEN Cardinality(T) ELSE Cardinality(T) + 1
      BY <1>1, FS_AddElement
    <2>2. S \subseteq T \cup {t} => Cardinality(S) <= Cardinality(T \cup {t})
      BY <2>1, FS_Subset
    <2>3. Cardinality(T \cup {t}) \in Nat
      BY <2>1, FS_CardinalityType
    <2> QED BY <1>2, <2>1, <2>2, <2>3
  <1>5. T = S \cup {t} /\ t \notin S => Cardinality(T) = Cardinality(S) + 1
    BY <1>1, FS_AddElement
  <1>6. S = {} => Cardinality(S) = 0
    BY FS_EmptySet
  <1> QED BY <1>2, <1>3, <1>4, <1>5, <1>6

LEMMA OnTheWayLemma ==
    /\ OnTheWay \subseteq Pollers /\ OnTheWay' \subseteq Pollers
    /\ Cardinality(OnTheWay) \in Nat /\ Cardinality(OnTheWay') \in Nat
    /\ OnTheWay \subseteq OnTheWay' => Cardinality(OnTheWay) <= Cardinality(OnTheWay')
    /\ \A t : OnTheWay \subseteq OnTheWay' \cup {t}
                => Cardinality(OnTheWay) <= Cardinality(OnTheWay') + 1
    /\ \A t : OnTheWay' = OnTheWay \cup {t} /\ t \notin OnTheWay
                => Cardinality(OnTheWay') = Cardinality(OnTheWay) + 1
  <1>1. OnTheWay \subseteq Pollers /\ OnTheWay' \subseteq Pollers
    BY DEF OnTheWay
  <1> HIDE DEF OnTheWay
  <1>2. Cardinality(OnTheWay) \in Nat /\ Cardinality(OnTheWay') \in Nat
    BY <1>1, CountLemma
  <1>3. OnTheWay \subseteq OnTheWay' => Cardinality(OnTheWay) <= Cardinality(OnTheWay')
    BY <1>1, CountLemma
  <1>4. ASSUME NEW t
        PROVE  /\ OnTheWay \subseteq OnTheWay' \cup {t}
                    => Cardinality(OnTheWay) <= Cardinality(OnTheWay') + 1
               /\ OnTheWay' = OnTheWay \cup {t} /\ t \notin OnTheWay
                    => Cardinality(OnTheWay') = Cardinality(OnTheWay) + 1
    BY <1>1, CountLemma
  <1> QED BY <1>1, <1>2, <1>3, <1>4

LEMMA WaitqImplies == WaitqIInv => WakeupReachesPoller
  <1> SUFFICES ASSUME WaitqIInv, there > 0, waking = 0,
                      NEW t \in Pollers, poller[t] \in Suspended
               PROVE  OnTheWay # {} \/ (lost /\ ~alone)
    BY DEF WakeupReachesPoller
  <1>1. ~alone
    BY DEF WaitqIInv, WaitqShape, AloneAccounted
  <1>2. CASE lost
    BY <1>1, <1>2
  <1>3. CASE ~Unanswered
    <2>1. Cardinality(OnTheWay) # 0
      BY <1>3, OnTheWayLemma DEF Unanswered, WaitqIInv, WaitqShape
    <2> QED BY <2>1, FS_EmptySet
  <1> QED BY <1>2, <1>3 DEF WaitqIInv, Accounted

LEMMA WaitqInitLemma == WaitqInit => WaitqIInv
  <1> SUFFICES ASSUME WaitqInit PROVE WaitqIInv
    OBVIOUS
  <1>1. /\ wakeup = FALSE /\ there = 0 /\ waking = 0 /\ lost = FALSE /\ alone \in BOOLEAN
        /\ waiting_list = <<>> /\ Linked(<<>>) = {} /\ NoDup(<<>>) /\ <<>> \in Seq(Pollers)
    BY DEF WaitqInit, Linked, NoDup
  <1>2. poller \in [Pollers -> PollerPCs] /\ \A t \in Pollers : poller[t] = "run"
    BY DEF WaitqInit, PollerPCs
  <1>3. ~Unanswered
    BY <1>1, OnTheWayLemma DEF Unanswered
  <1> QED
    BY <1>1, <1>2, <1>3
    DEF WaitqIInv, WaitqShape, Accounted, AloneAccounted, Suspended

(* One thread on the way less looks and takes one thing or more. *)
LEMMA LooksStep ==
    ASSUME WaitqIInv, NEW t \in Pollers, PollerLooks(t), UNCHANGED alone
    PROVE  WaitqIInv'
  <1>1. /\ UNCHANGED <<wakeup, waiting_list, waking, alone>>
        /\ poller[t] \in {"run", "again"} /\ poller'[t] \in {"run", "looked"}
        /\ \A u \in Pollers : u # t => poller'[u] = poller[u]
        /\ poller' \in [Pollers -> PollerPCs] /\ t \notin Linked(waiting_list)
    BY DEF WaitqIInv, WaitqShape, PollerLooks, PollerPCs, Suspended
  <1>2. /\ there' \in Nat /\ (there' = 0 \/ there' + 1 <= there)
        /\ poller'[t] = "looked" => there' = 0
    BY DEF WaitqIInv, WaitqShape, PollerLooks
  <1>3. lost' \in BOOLEAN /\ (there' > 0 /\ lost => lost')
    BY DEF WaitqIInv, WaitqShape, PollerLooks
  <1>4. Linked(waiting_list) \subseteq Pollers
    BY EmptyLemma DEF WaitqIInv, WaitqShape
  <1>5. WaitqShape'
    BY <1>1, <1>2, <1>3, <1>4 DEF WaitqIInv, WaitqShape, Suspended
  <1>6. Accounted'
    <2>1. CASE there' = 0
      BY <1>5, <2>1, OnTheWayLemma DEF Accounted, Unanswered, WaitqShape
    <2>2. CASE there' # 0
      <3>1. there' + 1 <= there /\ there' > 0
        BY <1>2, <2>2
      <3>2. Cardinality(OnTheWay) <= Cardinality(OnTheWay') + 1
        <4>1. OnTheWay \subseteq OnTheWay' \cup {t}
          BY <1>1 DEF OnTheWay
        <4> QED BY <4>1, OnTheWayLemma
      <3>3. /\ Cardinality(OnTheWay) \in Nat /\ Cardinality(OnTheWay') \in Nat
            /\ there \in Nat /\ there' \in Nat /\ waking \in Nat /\ waking' = waking
        BY <1>1, <1>2, OnTheWayLemma DEF WaitqIInv, WaitqShape
      <3>4. there' > waking' + Cardinality(OnTheWay') => there > waking + Cardinality(OnTheWay)
        <4>1. \A h, g, n, o, p \in Nat : g + 1 <= h /\ o <= p + 1 /\ g > n + p => h > n + o
          OBVIOUS
        <4> QED BY <3>1, <3>2, <3>3, <4>1
      <3>5. Unanswered' => Unanswered
        BY <3>4 DEF Unanswered
      <3> QED BY <1>1, <1>3, <3>1, <3>5 DEF WaitqIInv, Accounted, Suspended
    <2> QED BY <2>1, <2>2
  <1>7. AloneAccounted'
    <2> SUFFICES ASSUME alone PROVE AloneAccounted'
      BY <1>1 DEF AloneAccounted
    <2>1. \A u \in Pollers : u # t => poller'[u] = "run"
      BY <1>1 DEF PollerLooks
    <2> QED
      BY <1>1, <1>2, <2>1 DEF AloneAccounted, Suspended, WaitqIInv, WaitqShape
  <1> QED BY <1>5, <1>6, <1>7 DEF WaitqIInv

LEMMA PutStep ==
    ASSUME WaitqIInv, PutsThere, UNCHANGED alone
    PROVE  WaitqIInv'
  <1>1. /\ UNCHANGED <<wakeup, waiting_list, poller, lost, alone>>
        /\ there' = there + 1 /\ waking' = waking + 1 /\ there' \in Nat /\ waking' \in Nat
    BY DEF PutsThere, WaitqIInv, WaitqShape
  <1>2. OnTheWay' = OnTheWay
    BY <1>1 DEF OnTheWay
  <1>3. Unanswered' => Unanswered
    BY <1>1, <1>2, OnTheWayLemma DEF Unanswered, WaitqIInv, WaitqShape
  <1>4. WaitqShape' /\ AloneAccounted'
    BY <1>1 DEF WaitqIInv, WaitqShape, AloneAccounted
  <1> QED BY <1>1, <1>3, <1>4 DEF WaitqIInv, Accounted

LEMMA PollerWaitsStep ==
    ASSUME WaitqIInv, NEW t \in Pollers, NEW suspended \in Suspended,
           rt_wqueue_wait(t, suspended), UNCHANGED alone
    PROVE  WaitqIInv'
  <1>1. /\ poller[t] = "looked" /\ UNCHANGED <<there, waking, alone>>
        /\ t \notin Linked(waiting_list) /\ Linked(waiting_list) \subseteq Pollers
        /\ suspended \in PollerPCs /\ suspended # "run" /\ suspended # "looked"
    BY EmptyLemma DEF WaitqIInv, WaitqShape, rt_wqueue_wait, Suspended, PollerPCs
  <1>2. alone => \A u \in Pollers : u # t => poller[u] = "run"
    BY <1>1 DEF WaitqIInv, AloneAccounted
  <1>3. CASE wakeup
    <2>1. /\ wakeup' = FALSE /\ UNCHANGED waiting_list /\ lost' = (lost \/ Unanswered')
          /\ poller' = [poller EXCEPT ![t] = "again"]
      BY <1>3 DEF rt_wqueue_wait
    <2>2. WaitqShape'
      BY <1>1, <2>1 DEF WaitqIInv, WaitqShape, PollerPCs, Suspended, Unanswered
    <2>3. AloneAccounted'
      BY <1>1, <1>2, <2>1 DEF WaitqIInv, WaitqShape, AloneAccounted, Suspended
    <2> QED BY <2>1, <2>2, <2>3 DEF WaitqIInv, Accounted
  <1>4. CASE ~wakeup
    <2>1. /\ UNCHANGED <<wakeup, lost>>
          /\ waiting_list' = rt_list_insert_before(waiting_list, t)
          /\ poller' = [poller EXCEPT ![t] = suspended]
      BY <1>4 DEF rt_wqueue_wait, rt_list_insert_before
    <2>2. /\ waiting_list' \in Seq(Pollers) /\ NoDup(waiting_list')
          /\ Linked(waiting_list') = Linked(waiting_list) \cup {t}
      BY <1>1, <2>1, InsertBeforeLemma DEF WaitqIInv, WaitqShape
    <2>3. WaitqShape'
      BY <1>1, <2>1, <2>2 DEF WaitqIInv, WaitqShape
    <2>4. AloneAccounted'
      BY <1>1, <1>2, <1>4, <2>1 DEF WaitqIInv, WaitqShape, AloneAccounted, Suspended
    <2>5. Unanswered' => Unanswered
      <3>1. OnTheWay \subseteq OnTheWay'
        BY <1>1, <2>1 DEF OnTheWay, WaitqIInv, WaitqShape
      <3> QED
        BY <1>1, <3>1, OnTheWayLemma DEF Unanswered, WaitqIInv, WaitqShape
    <2> QED BY <1>4, <2>1, <2>3, <2>4, <2>5 DEF WaitqIInv, Accounted
  <1> QED BY <1>3, <1>4

LEMMA PollerTimeoutStep ==
    ASSUME WaitqIInv, NEW t \in Pollers, WaitqTimeout(t), UNCHANGED alone
    PROVE  WaitqIInv'
  <1>1. /\ UNCHANGED <<wakeup, waiting_list, there, waking, alone, lost>>
        /\ poller' = [poller EXCEPT ![t] = "late"] /\ poller[t] = "waitTimed"
    BY DEF WaitqTimeout
  <1>2. Linked(waiting_list) \subseteq Pollers
    BY EmptyLemma DEF WaitqIInv, WaitqShape
  <1>3. WaitqShape'
    BY <1>1, <1>2 DEF WaitqIInv, WaitqShape, PollerPCs, Suspended
  <1>4. AloneAccounted'
    BY <1>1 DEF WaitqIInv, WaitqShape, AloneAccounted, Suspended
  <1>5. Unanswered' => Unanswered
    <2>1. OnTheWay \subseteq OnTheWay'
      BY <1>1 DEF OnTheWay, WaitqIInv, WaitqShape
    <2> QED BY <1>1, <2>1, OnTheWayLemma DEF Unanswered, WaitqIInv, WaitqShape
  <1> QED
    BY <1>1, <1>3, <1>4, <1>5 DEF WaitqIInv, WaitqShape, Accounted, Suspended

(* The flag that is cleared was to be heeded by nobody, or it is lost. *)
LEMMA ResumesStep ==
    ASSUME WaitqIInv, NEW t \in Pollers, WaitResumes(t), UNCHANGED alone
    PROVE  WaitqIInv'
  <1>1. /\ UNCHANGED <<waiting_list, there, waking, alone>> /\ wakeup' = FALSE
        /\ poller[t] \in {"awake", "late"}
        /\ poller' = [poller EXCEPT ![t] = IF @ = "awake" THEN "remove" ELSE "lateRemove"]
        /\ lost' = (lost \/ (wakeup /\ Unanswered'))
    BY DEF WaitResumes
  <1>2. Linked(waiting_list) \subseteq Pollers
    BY EmptyLemma DEF WaitqIInv, WaitqShape
  <1>3. WaitqShape'
    BY <1>1, <1>2 DEF WaitqIInv, WaitqShape, PollerPCs, Suspended, Unanswered
  <1>4. AloneAccounted'
    <2> SUFFICES ASSUME alone PROVE AloneAccounted'
      BY <1>1 DEF AloneAccounted
    <2>1. \A u \in Pollers : u # t => poller[u] = "run"
      BY <1>1 DEF WaitqIInv, AloneAccounted
    <2> QED BY <1>1, <2>1 DEF WaitqIInv, WaitqShape, AloneAccounted, Suspended
  <1>5. Unanswered' => Unanswered
    <2>1. OnTheWay \subseteq OnTheWay'
      BY <1>1 DEF OnTheWay, WaitqIInv, WaitqShape
    <2> QED BY <1>1, <2>1, OnTheWayLemma DEF Unanswered, WaitqIInv, WaitqShape
  <1> QED BY <1>1, <1>3, <1>4, <1>5 DEF WaitqIInv, Accounted

LEMMA RemovesStep ==
    ASSUME WaitqIInv, NEW t \in Pollers, WaitRemoves(t), UNCHANGED alone
    PROVE  WaitqIInv'
  <1>1. /\ UNCHANGED <<wakeup, there, waking, alone, lost>>
        /\ poller[t] \in {"remove", "lateRemove"}
        /\ waiting_list' = rt_list_remove(waiting_list, t)
        /\ poller' = [poller EXCEPT ![t] = IF @ = "remove" THEN "again" ELSE "run"]
    BY DEF WaitRemoves
  <1>2. /\ waiting_list' \in Seq(Pollers) /\ NoDup(waiting_list')
        /\ Linked(waiting_list') = Linked(waiting_list) \ {t}
    BY <1>1, RemoveLemma DEF WaitqIInv, WaitqShape
  <1>3. Linked(waiting_list) \subseteq Pollers
    BY EmptyLemma DEF WaitqIInv, WaitqShape
  <1>4. WaitqShape'
    BY <1>1, <1>2, <1>3 DEF WaitqIInv, WaitqShape, PollerPCs, Suspended
  <1>5. AloneAccounted'
    BY <1>1 DEF WaitqIInv, WaitqShape, AloneAccounted, Suspended
  <1>6. Unanswered' => Unanswered
    <2>1. OnTheWay \subseteq OnTheWay'
      BY <1>1 DEF OnTheWay, WaitqIInv, WaitqShape
    <2> QED BY <1>1, <2>1, OnTheWayLemma DEF Unanswered, WaitqIInv, WaitqShape
  <1> QED
    BY <1>1, <1>4, <1>5, <1>6 DEF WaitqIInv, WaitqShape, Accounted, Suspended

(* The first node is that of a suspended thread, which is on the way then,   *)
(* or the wake-up may be lost; with no node there is nobody suspended.      *)
LEMMA WakeupStep ==
    ASSUME WaitqIInv, rt_wqueue_wakeup, UNCHANGED alone
    PROVE  WaitqIInv'
  <1>1. /\ wakeup' = TRUE /\ waking' = waking - 1 /\ waking' \in Nat
        /\ UNCHANGED <<there, alone>>
    BY DEF rt_wqueue_wakeup, WaitqIInv, WaitqShape
  <1>2. CASE waiting_list = <<>>
    <2>1. UNCHANGED <<waiting_list, poller, lost>>
      BY <1>2 DEF rt_wqueue_wakeup
    <2>2. \A t \in Pollers : poller[t] \notin Suspended
      BY <1>2, EmptyLemma DEF WaitqIInv, WaitqShape
    <2>3. WaitqShape'
      BY <1>1, <2>1 DEF WaitqIInv, WaitqShape
    <2>4. Accounted' /\ AloneAccounted'
      BY <1>1, <2>1, <2>2 DEF WaitqIInv, Accounted, AloneAccounted
    <2> QED BY <2>3, <2>4 DEF WaitqIInv
  <1>3. CASE waiting_list # <<>>
    <2> DEFINE t == Head(waiting_list)
    <2>1. /\ waiting_list' = Tail(waiting_list)
          /\ IF poller[t] \in Suspended
             THEN poller' = [poller EXCEPT ![t] = "awake"] /\ UNCHANGED lost
             ELSE UNCHANGED poller /\ lost' = (lost \/ Unanswered')
      BY <1>3 DEF rt_wqueue_wakeup
    <2>2. /\ t \in Pollers /\ Linked(waiting_list) \subseteq Pollers
          /\ t \in Linked(waiting_list)
          /\ waiting_list' \in Seq(Pollers) /\ NoDup(waiting_list')
          /\ Linked(waiting_list') = Linked(waiting_list) \ {t}
      BY <1>3, <2>1, EmptyLemma, TailLemma DEF WaitqIInv, WaitqShape
    <2> HIDE DEF t
    <2>3. alone => \A u \in Pollers : u # t => poller[u] = "run"
      BY <2>2 DEF WaitqIInv, WaitqShape, AloneAccounted, Suspended
    <2>4. CASE poller[t] \in Suspended
      <3>1. poller' = [poller EXCEPT ![t] = "awake"] /\ UNCHANGED lost
        BY <2>1, <2>4
      <3>2. WaitqShape'
        BY <1>1, <2>2, <3>1 DEF WaitqIInv, WaitqShape, PollerPCs, Suspended
      <3>3. Unanswered' => Unanswered
        <4>1. OnTheWay' = OnTheWay \cup {t} /\ t \notin OnTheWay
          BY <2>2, <2>4, <3>1 DEF OnTheWay, WaitqIInv, WaitqShape, Suspended
        <4> QED
          BY <1>1, <4>1, OnTheWayLemma DEF Unanswered, WaitqIInv, WaitqShape
      <3>4. AloneAccounted'
        BY <1>1, <2>2, <2>3, <3>1 DEF WaitqIInv, WaitqShape, AloneAccounted, Suspended
      <3> QED BY <2>2, <2>4, <3>1, <3>2, <3>3, <3>4 DEF WaitqIInv, Accounted
    <2>5. CASE poller[t] \notin Suspended
      <3>1. UNCHANGED poller /\ lost' = (lost \/ Unanswered')
        BY <2>1, <2>5
      <3>2. WaitqShape'
        BY <1>1, <2>2, <2>5, <3>1 DEF WaitqIInv, WaitqShape, Unanswered
      <3>3. AloneAccounted'
        BY <1>1, <2>2, <2>3, <2>5, <3>1 DEF WaitqIInv, WaitqShape, AloneAccounted, Suspended
      <3> QED BY <3>1, <3>2, <3>3 DEF WaitqIInv, Accounted
    <2> QED BY <2>4, <2>5
  <1> QED BY <1>2, <1>3

LEMMA WaitqNextLemma == WaitqIInv /\ (WaitqNext \/ UNCHANGED waitqVars) => WaitqIInv'
  <1> SUFFICES ASSUME WaitqIInv, WaitqNext \/ UNCHANGED waitqVars PROVE WaitqIInv'
    OBVIOUS
  <1>1. CASE UNCHANGED waitqVars
    BY <1>1 DEF waitqVars, WaitqIInv, WaitqShape, Accounted, AloneAccounted, Unanswered,
                OnTheWay
  <1>2. CASE WaitqNext
    BY <1>2, LooksStep, PutStep, PollerWaitsStep, PollerTimeoutStep, ResumesStep,
       RemovesStep, WakeupStep DEF WaitqNext
  <1> QED BY <1>1, <1>2

(* While something is there nobody stays suspended in rt_wqueue_wait unless  *)
(* somebody is on the way who will look, or -- with several threads only --  *)
(* a wake-up was lost on a thread it was not meant for: for any number of    *)
(* pollers.                                                                *)
THEOREM WakeupArrives == Spec => []WakeupReachesPoller
  <1>1. Init => WaitqIInv
    BY WaitqInitLemma DEF Init
  <1>2. WaitqIInv /\ [Next]_vars => WaitqIInv'
    <2>1. [Next]_vars => WaitqNext \/ UNCHANGED waitqVars
      BY DEF Next, vars
    <2> QED BY <2>1, WaitqNextLemma
  <1>3. WaitqIInv => WakeupReachesPoller
    BY WaitqImplies
  <1> QED BY <1>1, <1>2, <1>3, PTL DEF Spec

-----------------------------------------------------------------------------
(* The work queue *)

Held(w) ==
    \/ w \in Linked(work_list)
    \/ /\ w \in delayed_list /\ work[w].queue
       /\ \/ work[w].timer = "active"
          \/ work[w].timer = "stopped" /\ BeingStarted(w)
    \/ w \in dropped

(* A worker that sleeps executes nothing, so that every submission that      *)
(* links a work sees to it that the worker is awake.                        *)
WqShape ==
    /\ work_list \in Seq(Works) /\ NoDup(work_list)
    /\ delayed_list \subseteq Works /\ Linked(work_list) \cap delayed_list = {}
    /\ work \in [Works -> Item] /\ worker \in PCs
    /\ worker \in {"test", "asleep"} => work_current = Nothing
    /\ worker = "asleep" => work_list = <<>>
    /\ starting \in [Callers -> Works \cup {Nothing}]
    /\ accepted \subseteq Works

WqIInv == WqShape /\ \A w \in accepted : Held(w)

(* A work that did not clash is about to be started by one caller, and its   *)
(* timer is still as that one left it.                                      *)
StoppedOnce ==
    \A w \in Works \ clash : \A c, d \in Callers :
        starting[c] = w /\ starting[d] = w => c = d /\ work[w].timer = "stopped"

LEMMA WqImpliesHeld == WqIInv /\ StoppedOnce => AcceptedIsHeld
  <1> SUFFICES ASSUME WqIInv, StoppedOnce PROVE AcceptedIsHeld
    OBVIOUS
  <1>1. \A w \in Works : BeingStarted(w) /\ work[w].timer = "none" => w \in clash
    BY DEF StoppedOnce, BeingStarted
  <1> QED BY <1>1 DEF WqIInv, WqShape, AcceptedIsHeld, Held

LEMMA WqInitLemma == WqInit => WqIInv
  <1> SUFFICES ASSUME WqInit PROVE WqIInv
    OBVIOUS
  <1>1. work_list = <<>> /\ <<>> \in Seq(Works) /\ NoDup(<<>>) /\ Linked(<<>>) = {}
    BY DEF WqInit, NoDup, Linked
  <1>2. work \in [Works -> Item] /\ starting \in [Callers -> Works \cup {Nothing}]
    BY DEF WqInit, Item
  <1> QED BY <1>1, <1>2 DEF WqInit, WqIInv, WqShape, PCs

(* Off the list, whichever it was on. *)
LEMMA UnlinkedLemma ==
    ASSUME WqShape, NEW w \in Works
    PROVE  /\ Unlinked(w) \in Seq(Works) /\ NoDup(Unlinked(w))
           /\ Linked(Unlinked(w)) = Linked(work_list) \ {w}
           /\ work_list = <<>> => Unlinked(w) = <<>>
  <1>1. work_list = <<>> => w \notin Linked(work_list)
    BY DEF Linked
  <1> QED BY <1>1, RemoveLemma DEF WqShape, Unlinked

(* Put at the end, it is there once. *)
LEMMA RelinkedLemma ==
    ASSUME WqShape, NEW w \in Works
    PROVE  /\ Append(Unlinked(w), w) \in Seq(Works)
           /\ NoDup(Append(Unlinked(w), w))
           /\ Linked(Append(Unlinked(w), w)) = Linked(work_list) \cup {w}
  BY UnlinkedLemma, InsertBeforeLemma DEF rt_list_insert_before

(* A submission finds the worker awake or wakes it. *)
LEMMA WokenLemma ==
    ASSUME WqShape
    PROVE  /\ Woken \in PCs \ {"asleep"}
           /\ Woken \in {"test", "asleep"} => work_current = Nothing
  BY DEF WqShape, Woken, PCs

LEMMA DoworkStep ==
    ASSUME WqIInv, NEW w \in Works, rt_workqueue_dowork(w)
    PROVE  WqIInv'
  <1> USE DEF WqIInv
  <1>1. /\ delayed_list' = delayed_list \ {w} /\ worker' = Woken
        /\ UNCHANGED <<work_current, starting>>
    BY DEF rt_workqueue_dowork
  <1>2. CASE work_current # w
    <2>1. /\ work_list' = Append(Unlinked(w), w) /\ accepted' = accepted \cup {w}
          /\ dropped' = dropped \ {w}
          /\ work' = [work EXCEPT ![w].pending = TRUE, ![w].queue = TRUE]
      BY <1>2 DEF rt_workqueue_dowork, Accept
    <2>2. /\ work' \in [Works -> Item]
          /\ \A u \in Works : u # w => work'[u] = work[u]
      BY <2>1 DEF WqShape, Item
    <2>3. WqShape'
      BY <1>1, <2>1, <2>2, RelinkedLemma, WokenLemma DEF WqShape
    <2>4. ASSUME NEW u \in accepted' PROVE Held(u)'
      BY <1>1, <2>1, <2>2, RelinkedLemma DEF Held, BeingStarted, WqShape
    <2> QED BY <2>3, <2>4
  <1>3. CASE work_current = w
    <2>1. /\ work_list' = Unlinked(w) /\ UNCHANGED accepted
          /\ dropped' = dropped \cup {w}
          /\ work' = [work EXCEPT ![w].pending = FALSE]
      BY <1>3 DEF rt_workqueue_dowork
    <2>2. /\ work' \in [Works -> Item]
          /\ \A u \in Works : u # w => work'[u] = work[u]
      BY <2>1 DEF WqShape, Item
    <2>3. WqShape'
      BY <1>1, <2>1, <2>2, UnlinkedLemma, WokenLemma DEF WqShape
    <2>4. ASSUME NEW u \in accepted' PROVE Held(u)'
      BY <1>1, <2>1, <2>2, UnlinkedLemma DEF Held, BeingStarted, WqShape
    <2> QED BY <2>3, <2>4
  <1> QED BY <1>2, <1>3

LEMMA SubmitStep ==
    ASSUME WqIInv, NEW c \in Callers, NEW w \in Works, rt_workqueue_submit_work(c, w)
    PROVE  WqIInv'
  <1> USE DEF WqIInv
  <1>1. /\ starting[c] = Nothing /\ starting' = [starting EXCEPT ![c] = w]
        /\ work_list' = Unlinked(w) /\ delayed_list' = delayed_list \cup {w}
        /\ accepted' = accepted \cup {w} /\ dropped' = dropped \ {w}
        /\ UNCHANGED <<work_current, worker>>
        /\ work' = [work EXCEPT ![w] = [queue |-> TRUE, pending |-> FALSE,
                                        submitting |-> TRUE, timer |-> "stopped"]]
    BY DEF rt_workqueue_submit_work, Accept
  <1>2. /\ work' \in [Works -> Item] /\ work'[w].queue
        /\ \A u \in Works : u # w => work'[u] = work[u]
    BY <1>1 DEF WqShape, Item
  <1>3. /\ starting' \in [Callers -> Works \cup {Nothing}] /\ starting'[c] = w
        /\ \A d \in Callers : starting[d] # Nothing => starting'[d] = starting[d]
    BY <1>1 DEF WqShape
  <1>4. WqShape'
    BY <1>1, <1>2, <1>3, UnlinkedLemma DEF WqShape
  <1>5. ASSUME NEW u \in accepted' PROVE Held(u)'
    <2>1. CASE u = w
      BY <1>1, <1>2, <1>3, <2>1 DEF Held, BeingStarted
    <2>2. CASE u # w
      <3>1. u \in Works /\ Held(u) /\ u # Nothing
        BY <1>1, <2>2, WorksAssumption DEF WqShape
      <3> QED BY <1>1, <1>2, <1>3, <2>2, <3>1, UnlinkedLemma DEF Held, BeingStarted
    <2> QED BY <2>1, <2>2
  <1> QED BY <1>4, <1>5

LEMMA SubmitStartsStep ==
    ASSUME WqIInv, NEW c \in Callers, SubmitStarts(c)
    PROVE  WqIInv'
  <1> USE DEF WqIInv
  <1> DEFINE w == starting[c]
  <1>1. /\ w # Nothing /\ w \in Works
        /\ work' = [work EXCEPT ![w].timer = "active"]
        /\ starting' = [starting EXCEPT ![c] = Nothing]
        /\ UNCHANGED <<work_list, delayed_list, work_current, worker, accepted, dropped>>
    BY DEF SubmitStarts, WqShape
  <1>2. /\ work' \in [Works -> Item]
        /\ \A u \in Works : work'[u].queue = work[u].queue
        /\ \A u \in Works : work'[u].timer = IF u = w THEN "active" ELSE work[u].timer
    BY <1>1 DEF WqShape, Item
  <1>3. /\ starting' \in [Callers -> Works \cup {Nothing}]
        /\ \A d \in Callers : starting[d] # w => starting'[d] = starting[d]
    BY <1>1 DEF WqShape
  <1>4. WqShape'
    BY <1>1, <1>2, <1>3 DEF WqShape
  <1>5. ASSUME NEW u \in accepted' PROVE Held(u)'
    <2>1. u \in Works /\ Held(u)
      BY <1>1 DEF WqShape
    <2> QED BY <1>1, <1>2, <1>3, <2>1 DEF Held, BeingStarted
  <1> QED BY <1>4, <1>5

LEMMA UrgentStep ==
    ASSUME WqIInv, NEW w \in Works, rt_workqueue_urgent_work(w)
    PROVE  WqIInv'
  <1> USE DEF WqIInv
  <1>1. /\ work_list' = rt_list_insert_after(Unlinked(w), w)
        /\ delayed_list' = delayed_list \ {w} /\ worker' = Woken
        /\ accepted' = accepted \cup {w} /\ dropped' = dropped \ {w}
        /\ UNCHANGED <<work_current, work, starting>>
    BY DEF rt_workqueue_urgent_work, Accept
  <1>2. /\ work_list' \in Seq(Works) /\ NoDup(work_list')
        /\ Linked(work_list') = Linked(work_list) \cup {w}
    BY <1>1, UnlinkedLemma, InsertAfterLemma
  <1>3. WqShape'
    BY <1>1, <1>2, WokenLemma DEF WqShape
  <1>4. ASSUME NEW u \in accepted' PROVE Held(u)'
    BY <1>1, <1>2 DEF Held, BeingStarted
  <1> QED BY <1>3, <1>4

LEMMA CancelStep ==
    ASSUME WqIInv, NEW w \in Works, rt_workqueue_cancel_work(w)
    PROVE  WqIInv'
  <1> USE DEF WqIInv
  <1>1. /\ work_list' = Unlinked(w) /\ delayed_list' = delayed_list \ {w}
        /\ accepted' = accepted \ {w} /\ dropped' = dropped \ {w}
        /\ UNCHANGED <<work_current, worker, starting>>
        /\ work' = [work EXCEPT ![w] = [queue |-> FALSE, pending |-> FALSE, submitting |-> FALSE,
                        timer |-> IF @.submitting THEN "none" ELSE @.timer]]
    BY DEF rt_workqueue_cancel_work
  <1>2. /\ work' \in [Works -> Item]
        /\ \A u \in Works : u # w => work'[u] = work[u]
    BY <1>1 DEF WqShape, Item
  <1>3. WqShape'
    BY <1>1, <1>2, UnlinkedLemma DEF WqShape
  <1>4. ASSUME NEW u \in accepted' PROVE Held(u)'
    BY <1>1, <1>2, UnlinkedLemma DEF Held, BeingStarted, WqShape
  <1> QED BY <1>3, <1>4

LEMMA HandlerStep ==
    ASSUME WqIInv, NEW w \in Works, _delayed_work_timeout_handler(w)
    PROVE  WqIInv'
  <1> USE DEF WqIInv
  <1>1. /\ delayed_list' = delayed_list \ {w} /\ worker' = Woken
        /\ UNCHANGED <<work_current, starting, accepted>>
        /\ work' = [work EXCEPT ![w].timer = "none", ![w].submitting = FALSE,
                                ![w].pending = @ \/ work_current # w]
    BY DEF _delayed_work_timeout_handler
  <1>2. /\ work' \in [Works -> Item]
        /\ \A u \in Works : u # w => work'[u] = work[u]
    <2>1. work \in [Works -> Item] /\ work[w] \in Item
      BY DEF WqShape
    <2> DEFINE i == [work[w] EXCEPT !.timer = "none", !.submitting = FALSE,
                                    !.pending = @ \/ work_current # w]
    <2>2. work' = [work EXCEPT ![w] = i]
      BY <1>1, <2>1 DEF Item
    <2>3. i \in Item
      BY <2>1 DEF Item
    <2> HIDE DEF i
    <2> QED BY <2>1, <2>2, <2>3
  <1>3. /\ work_list' \in Seq(Works) /\ NoDup(work_list')
        /\ Linked(work_list') \subseteq Linked(work_list) \cup {w}
        /\ Linked(work_list) \ {w} \subseteq Linked(work_list')
        /\ dropped \subseteq dropped' /\ w \in Linked(work_list') \cup dropped'
    <2>1. CASE work_current # w
      <3>1. work_list' = Append(Unlinked(w), w) /\ UNCHANGED dropped
        BY <2>1 DEF _delayed_work_timeout_handler
      <3> QED BY <3>1, RelinkedLemma
    <2>2. CASE work_current = w
      <3>1. work_list' = Unlinked(w) /\ dropped' = dropped \cup {w}
        BY <2>2 DEF _delayed_work_timeout_handler
      <3> QED BY <3>1, UnlinkedLemma
    <2> QED BY <2>1, <2>2
  <1>4. WqShape'
    BY <1>1, <1>2, <1>3, WokenLemma DEF WqShape
  <1>5. ASSUME NEW u \in accepted' PROVE Held(u)'
    BY <1>1, <1>2, <1>3 DEF Held, BeingStarted, WqShape
  <1> QED BY <1>4, <1>5

LEMMA WorkerTakesStep ==
    ASSUME WqIInv, WorkerTakes
    PROVE  WqIInv'
  <1> USE DEF WqIInv
  <1> DEFINE w == Head(work_list)
  <1>1. /\ work_list # <<>> /\ work_list' = Tail(work_list) /\ worker' = "work"
        /\ accepted' = accepted \ {w} /\ UNCHANGED <<delayed_list, starting, dropped>>
        /\ work' = [work EXCEPT ![w].pending = FALSE, ![w].queue = FALSE]
    BY DEF WorkerTakes
  <1>2. /\ w \in Works /\ work_list' \in Seq(Works) /\ NoDup(work_list')
        /\ Linked(work_list') = Linked(work_list) \ {w}
    BY <1>1, EmptyLemma, TailLemma DEF WqShape
  <1> HIDE DEF w
  <1>3. /\ work' \in [Works -> Item]
        /\ \A u \in Works : u # w => work'[u] = work[u]
    <2>1. work \in [Works -> Item] /\ work[w] \in Item
      BY <1>2 DEF WqShape
    <2> DEFINE i == [work[w] EXCEPT !.pending = FALSE, !.queue = FALSE]
    <2>2. work' = [work EXCEPT ![w] = i]
      BY <1>1, <1>2, <2>1 DEF Item, w
    <2>3. i \in Item
      BY <2>1 DEF Item
    <2> HIDE DEF i
    <2> QED BY <1>2, <2>1, <2>2, <2>3
  <1>4. WqShape'
    BY <1>1, <1>2, <1>3 DEF WqShape, PCs
  <1>5. ASSUME NEW u \in accepted' PROVE Held(u)'
    BY <1>1, <1>2, <1>3 DEF Held, BeingStarted, WqShape
  <1> QED BY <1>4, <1>5

LEMMA WorkerStep ==
    ASSUME WqIInv, WorkerSleeps \/ WorkDone \/ WorkerCleans
    PROVE  WqIInv'
  <1>1. UNCHANGED <<work_list, delayed_list, work, starting, accepted, dropped>>
    BY DEF WorkerSleeps, WorkDone, WorkerCleans
  <1>2. WqShape'
    BY <1>1 DEF WqIInv, WqShape, WorkerSleeps, WorkDone, WorkerCleans, PCs
  <1>3. \A u \in accepted' : Held(u)'
    BY <1>1 DEF WqIInv, Held, BeingStarted
  <1> QED BY <1>2, <1>3 DEF WqIInv

LEMMA WqNextLemma == WqIInv /\ (WqNext \/ UNCHANGED wqVars) => WqIInv'
  <1> SUFFICES ASSUME WqIInv, WqNext \/ UNCHANGED wqVars PROVE WqIInv'
    OBVIOUS
  <1>1. CASE UNCHANGED wqVars
    BY <1>1 DEF wqVars, WqIInv, WqShape, Held, BeingStarted
  <1>2. CASE WqNext
    BY <1>2, DoworkStep, SubmitStep, SubmitStartsStep, UrgentStep, CancelStep, HandlerStep,
       WorkerTakesStep, WorkerStep DEF WqNext
  <1> QED BY <1>1, <1>2

LEMMA SameTimersLemma ==
    ASSUME StoppedOnce, starting' = starting, clash' = clash,
           \A u \in Works : work'[u].timer = work[u].timer
    PROVE  StoppedOnce'
  BY DEF StoppedOnce

LEMMA OneTimerLemma ==
    ASSUME StoppedOnce, NEW w \in Works,
           \A u \in Works : u # w => work'[u] = work[u],
           \A c \in Callers : \A u \in Works : u # w /\ starting'[c] = u => starting[c] = u,
           \A u \in clash : u # w /\ BeingStarted(u)' => u \in clash',
           \A c, d \in Callers : w \notin clash' /\ starting'[c] = w /\ starting'[d] = w
                => c = d /\ work'[w].timer = "stopped"
    PROVE  StoppedOnce'
  <1> SUFFICES ASSUME NEW u \in Works \ clash', NEW c \in Callers, NEW d \in Callers,
                      starting'[c] = u, starting'[d] = u
               PROVE  c = d /\ work'[u].timer = "stopped"
    BY DEF StoppedOnce
  <1>1. CASE u = w
    BY <1>1
  <1>2. CASE u # w
    <2>1. starting[c] = u /\ starting[d] = u /\ work'[u] = work[u]
      BY <1>2
    <2>2. u \notin clash
      BY <1>2 DEF BeingStarted
    <2> QED BY <2>1, <2>2 DEF StoppedOnce
  <1> QED BY <1>1, <1>2

(* Two callers meet at a work, or a cancellation and a caller, only as a     *)
(* clash, and the timer of one that did not clash is not active.             *)
LEMMA StoppedOnceStep ==
    ASSUME WqIInv, StoppedOnce, WqNext
    PROVE  StoppedOnce'
  <1> USE DEF WqIInv
  <1>0. /\ work \in [Works -> Item] /\ starting \in [Callers -> Works \cup {Nothing}]
        /\ Nothing \notin Works
    BY WorksAssumption DEF WqShape
  <1>1. ASSUME NEW w \in Works, rt_workqueue_dowork(w) PROVE StoppedOnce'
    <2>1. starting' = starting /\ clash' = clash
      BY <1>1 DEF rt_workqueue_dowork
    <2>2. CASE work_current # w
      <3>1. work' = [work EXCEPT ![w].pending = TRUE, ![w].queue = TRUE]
        BY <1>1, <2>2 DEF rt_workqueue_dowork
      <3>2. \A u \in Works : work'[u].timer = work[u].timer
        BY <1>0, <3>1 DEF Item
      <3> QED BY <2>1, <3>2, SameTimersLemma
    <2>3. CASE work_current = w
      <3>1. work' = [work EXCEPT ![w].pending = FALSE]
        BY <1>1, <2>3 DEF rt_workqueue_dowork
      <3>2. \A u \in Works : work'[u].timer = work[u].timer
        BY <1>0, <3>1 DEF Item
      <3> QED BY <2>1, <3>2, SameTimersLemma
    <2> QED BY <2>2, <2>3
  <1>2. ASSUME NEW w \in Works, rt_workqueue_urgent_work(w) PROVE StoppedOnce'
    <2>1. starting' = starting /\ clash' = clash /\ work' = work
      BY <1>2 DEF rt_workqueue_urgent_work
    <2> QED BY <2>1, SameTimersLemma
  <1>3. ASSUME NEW w \in Works, rt_workqueue_cancel_work(w) PROVE StoppedOnce'
    <2>1. starting' = starting /\ clash' = Clashing(w)
      BY <1>3 DEF rt_workqueue_cancel_work
    <2>2. \A u \in Works : u # w => work'[u] = work[u]
      BY <1>0, <1>3 DEF rt_workqueue_cancel_work
    <2> QED BY <2>1, <2>2, OneTimerLemma DEF Clashing, BeingStarted
  <1>4. ASSUME NEW w \in Works, _delayed_work_timeout_handler(w) PROVE StoppedOnce'
    <2>1. starting' = starting /\ clash' = clash /\ work[w].timer = "active"
      BY <1>4 DEF _delayed_work_timeout_handler
    <2>2. \A u \in Works : u # w => work'[u] = work[u]
      BY <1>0, <1>4 DEF _delayed_work_timeout_handler
    <2>3. w \in clash \/ \A c \in Callers : starting[c] # w
      BY <2>1 DEF StoppedOnce
    <2> QED BY <2>1, <2>2, <2>3, OneTimerLemma
  <1>5. ASSUME NEW w \in Works, NEW c \in Callers, rt_workqueue_submit_work(c, w)
        PROVE  StoppedOnce'
    <2>1. /\ starting[c] = Nothing /\ starting' = [starting EXCEPT ![c] = w]
          /\ clash' = Clashing(w)
          /\ work' = [work EXCEPT ![w] = [queue |-> TRUE, pending |-> FALSE,
                                          submitting |-> TRUE, timer |-> "stopped"]]
      BY <1>5 DEF rt_workqueue_submit_work
    <2>2. /\ \A u \in Works : u # w => work'[u] = work[u]
          /\ work'[w].timer = "stopped"
      BY <1>0, <2>1
    <2>3. /\ starting'[c] = w
          /\ \A d \in Callers : d # c => starting'[d] = starting[d]
      BY <1>0, <2>1
    <2>4. \A d \in Callers : w \notin clash' => starting[d] # w
      BY <2>1 DEF Clashing, BeingStarted
    <2>5. clash \subseteq clash'
      BY <2>1 DEF Clashing
    <2>6. \A d \in Callers : w \notin clash' /\ starting'[d] = w => d = c
      BY <2>3, <2>4
    <2>7. \A d, e \in Callers : w \notin clash' /\ starting'[d] = w /\ starting'[e] = w
                => d = e /\ work'[w].timer = "stopped"
      BY <2>2, <2>6
    <2>8. \A d \in Callers : \A u \in Works : u # w /\ starting'[d] = u => starting[d] = u
      BY <2>3
    <2> QED BY <2>2, <2>5, <2>7, <2>8, OneTimerLemma
  <1>6. ASSUME NEW c \in Callers, SubmitStarts(c) PROVE StoppedOnce'
    <2>0. PICK w : w = starting[c]
      OBVIOUS
    <2>1. /\ w \in Works /\ work' = [work EXCEPT ![w].timer = "active"]
          /\ starting' = [starting EXCEPT ![c] = Nothing]
          /\ clash' = {u \in clash : BeingStarted(u)'}
      BY <1>0, <1>6, <2>0 DEF SubmitStarts
    <2>2. \A u \in Works : u # w => work'[u] = work[u]
      BY <1>0, <2>1
    <2>3. /\ starting'[c] = Nothing
          /\ \A d \in Callers : d # c => starting'[d] = starting[d]
      BY <1>0, <2>1
    <2>4. ASSUME NEW d \in Callers, starting'[d] = w PROVE w \in clash'
      <3>1. d # c /\ starting[d] = w
        BY <1>0, <2>1, <2>3, <2>4
      <3>2. w \in clash
        BY <2>0, <2>1, <3>1 DEF StoppedOnce
      <3>3. BeingStarted(w)'
        BY <2>4 DEF BeingStarted
      <3> QED BY <2>1, <3>2, <3>3
    <2>5. \A d \in Callers : \A u \in Works : u # w /\ starting'[d] = u => starting[d] = u
      BY <1>0, <2>3
    <2> QED BY <2>1, <2>2, <2>4, <2>5, OneTimerLemma
  <1>7. CASE WorkerTakes
    <2>0. PICK w : w = Head(work_list)
      OBVIOUS
    <2>1. /\ starting' = starting /\ clash' = clash
          /\ work' = [work EXCEPT ![w].pending = FALSE, ![w].queue = FALSE]
      BY <1>7, <2>0 DEF WorkerTakes
    <2>2. \A u \in Works : work'[u].timer = work[u].timer
      BY <1>0, <2>1 DEF Item
    <2> QED BY <2>1, <2>2, SameTimersLemma
  <1>8. CASE WorkerSleeps \/ WorkDone \/ WorkerCleans
    <2>1. UNCHANGED <<work, starting, clash>>
      BY <1>8 DEF WorkerSleeps, WorkDone, WorkerCleans
    <2> QED BY <2>1, SameTimersLemma
  <1> QED BY <1>1, <1>2, <1>3, <1>4, <1>5, <1>6, <1>7, <1>8 DEF WqNext

(* An accepted work is listed for a worker that is awake, or waits for a     *)
(* delay that ends, except those the code drops because they execute; and    *)
(* the timer a caller starts is one, unless the work was submitted again or  *)
(* cancelled meanwhile: for any number of works and submitters, careful or   *)
(* not.                                                                     *)
THEOREM AcceptedWorkIsHeld == Spec => []AcceptedIsHeld
  <1>1. Init => WqIInv /\ StoppedOnce
    <2>1. WqInit => StoppedOnce
      BY WorksAssumption DEF WqInit, StoppedOnce
    <2> QED BY <2>1, WqInitLemma DEF Init
  <1>2. WqIInv /\ StoppedOnce /\ [Next]_vars => WqIInv' /\ StoppedOnce'
    <2> SUFFICES ASSUME WqIInv, StoppedOnce, [Next]_vars PROVE WqIInv' /\ StoppedOnce'
      OBVIOUS
    <2>1. WqNext \/ UNCHANGED wqVars
      BY DEF Next, vars
    <2>2. CASE UNCHANGED wqVars
      <3>1. StoppedOnce'
        BY <2>2 DEF wqVars, StoppedOnce
      <3> QED BY <2>2, <3>1, WqNextLemma
    <2> QED BY <2>1, <2>2, WqNextLemma, StoppedOnceStep
  <1>3. WqIInv /\ StoppedOnce => AcceptedIsHeld
    BY WqImpliesHeld
  <1> QED BY <1>1, <1>2, <1>3, PTL DEF Spec

(* A work whose delay runs, or that is about to have it started. *)
Due(w) ==
    \/ work[w].timer = "active"
    \/ work[w].timer = "stopped" /\ \E c \in Callers : starting[c] = w

(* It is the queue's, and not yet in the worker's hands. *)
InDelay(w) == work[w].queue /\ work[w].submitting /\ w \notin Linked(work_list)

DelaysHold == \A w \in Works : Due(w) => InDelay(w)

LEMMA OneDelayLemma ==
    ASSUME DelaysHold, NEW w \in Works,
           \A u \in Works : u # w => work'[u] = work[u],
           \A c \in Callers : \A u \in Works : u # w /\ starting'[c] = u => starting[c] = u,
           Linked(work_list') \subseteq Linked(work_list) \cup {w},
           Due(w)' => InDelay(w)'
    PROVE  DelaysHold'
  <1>1. ASSUME NEW u \in Works, u # w, Due(u)' PROVE InDelay(u)'
    <2>1. Due(u)
      BY <1>1 DEF Due
    <2>2. InDelay(u)
      BY <2>1 DEF DelaysHold
    <2> QED BY <1>1, <2>2 DEF InDelay
  <1> QED BY <1>1 DEF DelaysHold

LEMMA DelaysStep ==
    ASSUME Careful, WqIInv, DelaysHold, WqNext
    PROVE  DelaysHold'
  <1> USE DEF WqIInv
  <1>0. /\ work \in [Works -> Item] /\ starting \in [Callers -> Works \cup {Nothing}]
        /\ Nothing \notin Works
    BY WorksAssumption DEF WqShape
  <1>1. ASSUME NEW w \in Works, rt_workqueue_dowork(w) PROVE DelaysHold'
    <2>1. ~work[w].submitting /\ starting' = starting
      BY <1>1 DEF rt_workqueue_dowork
    <2>2. ~Due(w)
      BY <2>1 DEF DelaysHold, InDelay
    <2>3. /\ work'[w].timer = work[w].timer
          /\ \A u \in Works : u # w => work'[u] = work[u]
          /\ Linked(work_list') \subseteq Linked(work_list) \cup {w}
      <3>1. CASE work_current # w
        <4>1. /\ work_list' = Append(Unlinked(w), w)
              /\ work' = [work EXCEPT ![w].pending = TRUE, ![w].queue = TRUE]
          BY <1>1, <3>1 DEF rt_workqueue_dowork
        <4>2. work'[w].timer = work[w].timer /\ \A u \in Works : u # w => work'[u] = work[u]
          BY <1>0, <4>1 DEF Item
        <4> QED BY <4>1, <4>2, RelinkedLemma
      <3>2. CASE work_current = w
        BY <1>0, <1>1, <3>2, UnlinkedLemma DEF rt_workqueue_dowork, Item
      <3> QED BY <3>1, <3>2
    <2>4. ~Due(w)'
      BY <2>1, <2>2, <2>3 DEF Due
    <2> QED BY <2>1, <2>3, <2>4, OneDelayLemma
  <1>2. ASSUME NEW w \in Works, rt_workqueue_urgent_work(w) PROVE DelaysHold'
    <2>1. ~work[w].submitting /\ starting' = starting /\ work' = work
      BY <1>2 DEF rt_workqueue_urgent_work
    <2>2. ~Due(w)'
      BY <2>1 DEF DelaysHold, InDelay, Due
    <2>3. Linked(work_list') = Linked(work_list) \cup {w}
      BY <1>2, UnlinkedLemma, InsertAfterLemma DEF rt_workqueue_urgent_work
    <2> QED BY <2>1, <2>2, <2>3, OneDelayLemma
  <1>3. ASSUME NEW w \in Works, rt_workqueue_cancel_work(w) PROVE DelaysHold'
    <2>1. /\ starting' = starting /\ \A c \in Callers : starting[c] # w
          /\ work_list' = Unlinked(w)
      BY <1>3 DEF rt_workqueue_cancel_work, BeingStarted
    <2>2. /\ \A u \in Works : u # w => work'[u] = work[u]
          /\ work'[w].timer = IF work[w].submitting THEN "none" ELSE work[w].timer
      BY <1>0, <1>3 DEF rt_workqueue_cancel_work, Item
    <2>3. ~Due(w)'
      BY <2>1, <2>2 DEF DelaysHold, InDelay, Due
    <2> QED BY <2>1, <2>2, <2>3, UnlinkedLemma, OneDelayLemma
  <1>4. ASSUME NEW w \in Works, _delayed_work_timeout_handler(w) PROVE DelaysHold'
    <2>1. starting' = starting
      BY <1>4 DEF _delayed_work_timeout_handler
    <2>2. Linked(work_list') \subseteq Linked(work_list) \cup {w}
      <3>1. CASE work_current # w
        BY <1>4, <3>1, RelinkedLemma DEF _delayed_work_timeout_handler
      <3>2. CASE work_current = w
        BY <1>4, <3>2, UnlinkedLemma DEF _delayed_work_timeout_handler
      <3> QED BY <3>1, <3>2
    <2>3. (\A u \in Works : u # w => work'[u] = work[u]) /\ work'[w].timer = "none"
      <3> DEFINE i == [work[w] EXCEPT !.timer = "none", !.submitting = FALSE,
                                      !.pending = @ \/ work_current # w]
      <3>1. work' = [work EXCEPT ![w] = i]
        BY <1>0, <1>4 DEF _delayed_work_timeout_handler, Item
      <3>2. i.timer = "none"
        BY <1>0 DEF Item
      <3> HIDE DEF i
      <3> QED BY <1>0, <3>1, <3>2
    <2>4. ~Due(w)'
      BY <2>3 DEF Due
    <2> QED BY <2>1, <2>2, <2>3, <2>4, OneDelayLemma
  <1>5. ASSUME NEW w \in Works, NEW c \in Callers, rt_workqueue_submit_work(c, w) PROVE DelaysHold'
    <2>1. /\ starting' = [starting EXCEPT ![c] = w] /\ work_list' = Unlinked(w)
          /\ work' = [work EXCEPT ![w] = [queue |-> TRUE, pending |-> FALSE,
                                          submitting |-> TRUE, timer |-> "stopped"]]
      BY <1>5 DEF rt_workqueue_submit_work
    <2>2. /\ \A u \in Works : u # w => work'[u] = work[u]
          /\ work'[w].queue /\ work'[w].submitting
      BY <1>0, <2>1
    <2>3. \A d \in Callers : \A u \in Works : u # w /\ starting'[d] = u => starting[d] = u
      BY <1>0, <2>1
    <2>4. InDelay(w)'
      BY <2>1, <2>2, UnlinkedLemma DEF InDelay
    <2> QED BY <2>1, <2>2, <2>3, <2>4, UnlinkedLemma, OneDelayLemma
  <1>6. ASSUME NEW c \in Callers, SubmitStarts(c) PROVE DelaysHold'
    <2>0. PICK w : w = starting[c]
      OBVIOUS
    <2>1. /\ w \in Works /\ work[w].timer # "none" /\ work_list' = work_list
          /\ work' = [work EXCEPT ![w].timer = "active"]
          /\ starting' = [starting EXCEPT ![c] = Nothing]
      BY <1>0, <1>6, <2>0 DEF SubmitStarts
    <2>2. Due(w)
      <3>1. work[w].timer \in {"none", "stopped", "active"}
        BY <1>0, <2>1 DEF Item
      <3> QED BY <2>0, <2>1, <3>1 DEF Due
    <2>3. /\ \A u \in Works : u # w => work'[u] = work[u]
          /\ work'[w].queue = work[w].queue /\ work'[w].submitting = work[w].submitting
      BY <1>0, <2>1 DEF Item
    <2>4. \A d \in Callers : \A u \in Works : u # w /\ starting'[d] = u => starting[d] = u
      BY <1>0, <2>0, <2>1
    <2>5. InDelay(w)'
      BY <2>1, <2>2, <2>3 DEF DelaysHold, InDelay
    <2> QED BY <2>1, <2>3, <2>4, <2>5, OneDelayLemma
  <1>7. CASE WorkerTakes
    <2>0. PICK w : w = Head(work_list)
      OBVIOUS
    <2>1. /\ work_list # <<>> /\ work_list' = Tail(work_list) /\ starting' = starting
          /\ work' = [work EXCEPT ![w].pending = FALSE, ![w].queue = FALSE]
      BY <1>7, <2>0 DEF WorkerTakes
    <2>2. w \in Works /\ w \in Linked(work_list) /\ Linked(work_list') = Linked(work_list) \ {w}
      BY <2>0, <2>1, EmptyLemma, TailLemma DEF WqShape
    <2>3. /\ \A u \in Works : u # w => work'[u] = work[u]
          /\ work'[w].timer = work[w].timer
      BY <1>0, <2>1, <2>2 DEF Item
    <2>4. ~Due(w)'
      BY <2>1, <2>2, <2>3 DEF DelaysHold, InDelay, Due
    <2> QED BY <2>1, <2>2, <2>3, <2>4, OneDelayLemma
  <1>8. CASE WorkerSleeps \/ WorkDone \/ WorkerCleans
    <2>1. UNCHANGED <<work_list, work, starting>>
      BY <1>8 DEF WorkerSleeps, WorkDone, WorkerCleans
    <2> QED BY <2>1 DEF DelaysHold, Due, InDelay
  <1> QED BY <1>1, <1>2, <1>3, <1>4, <1>5, <1>6, <1>7, <1>8 DEF WqNext

(* RT_ASSERT(queue != RT_NULL) of _delayed_work_timeout_handler holds when    *)
(* nobody submits a work without a delay while it waits for one, or cancels  *)
(* it while it is being submitted: the precondition that the run with        *)
(* Careful = FALSE shows to be needed is enough.                            *)
THEOREM CarefulHandlerFindsQueue == Careful => (Spec => HandlerFindsQueue)
  <1> SUFFICES ASSUME Careful PROVE Spec => HandlerFindsQueue
    OBVIOUS
  <1>1. Init => WqIInv /\ DelaysHold
    <2>1. WqInit => DelaysHold
      BY DEF WqInit, DelaysHold, Due, InDelay
    <2> QED BY <2>1, WqInitLemma DEF Init
  <1>2. WqIInv /\ DelaysHold /\ [Next]_vars => WqIInv' /\ DelaysHold'
    <2> SUFFICES ASSUME WqIInv, DelaysHold, [Next]_vars PROVE WqIInv' /\ DelaysHold'
      OBVIOUS
    <2>1. WqNext \/ UNCHANGED wqVars
      BY DEF Next, vars
    <2>2. CASE UNCHANGED wqVars
      <3>1. DelaysHold'
        BY <2>2 DEF wqVars, DelaysHold, Due, InDelay
      <3> QED BY <2>2, <3>1, WqNextLemma
    <2> QED BY <2>1, <2>2, WqNextLemma, DelaysStep
  <1>3. DelaysHold /\ [Next]_vars =>
            [\A w \in Works : _delayed_work_timeout_handler(w) => work[w].queue]_wqVars
    BY DEF DelaysHold, Due, InDelay, _delayed_work_timeout_handler
  <1> QED BY <1>1, <1>2, <1>3, PTL DEF Spec, HandlerFindsQueue

-----------------------------------------------------------------------------
(* The ring buffer *)

(* HoldsLatest computes the length from indices and mirror bits; what is    *)
(* inductive is that these are where the length puts them: the writer is    *)
(* Len(kept) places ahead of the reader, and the mirror bits differ exactly *)
(* if the end of the buffer lies between the two.                          *)
RingIInv ==
    /\ ring \in Ring
    /\ kept \in Seq(Bytes) /\ Len(kept) <= RingSize
    /\ ring.write_index = Around(RingSize, ring.read_index + Len(kept))
    /\ (ring.read_mirror # ring.write_mirror) <=> (ring.read_index + Len(kept) >= RingSize)
    /\ HeldFrom(0, kept, ring.buffer, RingSize, ring.read_index)

LEMMA RingLengths ==
    ASSUME RingIInv
    PROVE  /\ rt_ringbuffer_data_len = Len(kept) /\ Len(kept) \in 0 .. RingSize
           /\ Full <=> Len(kept) = RingSize
  <1>1. /\ ring.read_index \in 0 .. RingSize - 1 /\ ring.write_index \in 0 .. RingSize - 1
        /\ ring.read_mirror \in BOOLEAN /\ ring.write_mirror \in BOOLEAN
    BY DEF RingIInv, Ring
  <1>2. RingSize \in Nat \ {0} /\ Len(kept) \in Nat /\ Len(kept) <= RingSize
    BY RingAssumption DEF RingIInv
  <1>3. /\ ring.write_index = IF ring.read_index + Len(kept) < RingSize
                              THEN ring.read_index + Len(kept)
                              ELSE ring.read_index + Len(kept) - RingSize
    <2>1. ring.write_index = Around(RingSize, ring.read_index + Len(kept))
      BY DEF RingIInv
    <2> QED BY <1>1, <1>2, <2>1 DEF Around
  <1>4. (ring.read_mirror # ring.write_mirror) <=> (ring.read_index + Len(kept) >= RingSize)
    BY DEF RingIInv
  <1> QED BY <1>1, <1>2, <1>3, <1>4 DEF rt_ringbuffer_data_len, Full, Empty

LEMMA RingHoldsLatest == RingIInv => HoldsLatest
  <1> SUFFICES ASSUME RingIInv PROVE HoldsLatest
    OBVIOUS
  <1> DEFINE e == rt_ringbuffer_data_len
  <1>1. e = Len(kept) /\ e \in 0 .. RingSize
    BY RingLengths
  <1> HIDE DEF e
  <1>2. IsRing(RingSize, Bytes \cup {NoByte}, ring.buffer, ring.read_index, e)
    BY <1>1, RingAssumption DEF RingIInv, Ring, IsRing
  <1>3. kept \in Seq(Bytes) /\ HeldFrom(0, kept, ring.buffer, RingSize, ring.read_index)
    BY DEF RingIInv
  <1>4. kept = RingEntries(ring.buffer, RingSize, ring.read_index, e)
    BY <1>1, <1>2, <1>3, HeldEntries
  <1> QED BY <1>4 DEF HoldsLatest, RingEntries, RingIInv, e

LEMMA RingInitLemma == RingInit => RingIInv
  <1> SUFFICES ASSUME RingInit PROVE RingIInv
    OBVIOUS
  <1>1. kept = <<>> /\ kept \in Seq(Bytes) /\ Len(kept) = 0
    BY DEF RingInit
  <1>2. RingSize \in Nat \ {0} /\ 0 \in 0 .. RingSize - 1
    BY RingAssumption
  <1>3. /\ ring.read_index = 0 /\ ring.write_index = 0
        /\ ring.read_mirror = ring.write_mirror
    BY DEF RingInit
  <1>4. ring \in Ring
    BY <1>2 DEF RingInit, Ring
  <1> QED BY <1>1, <1>2, <1>3, <1>4 DEF RingIInv, Around, HeldFrom

(* A slot is as far from itself the other way around. *)
LEMMA RoundLemma ==
    ASSUME NEW n \in Nat \ {0}, NEW k \in 0 .. n - 1
    PROVE  k % n = k /\ (k - n) % n = k
  <1>1. k % n = k
    OBVIOUS
  <1>2. (k - n) % n = k
    OBVIOUS
  <1> QED BY <1>1, <1>2

(* What a write leaves in each slot, counted from where it starts. *)
LEMMA StoresLemma ==
    ASSUME RingIInv, NEW s \in Seq(Bytes), Len(s) <= RingSize
    PROVE  /\ Stores(s) \in [0 .. RingSize - 1 -> Bytes \cup {NoByte}]
           /\ \A k \in 0 .. RingSize - 1 :
                 Stores(s)[Around(RingSize, ring.write_index + k)] =
                     IF k < Len(s) THEN s[k + 1]
                     ELSE ring.buffer[Around(RingSize, ring.write_index + k)]
  <1> DEFINE N == RingSize
             w == ring.write_index
             place(i) == (i - w) % N
             g == Stores(s)
  <1>1. N \in Nat \ {0} /\ w \in 0 .. N - 1 /\ ring.buffer \in [0 .. N - 1 -> Bytes \cup {NoByte}]
    BY RingAssumption DEF RingIInv, Ring
  <1>2. g = [i \in 0 .. N - 1 |-> IF place(i) < Len(s) THEN s[place(i) + 1] ELSE ring.buffer[i]]
    BY Zenon DEF Stores
  <1>3. ASSUME NEW i \in 0 .. N - 1 PROVE place(i) \in 0 .. N - 1
    <2>1. i - w \in Int
      BY <1>1
    <2> QED BY <1>1, <2>1
  <1>4. ASSUME NEW k \in 0 .. N - 1
        PROVE  Around(N, w + k) \in 0 .. N - 1 /\ place(Around(N, w + k)) = k
    <2>1. k % N = k /\ (k - N) % N = k
      BY <1>1, RoundLemma
    <2>2. /\ Around(N, w + k) \in 0 .. N - 1
          /\ Around(N, w + k) - w = k \/ Around(N, w + k) - w = k - N
      BY <1>1 DEF Around
    <2> QED BY <2>1, <2>2
  <1> HIDE DEF N, w, place, g
  <1>5. g \in [0 .. N - 1 -> Bytes \cup {NoByte}]
    <2>1. ASSUME NEW i \in 0 .. N - 1 PROVE g[i] \in Bytes \cup {NoByte}
      <3>1. CASE place(i) < Len(s)
        <4>1. place(i) + 1 \in 1 .. Len(s)
          BY <1>1, <1>3, <3>1
        <4> QED BY <1>2, <3>1, <4>1
      <3>2. CASE ~(place(i) < Len(s))
        BY <1>1, <1>2, <3>2
      <3> QED BY <3>1, <3>2
    <2>2. g = [i \in 0 .. N - 1 |-> g[i]]
      BY <1>2
    <2> QED BY <2>1, <2>2
  <1>6. ASSUME NEW k \in 0 .. N - 1
        PROVE  g[Around(N, w + k)] = IF k < Len(s) THEN s[k + 1] ELSE ring.buffer[Around(N, w + k)]
    BY <1>2, <1>4
  <1> QED BY <1>5, <1>6 DEF N, w, g

(* The record that Written and Read make of the ring buffer. *)
LEMMA WrittenLemma ==
    ASSUME RingIInv, NEW s \in Seq(Bytes), Len(s) <= RingSize
    PROVE  LET w == ring.write_index + Len(s) IN
           Written(s) = [buffer |-> Stores(s),
                         read_mirror |-> ring.read_mirror, read_index |-> ring.read_index,
                         write_mirror |-> IF w >= RingSize THEN ~ring.write_mirror
                                          ELSE ring.write_mirror,
                         write_index |-> Around(RingSize, w)]
  <1> DEFINE w == ring.write_index
             n == Len(s)
             N == RingSize
  <1>1. w \in 0 .. N - 1 /\ n \in Nat /\ N \in Nat \ {0}
    BY RingAssumption DEF RingIInv, Ring
  <1>2. Crosses(w, n) <=> w + n >= N
    BY <1>1 DEF Crosses
  <1>3. (IF Crosses(w, n) THEN n - (N - w) ELSE w + n) = Around(N, w + n)
    BY <1>1 DEF Crosses, Around
  <1>4. ring \in Ring
    BY DEF RingIInv
  <1>5. Written(s) = [ring EXCEPT !.buffer = Stores(s),
                          !.write_mirror = IF Crosses(w, n) THEN ~ring.write_mirror ELSE ring.write_mirror,
                          !.write_index = Around(N, w + n)]
    BY <1>3, <1>4 DEF Written, Ring
  <1> QED BY <1>2, <1>4, <1>5 DEF Ring

LEMMA ReadLemma ==
    ASSUME RingIInv, NEW n \in 0 .. RingSize
    PROVE  LET r == ring.read_index + n IN
           Read(n) = [buffer |-> ring.buffer,
                      read_mirror |-> IF r >= RingSize THEN ~ring.read_mirror
                                      ELSE ring.read_mirror,
                      read_index |-> Around(RingSize, r),
                      write_mirror |-> ring.write_mirror, write_index |-> ring.write_index]
  <1> DEFINE r == ring.read_index
             N == RingSize
  <1>1. r \in 0 .. N - 1 /\ n \in Nat /\ N \in Nat \ {0}
    BY RingAssumption DEF RingIInv, Ring
  <1>2. Crosses(r, n) <=> r + n >= N
    BY <1>1 DEF Crosses
  <1>3. (IF Crosses(r, n) THEN n - (N - r) ELSE r + n) = Around(N, r + n)
    BY <1>1 DEF Crosses, Around
  <1>4. ring \in Ring
    BY DEF RingIInv
  <1>5. Read(n) = [ring EXCEPT
                      !.read_mirror = IF Crosses(r, n) THEN ~ring.read_mirror ELSE ring.read_mirror,
                      !.read_index = Around(N, r + n)]
    BY <1>3, <1>4 DEF Read, Ring
  <1> QED BY <1>2, <1>4, <1>5 DEF Ring

(* s goes in and the first d go: the reader is moved, and its mirror bit    *)
(* flipped where it crosses the end.                                       *)
LEMMA RingAddStep ==
    ASSUME RingIInv, NEW s \in Seq(Bytes), Len(s) <= RingSize, NEW d,
           d = IF Len(kept) + Len(s) > RingSize THEN Len(kept) + Len(s) - RingSize ELSE 0,
           ring' = [Written(s) EXCEPT
                        !.read_mirror = IF ring.read_index + d >= RingSize
                                        THEN ~ring.read_mirror ELSE ring.read_mirror,
                        !.read_index = Around(RingSize, ring.read_index + d)],
           kept' \in Seq(Bytes), Len(kept') = Len(kept) + Len(s) - d,
           \A k \in 0 .. Len(kept) + Len(s) - d - 1 :
               kept'[k + 1] = IF k + d < Len(kept) THEN kept[k + d + 1] ELSE s[k + d - Len(kept) + 1]
    PROVE  RingIInv'
  <1> DEFINE N == RingSize
             r == ring.read_index
             w == ring.write_index
             rm == ring.read_mirror
             wm == ring.write_mirror
             e == Len(kept)
             m == Len(s)
             a == Around(N, r + d)
             wn == Around(N, w + m)
             rmn == IF r + d >= N THEN ~rm ELSE rm
             wmn == IF w + m >= N THEN ~wm ELSE wm
  <1>1. /\ N \in Nat \ {0} /\ r \in 0 .. N - 1 /\ w \in 0 .. N - 1
        /\ rm \in BOOLEAN /\ wm \in BOOLEAN /\ e \in 0 .. N /\ m \in 0 .. N
    <2>1. ring \in Ring /\ kept \in Seq(Bytes) /\ e <= N
      BY DEF RingIInv
    <2>2. N \in Nat \ {0}
      BY RingAssumption
    <2> QED BY <2>1, <2>2 DEF Ring
  <1>2. w = Around(N, r + e)
    BY DEF RingIInv
  <1>3. (rm # wm) <=> (r + e >= N)
    BY DEF RingIInv
  <1>4. HeldFrom(0, kept, ring.buffer, N, r)
    BY DEF RingIInv
  <1>5. /\ Stores(s) \in [0 .. N - 1 -> Bytes \cup {NoByte}]
        /\ \A k \in 0 .. N - 1 :
              Stores(s)[Around(N, w + k)] = IF k < m THEN s[k + 1] ELSE ring.buffer[Around(N, w + k)]
    BY StoresLemma
  <1>6. ring' = [buffer |-> Stores(s), read_mirror |-> rmn, read_index |-> a,
                 write_mirror |-> wmn, write_index |-> wn]
    <2>1. Written(s) = [buffer |-> Stores(s), read_mirror |-> rm, read_index |-> r,
                        write_mirror |-> wmn, write_index |-> wn]
      BY WrittenLemma
    <2> HIDE DEF wmn, wn, a, rmn
    <2>2. ring' = [Written(s) EXCEPT !.read_mirror = rmn, !.read_index = a]
      BY DEF rmn, a
    <2> DEFINE x == Written(s)
    <2> HIDE DEF x
    <2>3. x = [buffer |-> Stores(s), read_mirror |-> rm, read_index |-> r,
               write_mirror |-> wmn, write_index |-> wn]
      BY <2>1 DEF x
    <2>4. ring' = [x EXCEPT !.read_mirror = rmn, !.read_index = a]
      BY <2>2 DEF x
    <2> QED BY ONLY <2>3, <2>4
  <1>7. /\ d \in 0 .. N /\ d <= e + m /\ e + m - d <= N /\ d <= e
        /\ d = IF e + m > N THEN e + m - N ELSE 0
    BY <1>1
  <1>8. /\ kept' \in Seq(Bytes) /\ Len(kept') = e + m - d
        /\ \A k \in 0 .. e + m - d - 1 :
               kept'[k + 1] = IF k + d < e THEN kept[k + d + 1] ELSE s[k + d - e + 1]
    OBVIOUS
  <1> HIDE DEF N, r, w, rm, wm, e, m
  <1>9. HeldFrom(d, kept, ring.buffer, N, r)
    BY <1>4, <1>7 DEF HeldFrom, e
  <1>10. a \in 0 .. N - 1 /\ wn \in 0 .. N - 1
    BY <1>1, <1>7, AroundLemma
  <1>11. (rmn # wmn) <=> (a + (e + m - d) >= N)
    <2>1. CASE r + e >= N
      <3>1. w = r + e - N /\ rm # wm
        BY <1>1, <1>2, <1>3, <2>1 DEF Around
      <3>2. CASE e + m > N
        <4>1. d = e + m - N /\ e + m - d = N
          BY ONLY <1>1, <1>7, <3>2
        <4>2. r + d >= N <=> w + m >= N
          BY ONLY <1>1, <3>1, <4>1
        <4>3. a + (e + m - d) >= N
          BY <1>1, <1>10, <4>1
        <4> QED BY <1>1, <3>1, <4>2, <4>3
      <3>3. CASE ~(e + m > N)
        <4>1. a = r /\ ~(r + d >= N) /\ d = 0
          BY <1>1, <1>7, <3>3 DEF Around
        <4>2. ~(w + m >= N) /\ a + (e + m - d) >= N
          BY <1>1, <2>1, <3>1, <3>3, <4>1
        <4> QED BY <1>1, <3>1, <4>1, <4>2
      <3> QED BY <3>2, <3>3
    <2>2. CASE ~(r + e >= N)
      <3>1. w = r + e /\ rm = wm
        BY <1>1, <1>2, <1>3, <2>2 DEF Around
      <3>2. CASE e + m > N
        <4>1. d = e + m - N /\ e + m - d = N
          BY ONLY <1>1, <1>7, <3>2
        <4>2. ~(r + d >= N) /\ w + m >= N
          BY ONLY <1>1, <2>2, <3>1, <3>2, <4>1
        <4>3. a + (e + m - d) >= N
          BY <1>1, <1>10, <4>1
        <4> QED BY <1>1, <3>1, <4>2, <4>3
      <3>3. CASE ~(e + m > N)
        <4>1. a = r /\ ~(r + d >= N) /\ d = 0
          BY <1>1, <1>7, <3>3 DEF Around
        <4>2. w + m >= N <=> a + (e + m - d) >= N
          BY <1>1, <3>1, <4>1
        <4> QED BY <1>1, <3>1, <4>1, <4>2
      <3> QED BY <3>2, <3>3
    <2> QED BY <2>1, <2>2
  <1>12. rmn \in BOOLEAN /\ wmn \in BOOLEAN
    BY <1>1
  <1>13. HeldFrom(0, kept', Stores(s), N, a) /\ Around(N, a + (e + m - d)) = wn
    <2> DEFINE p == kept'
               g == Stores(s)
               f == ring.buffer
    <2>1. Len(kept) = e /\ Len(s) = m /\ Len(p) = e + m - d
      BY <1>8 DEF e, m
    <2>2. \A k \in 0 .. e + m - d - 1 :
              p[k + 1] = IF k + d < e THEN kept[k + d + 1] ELSE s[k + d - e + 1]
      BY <1>8
    <2>3. \A k \in 0 .. N - 1 :
              g[Around(N, w + k)] = IF k < m THEN s[k + 1] ELSE f[Around(N, w + k)]
      BY <1>5
    <2>4. HeldFrom(d, kept, f, N, r)
      BY <1>9
    <2> HIDE DEF p, g, f
    <2>5. IsBlockWrite(N, r, d, f, g, kept, s, p)
      <3>1. /\ N \in Nat \ {0} /\ r \in 0 .. N - 1
            /\ Len(kept) \in 0 .. N /\ d \in 0 .. N /\ Len(s) \in 0 .. N
            /\ d <= Len(kept) + Len(s) /\ Len(kept) + Len(s) - d <= N
            /\ Len(p) = Len(kept) + Len(s) - d
        BY <1>1, <1>7, <2>1
      <3>2. \A k \in 0 .. N - 1 :
                g[Around(N, Around(N, r + Len(kept)) + k)] =
                    IF k < Len(s) THEN s[k + 1]
                    ELSE f[Around(N, Around(N, r + Len(kept)) + k)]
        BY <1>2, <2>1, <2>3
      <3>3. \A k \in 0 .. Len(p) - 1 :
                p[k + 1] = IF k + d < Len(kept) THEN kept[k + d + 1] ELSE s[k + d - Len(kept) + 1]
        <4> TAKE k \in 0 .. Len(p) - 1
        <4>1. k \in 0 .. e + m - d - 1
          BY <1>1, <1>7, <2>1
        <4>2. p[k + 1] = IF k + d < e THEN kept[k + d + 1] ELSE s[k + d - e + 1]
          BY <2>2, <4>1
        <4> QED BY <2>1, <4>2
      <3> QED BY ONLY <2>4, <3>1, <3>2, <3>3 DEF IsBlockWrite
    <2>6. HeldFrom(0, p, g, N, Around(N, r + d))
          /\ Around(N, Around(N, r + d) + Len(p)) = Around(N, Around(N, r + Len(kept)) + Len(s))
      BY ONLY <2>5, BlockWritten
    <2> QED BY <1>2, <2>1, <2>6 DEF p, g, a, wn
  <1>14. ring' \in Ring
    BY <1>5, <1>6, <1>10, <1>12 DEF Ring, N
  <1> HIDE DEF rmn, wmn, a, wn
  <1>15. /\ ring'.buffer = Stores(s) /\ ring'.read_index = a /\ ring'.write_index = wn
         /\ ring'.read_mirror = rmn /\ ring'.write_mirror = wmn
    BY ONLY <1>6
  <1>16. Len(kept') <= N
    BY <1>7, <1>8
  <1>17. (ring'.read_mirror # ring'.write_mirror) <=> (ring'.read_index + Len(kept') >= RingSize)
    BY <1>8, <1>11, <1>15 DEF N
  <1>18. ring'.write_index = Around(RingSize, ring'.read_index + Len(kept'))
    BY <1>8, <1>13, <1>15 DEF N
  <1>19. HeldFrom(0, kept', ring'.buffer, RingSize, ring'.read_index)
    BY <1>13, <1>15 DEF N
  <1> QED BY <1>8, <1>14, <1>16, <1>17, <1>18, <1>19 DEF RingIInv, N

(* n characters are read. *)
LEMMA RingDropStep ==
    ASSUME RingIInv, NEW n \in 0 .. Len(kept), ring' = Read(n),
           kept' \in Seq(Bytes), Len(kept') = Len(kept) - n,
           \A i \in 1 .. Len(kept') : kept'[i] = kept[n + i]
    PROVE  RingIInv'
  <1> DEFINE N == RingSize
             r == ring.read_index
             w == ring.write_index
             rm == ring.read_mirror
             wm == ring.write_mirror
             e == Len(kept)
             a == Around(N, r + n)
             rmn == IF r + n >= N THEN ~rm ELSE rm
             f == ring.buffer
             p == kept'
  <1>1. /\ N \in Nat \ {0} /\ r \in 0 .. N - 1 /\ w \in 0 .. N - 1 /\ e \in 0 .. N /\ n \in 0 .. e
        /\ n \in 0 .. N
    <2>1. ring \in Ring /\ kept \in Seq(Bytes) /\ e <= N
      BY DEF RingIInv
    <2>2. N \in Nat \ {0}
      BY RingAssumption
    <2> QED BY <2>1, <2>2 DEF Ring
  <1>2. rm \in BOOLEAN /\ wm \in BOOLEAN /\ f \in [0 .. N - 1 -> Bytes \cup {NoByte}]
    BY DEF RingIInv, Ring
  <1>3. w = Around(N, r + e)
    BY DEF RingIInv
  <1>4. (rm # wm) <=> (r + e >= N)
    BY DEF RingIInv
  <1>5. HeldFrom(0, kept, f, N, r)
    BY DEF RingIInv
  <1>6. ring' = [buffer |-> f, read_mirror |-> rmn, read_index |-> a,
                 write_mirror |-> wm, write_index |-> w]
    BY <1>1, ReadLemma
  <1>7. /\ p \in Seq(Bytes) /\ Len(p) = e - n /\ Len(kept) = e
        /\ \A i \in 1 .. Len(p) : p[i] = kept[n + i]
    OBVIOUS
  <1> HIDE DEF N, r, w, rm, wm, e, f, p
  <1>8. HeldFrom(0, p, f, N, a) /\ a \in 0 .. N - 1 /\ Around(N, a + Len(p)) = w
    <2> DEFINE z == 0
    <2>1. /\ Len(kept) \in 0 .. N /\ n \in 0 .. Len(kept) /\ Len(p) = Len(kept) - n
          /\ z \in Nat /\ N \in Nat \ {0} /\ r \in 0 .. N - 1
          /\ (IF z > n THEN z - n ELSE 0) = 0
      BY <1>1, <1>7
    <2>2. \A i \in 1 .. Len(p) : p[i] = kept[n + i]
      BY <1>7
    <2> HIDE DEF z
    <2>3. IsBlockRead(N, r, z, f, kept, n, p)
      BY <1>5, <2>1, <2>2 DEF IsBlockRead, z
    <2>4. /\ HeldFrom(IF z > n THEN z - n ELSE 0, p, f, N, Around(N, r + n))
          /\ Around(N, r + n) \in 0 .. N - 1
          /\ Around(N, Around(N, r + n) + Len(p)) = Around(N, r + Len(kept))
      BY ONLY <2>3, BlockRead
    <2> QED BY <1>3, <1>7, <2>1, <2>4 DEF a
  <1>9. (rmn # wm) <=> (a + Len(p) >= N)
    <2>1. (a + Len(p) >= N) <=> (IF r + n >= N THEN FALSE ELSE r + e >= N)
      BY <1>1, <1>7 DEF Around
    <2>2. CASE r + n >= N
      <3>1. rm # wm
        BY <1>1, <1>4, <2>2
      <3> QED BY <1>2, <2>1, <2>2, <3>1
    <2>3. CASE ~(r + n >= N)
      BY <1>4, <2>1, <2>3
    <2> QED BY <2>2, <2>3
  <1>10. rmn \in BOOLEAN
    BY <1>2
  <1>11. ring' \in Ring
    BY <1>1, <1>2, <1>6, <1>8, <1>10 DEF Ring, N
  <1> HIDE DEF rmn, a
  <1>12. /\ ring'.buffer = f /\ ring'.read_index = a /\ ring'.write_index = w
         /\ ring'.read_mirror = rmn /\ ring'.write_mirror = wm
    BY ONLY <1>6
  <1>13. Len(kept') <= N /\ kept' \in Seq(Bytes)
    BY <1>1, <1>7 DEF p
  <1>14. (ring'.read_mirror # ring'.write_mirror) <=> (ring'.read_index + Len(kept') >= RingSize)
    BY <1>9, <1>12 DEF N, p
  <1>15. ring'.write_index = Around(RingSize, ring'.read_index + Len(kept'))
    BY <1>8, <1>12 DEF N, p
  <1>16. HeldFrom(0, kept', ring'.buffer, RingSize, ring'.read_index)
    BY <1>8, <1>12 DEF N, p
  <1> QED BY <1>11, <1>13, <1>14, <1>15, <1>16 DEF RingIInv, N

-----------------------------------------------------------------------------
(* What the operations keep *)

LEMMA Without1stLemma ==
    ASSUME NEW S, NEW q \in Seq(S), NEW n \in 0 .. Len(q)
    PROVE  /\ Without1st(q, n) \in Seq(S) /\ Len(Without1st(q, n)) = Len(q) - n
           /\ \A i \in 1 .. Len(Without1st(q, n)) : Without1st(q, n)[i] = q[n + i]
  <1> DEFINE p == SubSeq(q, n + 1, Len(q))
  <1>1. /\ p \in Seq(S) /\ Len(p) = Len(q) - n
        /\ \A i \in 1 .. Len(q) - n : p[i] = q[(n + 1) + i - 1]
    OBVIOUS
  <1> QED BY <1>1 DEF Without1st

LEMMA LatestLemma ==
    ASSUME NEW S, NEW s \in Seq(S)
    PROVE  LET n == Lesser(Len(s), RingSize) IN
           /\ n \in 0 .. Len(s) /\ n <= RingSize
           /\ Latest(s) \in Seq(S) /\ Len(Latest(s)) = n
           /\ \A i \in 1 .. n : Latest(s)[i] = s[(Len(s) - n) + i]
  <1> DEFINE n == Lesser(Len(s), RingSize)
             p == Latest(s)
  <1>1. n \in 0 .. Len(s) /\ n <= RingSize
    BY RingAssumption DEF Lesser
  <1> HIDE DEF n
  <1>2. p = SubSeq(s, Len(s) - n + 1, Len(s))
    BY DEF Latest, n
  <1>3. p \in Seq(S) /\ Len(p) = n
    BY <1>1, <1>2
  <1>4. \A i \in 1 .. n : p[i] = s[(Len(s) - n) + i]
    BY <1>1, <1>2
  <1> QED BY <1>1, <1>3, <1>4 DEF n

(* Of what is kept and a block behind it, the latest: with the latest of    *)
(* the block, as many of the others as there is room for.                  *)
LEMMA LatestOfBoth ==
    ASSUME NEW S, NEW q \in Seq(S), Len(q) <= RingSize, NEW s \in Seq(S)
    PROVE  LET l == Latest(s)
               p == Latest(q \o s)
               d == IF Len(q) + Len(l) > RingSize THEN Len(q) + Len(l) - RingSize ELSE 0
           IN  /\ p \in Seq(S) /\ Len(p) = Len(q) + Len(l) - d
               /\ \A k \in 0 .. Len(q) + Len(l) - d - 1 :
                     p[k + 1] = IF k + d < Len(q) THEN q[k + d + 1] ELSE l[k + d - Len(q) + 1]
  <1> DEFINE N == RingSize
             e == Len(q)
             c == Len(s)
             l == Latest(s)
             b == q \o s
             p == Latest(b)
             m == Lesser(c, N)
             n == Lesser(Len(b), N)
             d == IF e + m > N THEN e + m - N ELSE 0
  <1>1. N \in Nat \ {0} /\ e \in 0 .. N /\ c \in Nat
    BY RingAssumption
  <1>2. b \in Seq(S) /\ Len(b) = e + c
    OBVIOUS
  <1>3. \A i \in 1 .. e + c : b[i] = IF i <= e THEN q[i] ELSE s[i - e]
    OBVIOUS
  <1> HIDE DEF b
  <1>4. /\ l \in Seq(S) /\ Len(l) = m /\ m \in 0 .. c
        /\ \A i \in 1 .. m : l[i] = s[(c - m) + i]
    BY LatestLemma
  <1>5. /\ p \in Seq(S) /\ Len(p) = n /\ n \in 0 .. Len(b)
        /\ \A i \in 1 .. n : p[i] = b[(Len(b) - n) + i]
    BY <1>2, LatestLemma
  <1>6. n = e + m - d /\ Len(b) - n = (c - m) + d /\ (c > m => d = e)
    <2> HIDE DEF e, c
    <2>1. m = IF c < N THEN c ELSE N
      BY DEF Lesser
    <2>2. n = IF e + c < N THEN e + c ELSE N
      BY <1>2 DEF Lesser
    <2>3. d = IF e + m > N THEN e + m - N ELSE 0
      OBVIOUS
    <2> HIDE DEF m, n, d
    <2>4. CASE c < N
      BY ONLY <1>1, <1>2, <2>1, <2>2, <2>3, <2>4
    <2>5. CASE ~(c < N)
      BY ONLY <1>1, <1>2, <2>1, <2>2, <2>3, <2>5
    <2> QED BY <2>4, <2>5
  <1>7. m \in Nat /\ d \in Nat /\ n \in Nat
    BY <1>1, <1>4, <1>5, <1>2
  <1> HIDE DEF l, p, m, n, d, N, e, c
  <1>8. ASSUME NEW k \in 0 .. e + m - d - 1
        PROVE  p[k + 1] = IF k + d < e THEN q[k + d + 1] ELSE l[k + d - e + 1]
    <2>1. k + 1 \in 1 .. n
      BY <1>1, <1>6, <1>7
    <2>2. p[k + 1] = b[(c - m) + d + (k + 1)]
      <3>1. p[k + 1] = b[(Len(b) - n) + (k + 1)]
        BY <1>5, <2>1
      <3> QED BY <1>6, <3>1
    <2>3. CASE k + d < e
      <3>1. c = m
        <4>1. c \in Nat /\ m \in Nat /\ m <= c /\ d \in Nat /\ e \in Nat /\ k \in Nat
          BY <1>1, <1>4, <1>7
        <4>2. d # e
          BY <2>3, <4>1
        <4> QED BY <1>6, <4>1, <4>2
      <3>2. /\ (c - m) + d + (k + 1) = k + d + 1 /\ k + d + 1 \in 1 .. e + c
            /\ k + d + 1 <= e
        BY <1>1, <1>7, <2>3, <3>1
      <3> QED BY <1>3, <2>2, <2>3, <3>2
    <2>4. CASE ~(k + d < e)
      <3> DEFINE i == (c - m) + d + (k + 1)
                 j == k + d - e + 1
      <3>1. /\ i \in 1 .. e + c /\ ~(i <= e) /\ j \in 1 .. m
            /\ i - e = (c - m) + j
        <4>1. k + d >= e /\ k + d + 1 <= e + m /\ k \in Nat
          BY <1>1, <1>7, <2>4
        <4>2. c - m \in Nat
          BY <1>1, <1>4
        <4> QED BY <1>1, <1>7, <4>1, <4>2
      <3>2. p[k + 1] = b[i]
        BY <2>2
      <3> HIDE DEF i, j
      <3>3. b[i] = s[i - e] /\ l[j] = s[(c - m) + j]
        BY <1>3, <1>4, <3>1
      <3>4. p[k + 1] = l[j]
        BY <3>1, <3>2, <3>3
      <3> QED BY <2>4, <3>4 DEF j
    <2> QED BY <2>3, <2>4
  <1>9. d = IF e + Len(l) > N THEN e + Len(l) - N ELSE 0
    BY <1>4 DEF d
  <1> QED BY <1>4, <1>5, <1>6, <1>8, <1>9 DEF l, p, b, N, e, c

LEMMA LatestShort ==
    ASSUME NEW S, NEW s \in Seq(S), Len(s) <= RingSize
    PROVE  Latest(s) = s
  <1> DEFINE n == Lesser(Len(s), RingSize)
             p == Latest(s)
  <1>1. n = Len(s)
    BY RingAssumption DEF Lesser
  <1>2. /\ p \in Seq(S) /\ Len(p) = n
        /\ \A i \in 1 .. n : p[i] = s[(Len(s) - n) + i]
    BY LatestLemma
  <1> HIDE DEF n, p
  <1>3. \A i \in 1 .. Len(s) : p[i] = s[i]
    BY <1>1, <1>2
  <1>4. p \in [1 .. Len(s) -> S] /\ s \in [1 .. Len(s) -> S]
    BY <1>1, <1>2
  <1> QED BY <1>3, <1>4 DEF p

(* What has room is written and the reader left alone. *)
LEMMA RingFitsStep ==
    ASSUME RingIInv, NEW s \in Seq(Bytes), Len(kept) + Len(s) <= RingSize,
           ring' = Written(s), kept' = kept \o s
    PROVE  RingIInv'
  <1> DEFINE d == 0
             rm == IF ring.read_index + d >= RingSize THEN ~ring.read_mirror ELSE ring.read_mirror
             ri == Around(RingSize, ring.read_index + d)
  <1>1. /\ RingSize \in Nat \ {0} /\ ring.read_index \in 0 .. RingSize - 1
        /\ kept \in Seq(Bytes) /\ Len(kept) \in Nat /\ Len(s) \in Nat
    BY RingAssumption DEF RingIInv, Ring
  <1>2. rm = ring.read_mirror /\ ri = ring.read_index
    BY <1>1 DEF Around
  <1>3. /\ Len(s) <= RingSize
        /\ d = IF Len(kept) + Len(s) > RingSize THEN Len(kept) + Len(s) - RingSize ELSE 0
    BY <1>1
  <1>4. ring' = [Written(s) EXCEPT !.read_mirror = rm, !.read_index = ri]
    <2> DEFINE w == ring.write_index + Len(s)
               g == Stores(s)
               wm == IF w >= RingSize THEN ~ring.write_mirror ELSE ring.write_mirror
               wi == Around(RingSize, w)
               x == Written(s)
    <2>1. x = [buffer |-> g, read_mirror |-> ring.read_mirror, read_index |-> ring.read_index,
               write_mirror |-> wm, write_index |-> wi]
      BY <1>3, WrittenLemma
    <2> DEFINE y == [x EXCEPT !.read_mirror = rm, !.read_index = ri]
    <2>2. y = [x EXCEPT !.read_mirror = rm, !.read_index = ri]
      OBVIOUS
    <2> HIDE DEF w, g, wm, wi, x, y, rm, ri
    <2>3. y = [buffer |-> g, read_mirror |-> rm, read_index |-> ri,
               write_mirror |-> wm, write_index |-> wi]
      BY ONLY <2>1, <2>2
    <2>4. y = x
      BY ONLY <1>2, <2>1, <2>3
    <2> QED BY <2>4 DEF x, y
  <1>5. kept' \in Seq(Bytes) /\ Len(kept') = Len(kept) + Len(s) - d
    BY <1>1
  <1>6. ASSUME NEW k \in 0 .. Len(kept) + Len(s) - d - 1
        PROVE  kept'[k + 1] = IF k + d < Len(kept) THEN kept[k + d + 1] ELSE s[k + d - Len(kept) + 1]
    <2>1. k + 1 \in 1 .. Len(kept) + Len(s) /\ k + d + 1 = k + 1
          /\ k + d - Len(kept) + 1 = (k + 1) - Len(kept) /\ (k + d < Len(kept) <=> k + 1 <= Len(kept))
      BY <1>1
    <2>2. (kept \o s)[k + 1] = IF k + 1 <= Len(kept) THEN kept[k + 1] ELSE s[(k + 1) - Len(kept)]
      BY <1>1, <2>1
    <2> QED BY <2>1, <2>2
  <1> HIDE DEF d
  <1> QED BY <1>3, <1>4, <1>5, <1>6, RingAddStep DEF rm, ri

LEMMA RingPutStep ==
    ASSUME RingIInv, NEW s \in Seq(Bytes), rt_ringbuffer_put(s)
    PROVE  RingIInv'
  <1> DEFINE space == RingSize - Len(kept)
             n == Lesser(Len(s), space)
             fits == SubSeq(s, 1, n)
  <1>1. /\ rt_ringbuffer_space_len = space /\ space \in Nat /\ kept \in Seq(Bytes)
        /\ Len(kept) \in Nat
    BY RingLengths, RingAssumption DEF rt_ringbuffer_space_len, RingIInv
  <1>2. n \in 0 .. Len(s) /\ n <= space
    BY <1>1 DEF Lesser
  <1>3. fits \in Seq(Bytes) /\ Len(fits) = n
    BY <1>2
  <1>4. ring' = (IF space = 0 THEN ring ELSE Written(fits)) /\ kept' = kept \o fits
    BY <1>1 DEF rt_ringbuffer_put
  <1>5. CASE space = 0
    <2>1. fits = <<>>
      BY <1>2, <1>3, <1>5
    <2> HIDE DEF fits
    <2>2. ring' = ring /\ kept' = kept
      BY <1>1, <1>4, <1>5, <2>1
    <2> QED BY <2>2 DEF RingIInv
  <1>6. CASE space # 0
    <2>1. Len(kept) + Len(fits) <= RingSize
      BY <1>1, <1>2, <1>3, RingAssumption
    <2>2. ring' = Written(fits) /\ kept' = kept \o fits
      BY <1>4, <1>6
    <2> HIDE DEF fits
    <2> QED BY <1>3, <2>1, <2>2, RingFitsStep
  <1> QED BY <1>5, <1>6

(* The reader that a forced write has overtaken: where the code puts it and *)
(* its mirror bit.                                                         *)
LEMMA OvertakenLemma ==
    ASSUME RingIInv, NEW s \in Seq(Bytes), Len(s) <= RingSize,
           Len(kept) + Len(s) > RingSize
    PROVE  LET d == Len(kept) + Len(s) - RingSize
               written == Written(s)
           IN  /\ written.write_index = Around(RingSize, ring.read_index + d)
               /\ written.read_mirror = ring.read_mirror
               /\ (Crosses(ring.write_index, Len(s)) /\ written.write_index <= ring.read_index)
                      <=> ring.read_index + d >= RingSize
               /\ Len(kept) = RingSize =>
                      (Crosses(ring.write_index, Len(s)) <=> ring.write_index + Len(s) >= RingSize)
                      /\ ring.write_index = ring.read_index
  <1> DEFINE N == RingSize
             r == ring.read_index
             w == ring.write_index
             e == Len(kept)
             m == Len(s)
             written == Written(s)
  <1>1. /\ N \in Nat \ {0} /\ r \in 0 .. N - 1 /\ w \in 0 .. N - 1 /\ e \in 0 .. N /\ m \in 0 .. N
        /\ e + m > N
    <2>1. ring \in Ring /\ kept \in Seq(Bytes) /\ e <= N
      BY DEF RingIInv
    <2>2. N \in Nat \ {0}
      BY RingAssumption
    <2> QED BY <2>1, <2>2 DEF Ring
  <1>2. w = Around(N, r + e)
    BY DEF RingIInv
  <1>3. written.write_index = Around(N, w + m) /\ written.read_mirror = ring.read_mirror
    <2> DEFINE wm == IF w + m >= N THEN ~ring.write_mirror ELSE ring.write_mirror
    <2>1. written = [buffer |-> Stores(s), read_mirror |-> ring.read_mirror, read_index |-> r,
                     write_mirror |-> wm, write_index |-> Around(N, w + m)]
      BY WrittenLemma
    <2> HIDE DEF wm, written, w, m, N, r
    <2> QED BY ONLY <2>1
  <1>4. Crosses(w, m) <=> w + m >= N
    BY <1>1 DEF Crosses
  <1> HIDE DEF N, r, w, e, m, written
  <1>5. Around(N, w + m) = Around(N, r + (e + m - N))
    BY ONLY <1>1, <1>2 DEF Around
  <1>6. (w + m >= N /\ Around(N, w + m) <= r) <=> r + (e + m - N) >= N
    BY ONLY <1>1, <1>2 DEF Around
  <1>7. e = N => w = r
    BY ONLY <1>1, <1>2 DEF Around
  <1> QED BY <1>3, <1>4, <1>5, <1>6, <1>7 DEF N, r, w, e, m, written

LEMMA RingForceStep ==
    ASSUME RingIInv, NEW s \in Seq(Bytes), rt_ringbuffer_put_force(s)
    PROVE  RingIInv'
  <1> DEFINE l == Latest(s)
             d == IF Len(kept) + Len(l) > RingSize THEN Len(kept) + Len(l) - RingSize ELSE 0
             p == Latest(kept \o s)
             written == Written(l)
  <1>1. kept \in Seq(Bytes) /\ Len(kept) <= RingSize /\ Len(kept) \in Nat /\ RingSize \in Nat \ {0}
    BY RingAssumption DEF RingIInv
  <1>2. l \in Seq(Bytes) /\ Len(l) <= RingSize
    BY LatestLemma
  <1>3. /\ p \in Seq(Bytes) /\ Len(p) = Len(kept) + Len(l) - d
        /\ \A k \in 0 .. Len(kept) + Len(l) - d - 1 :
               p[k + 1] = IF k + d < Len(kept) THEN kept[k + d + 1] ELSE l[k + d - Len(kept) + 1]
    BY <1>1, LatestOfBoth
  <1>4. kept' = p
    BY DEF rt_ringbuffer_put_force
  <1>5. Len(l) > rt_ringbuffer_space_len <=> Len(kept) + Len(l) > RingSize
    BY <1>1, <1>2, RingLengths DEF rt_ringbuffer_space_len
  <1>6. /\ Len(kept) + Len(l) <= RingSize => ring' = written
        /\ Len(kept) + Len(l) > RingSize =>
               ring' = [written EXCEPT
                           !.read_mirror = IF /\ Crosses(ring.write_index, Len(l))
                                              /\ written.write_index <= ring.read_index
                                           THEN ~@ ELSE @,
                           !.read_index = written.write_index]
    BY <1>1, <1>2, <1>5 DEF rt_ringbuffer_put_force
  <1> HIDE DEF l, p
  <1>7. CASE Len(kept) + Len(l) <= RingSize
    <2>1. ring' = Written(l) /\ d = 0
      BY <1>1, <1>2, <1>6, <1>7
    <2>2. p = kept \o l
      <3> DEFINE b == kept \o l
      <3>1. b \in Seq(Bytes) /\ Len(b) = Len(kept) + Len(l)
        BY <1>1, <1>2
      <3>2. \A i \in 1 .. Len(b) : b[i] = IF i <= Len(kept) THEN kept[i] ELSE l[i - Len(kept)]
        BY <1>1, <1>2
      <3> HIDE DEF b, d
      <3>3. Len(p) = Len(b) /\ p \in Seq(Bytes)
        BY <1>1, <1>2, <1>3, <2>1, <3>1
      <3>4. ASSUME NEW i \in 1 .. Len(b) PROVE p[i] = b[i]
        <4> DEFINE k == i - 1
        <4>1. /\ k \in 0 .. Len(kept) + Len(l) - d - 1 /\ k + 1 = i /\ k + d + 1 = i
              /\ k + d - Len(kept) + 1 = i - Len(kept) /\ (k + d < Len(kept) <=> i <= Len(kept))
          BY <1>1, <1>2, <2>1, <3>1
        <4> HIDE DEF k
        <4>2. p[k + 1] = IF k + d < Len(kept) THEN kept[k + d + 1] ELSE l[k + d - Len(kept) + 1]
          BY <1>3, <4>1
        <4> QED BY <3>2, <4>1, <4>2
      <3>5. b \in [1 .. Len(b) -> Bytes] /\ p \in [1 .. Len(b) -> Bytes]
        BY <3>1, <3>3
      <3> HIDE DEF p
      <3>6. p = b
        BY ONLY <3>4, <3>5
      <3> QED BY <3>6 DEF b
    <2> QED BY <1>2, <1>4, <1>7, <2>1, <2>2, RingFitsStep
  <1>8. CASE Len(kept) + Len(l) > RingSize
    <2> DEFINE rm == IF ring.read_index + d >= RingSize THEN ~ring.read_mirror ELSE ring.read_mirror
               ri == Around(RingSize, ring.read_index + d)
    <2>1. d = Len(kept) + Len(l) - RingSize
      BY <1>8
    <2>2. /\ written.write_index = ri /\ written.read_mirror = ring.read_mirror
          /\ (Crosses(ring.write_index, Len(l)) /\ written.write_index <= ring.read_index)
                 <=> ring.read_index + d >= RingSize
      BY <1>2, <1>8, <2>1, OvertakenLemma
    <2> DEFINE over == Crosses(ring.write_index, Len(l)) /\ written.write_index <= ring.read_index
    <2>3. ring' = [written EXCEPT
                      !.read_mirror = IF over THEN ~ring.read_mirror ELSE ring.read_mirror,
                      !.read_index = ri]
      BY <1>6, <1>8, <2>2, WrittenLemma, <1>2
    <2>4. ring' = [Written(l) EXCEPT !.read_mirror = rm, !.read_index = ri]
      BY <2>2, <2>3
    <2>5. kept' \in Seq(Bytes) /\ Len(kept') = Len(kept) + Len(l) - d
      BY <1>3, <1>4
    <2>6. \A k \in 0 .. Len(kept) + Len(l) - d - 1 :
             kept'[k + 1] = IF k + d < Len(kept) THEN kept[k + d + 1] ELSE l[k + d - Len(kept) + 1]
      BY <1>3, <1>4
    <2> QED BY <1>2, <2>4, <2>5, <2>6, RingAddStep
  <1> QED BY <1>1, <1>2, <1>7, <1>8

LEMMA RingCharLemma ==
    ASSUME RingIInv, NEW ch \in Bytes
    PROVE  /\ <<ch>> \in Seq(Bytes) /\ Len(<<ch>>) = 1 /\ Len(<<ch>>) <= RingSize
           /\ Append(kept, ch) = kept \o <<ch>> /\ Latest(<<ch>>) = <<ch>>
           /\ kept \in Seq(Bytes)
  <1>1. kept \in Seq(Bytes) /\ RingSize \in Nat \ {0}
    BY RingAssumption DEF RingIInv
  <1>2. <<ch>> \in Seq(Bytes) /\ Len(<<ch>>) = 1 /\ Len(<<ch>>) <= RingSize
    BY <1>1
  <1>3. Append(kept, ch) = kept \o <<ch>>
    BY <1>1
  <1>4. Latest(<<ch>>) = <<ch>>
    BY <1>2, LatestShort
  <1> QED BY <1>1, <1>2, <1>3, <1>4

LEMMA RingPutcharStep ==
    ASSUME RingIInv, NEW ch \in Bytes, rt_ringbuffer_putchar(ch)
    PROVE  RingIInv'
  <1> DEFINE s == <<ch>>
  <1>1. s \in Seq(Bytes) /\ Len(s) = 1 /\ Append(kept, ch) = kept \o s
    BY RingCharLemma
  <1>2. RingSize - Len(kept) > 0 /\ RingSize \in Nat /\ Len(kept) \in Nat
    BY RingLengths, RingAssumption DEF rt_ringbuffer_putchar, rt_ringbuffer_space_len
  <1>3. Len(kept) + Len(s) <= RingSize
    BY <1>1, <1>2
  <1>4. ring' = Written(s) /\ kept' = kept \o s
    BY <1>1 DEF rt_ringbuffer_putchar
  <1> HIDE DEF s
  <1> QED BY <1>1, <1>3, <1>4, RingFitsStep

(* A full buffer gives up the oldest character. *)
LEMMA RingPutcharForceStep ==
    ASSUME RingIInv, NEW ch \in Bytes, rt_ringbuffer_putchar_force(ch)
    PROVE  RingIInv'
  <1> DEFINE s == <<ch>>
             d == IF Len(kept) + Len(s) > RingSize THEN Len(kept) + Len(s) - RingSize ELSE 0
             p == Latest(kept \o s)
             written == Written(s)
  <1>1. /\ s \in Seq(Bytes) /\ Len(s) = 1 /\ Len(s) <= RingSize
        /\ Append(kept, ch) = kept \o s /\ Latest(s) = s /\ kept \in Seq(Bytes)
    BY RingCharLemma
  <1>2. Full <=> Len(kept) = RingSize
    BY RingLengths
  <1>3. Len(kept) \in 0 .. RingSize /\ RingSize \in Nat \ {0}
    BY RingLengths, RingAssumption
  <1>4. kept' = p
    BY <1>1 DEF rt_ringbuffer_putchar_force
  <1>5. /\ ~Full => ring' = written
        /\ Full => ring' = [written EXCEPT
                               !.read_mirror = IF Crosses(ring.write_index, 1) THEN ~@ ELSE @,
                               !.read_index = written.write_index]
    BY DEF rt_ringbuffer_putchar_force
  <1>6. /\ p \in Seq(Bytes) /\ Len(p) = Len(kept) + Len(s) - d
        /\ \A k \in 0 .. Len(kept) + Len(s) - d - 1 :
               p[k + 1] = IF k + d < Len(kept) THEN kept[k + d + 1] ELSE s[k + d - Len(kept) + 1]
    <2> DEFINE l == Latest(s)
               c == IF Len(kept) + Len(l) > RingSize THEN Len(kept) + Len(l) - RingSize ELSE 0
    <2> HIDE DEF s
    <2>1. Len(kept) <= RingSize
      BY <1>3
    <2>2. /\ p \in Seq(Bytes) /\ Len(p) = Len(kept) + Len(l) - c
          /\ \A k \in 0 .. Len(kept) + Len(l) - c - 1 :
                 p[k + 1] = IF k + c < Len(kept) THEN kept[k + c + 1] ELSE l[k + c - Len(kept) + 1]
      BY <1>1, <2>1, LatestOfBoth
    <2>3. l = s /\ c = d
      BY <1>1
    <2> HIDE DEF l, c, d, p
    <2> QED BY <2>2, <2>3
  <1> HIDE DEF s, p
  <1>7. CASE ~Full
    <2>1. Len(kept) + Len(s) <= RingSize /\ ring' = Written(s)
      BY <1>1, <1>2, <1>3, <1>5, <1>7
    <2>2. p = kept \o s
      <3>1. kept \o s \in Seq(Bytes) /\ Len(kept \o s) <= RingSize
        BY <1>1, <1>3, <2>1
      <3> QED BY <3>1, LatestShort DEF p
    <2> QED BY <1>1, <1>4, <2>1, <2>2, RingFitsStep
  <1>8. CASE Full
    <2> DEFINE rm == IF ring.read_index + d >= RingSize THEN ~ring.read_mirror ELSE ring.read_mirror
               ri == Around(RingSize, ring.read_index + d)
    <2>1. Len(kept) = RingSize /\ Len(kept) + Len(s) > RingSize /\ d = 1
          /\ d = Len(kept) + Len(s) - RingSize
      BY <1>1, <1>2, <1>3, <1>8
    <2>2. /\ written.write_index = ri /\ written.read_mirror = ring.read_mirror
          /\ Crosses(ring.write_index, Len(s)) <=> ring.write_index + Len(s) >= RingSize
          /\ ring.write_index = ring.read_index
      BY <1>1, <2>1, OvertakenLemma
    <2>3. Crosses(ring.write_index, 1) <=> ring.read_index + d >= RingSize
      BY <1>1, <2>1, <2>2
    <2>4. ring' = [written EXCEPT !.read_mirror = IF Crosses(ring.write_index, 1)
                                                  THEN ~ring.read_mirror ELSE ring.read_mirror,
                                  !.read_index = ri]
      BY <1>1, <1>5, <1>8, <2>2, WrittenLemma
    <2>5. ring' = [Written(s) EXCEPT !.read_mirror = rm, !.read_index = ri]
      BY <2>3, <2>4
    <2>6. kept' \in Seq(Bytes) /\ Len(kept') = Len(kept) + Len(s) - d
      BY <1>4, <1>6
    <2>7. \A k \in 0 .. Len(kept) + Len(s) - d - 1 :
             kept'[k + 1] = IF k + d < Len(kept) THEN kept[k + d + 1] ELSE s[k + d - Len(kept) + 1]
      BY <1>4, <1>6
    <2> QED BY <1>1, <2>5, <2>6, <2>7, RingAddStep
  <1> QED BY <1>7, <1>8

LEMMA RingGetStep ==
    ASSUME RingIInv, NEW n \in Nat, rt_ringbuffer_get(n)
    PROVE  RingIInv'
  <1> DEFINE size == Lesser(n, Len(kept))
  <1>1. Len(kept) \in Nat /\ rt_ringbuffer_data_len = Len(kept) /\ kept \in Seq(Bytes)
    BY RingLengths DEF RingIInv
  <1>2. size \in 0 .. Len(kept)
    BY <1>1 DEF Lesser
  <1>3. ring' = (IF size = 0 THEN ring ELSE Read(size)) /\ kept' = Without1st(kept, size)
    BY <1>1 DEF rt_ringbuffer_get
  <1> HIDE DEF size
  <1>4. /\ kept' \in Seq(Bytes) /\ Len(kept') = Len(kept) - size
        /\ \A i \in 1 .. Len(kept') : kept'[i] = kept[size + i]
    BY <1>1, <1>2, <1>3, Without1stLemma
  <1>5. CASE size = 0
    <2>1. Len(kept') = Len(kept) /\ \A i \in 1 .. Len(kept) : kept'[i] = kept[i]
      BY <1>1, <1>4, <1>5
    <2>2. kept \in [1 .. Len(kept) -> Bytes] /\ kept' \in [1 .. Len(kept) -> Bytes]
      BY <1>1, <1>4, <2>1
    <2>3. kept' = kept /\ ring' = ring
      BY <1>3, <1>5, <2>1, <2>2
    <2> QED BY <2>3 DEF RingIInv
  <1>6. CASE size # 0
    BY <1>2, <1>3, <1>4, <1>6, RingDropStep
  <1> QED BY <1>5, <1>6

LEMMA RingPeakStep ==
    ASSUME RingIInv, rt_ringbuffer_peak
    PROVE  RingIInv'
  <1> DEFINE size == Lesser(Len(kept), RingSize - ring.read_index)
  <1>1. /\ Len(kept) \in Nat /\ rt_ringbuffer_data_len = Len(kept) /\ kept \in Seq(Bytes)
        /\ RingSize \in Nat /\ ring.read_index \in 0 .. RingSize - 1
    BY RingLengths, RingAssumption DEF RingIInv, Ring
  <1>2. size \in 0 .. Len(kept)
    BY <1>1 DEF Lesser
  <1>3. ring' = Read(size) /\ kept' = Without1st(kept, size)
    BY <1>1 DEF rt_ringbuffer_peak
  <1> HIDE DEF size
  <1>4. /\ kept' \in Seq(Bytes) /\ Len(kept') = Len(kept) - size
        /\ \A i \in 1 .. Len(kept') : kept'[i] = kept[size + i]
    BY <1>1, <1>2, <1>3, Without1stLemma
  <1> QED BY <1>2, <1>3, <1>4, RingDropStep

LEMMA RingResetStep ==
    ASSUME RingIInv, rt_ringbuffer_reset
    PROVE  RingIInv'
  <1>1. RingSize \in Nat \ {0} /\ 0 \in 0 .. RingSize - 1 /\ ring \in Ring
    BY RingAssumption DEF RingIInv
  <1>2. /\ ring' \in Ring /\ ring'.read_index = 0 /\ ring'.write_index = 0
        /\ ring'.read_mirror = ring'.write_mirror
    BY <1>1 DEF rt_ringbuffer_reset, Ring
  <1>3. kept' = <<>> /\ kept' \in Seq(Bytes) /\ Len(kept') = 0
    BY DEF rt_ringbuffer_reset
  <1> QED BY <1>1, <1>2, <1>3 DEF RingIInv, Around, HeldFrom

LEMMA RingNextLemma == RingIInv /\ (RingNext \/ UNCHANGED ringVars) => RingIInv'
  <1> SUFFICES ASSUME RingIInv, RingNext \/ UNCHANGED ringVars PROVE RingIInv'
    OBVIOUS
  <1>1. CASE UNCHANGED ringVars
    BY <1>1 DEF ringVars, RingIInv
  <1>2. ASSUME NEW s \in Blocks, rt_ringbuffer_put(s) \/ rt_ringbuffer_put_force(s) PROVE RingIInv'
    <2>1. s \in Seq(Bytes)
      BY RingAssumption
    <2> QED BY <1>2, <2>1, RingPutStep, RingForceStep
  <1>3. ASSUME NEW ch \in Bytes, rt_ringbuffer_putchar(ch) \/ rt_ringbuffer_putchar_force(ch)
        PROVE  RingIInv'
    BY <1>3, RingPutcharStep, RingPutcharForceStep
  <1>4. ASSUME NEW n \in 1 .. RingSize + 1, rt_ringbuffer_get(n) PROVE RingIInv'
    <2>1. n \in Nat
      BY RingAssumption
    <2> QED BY <1>4, <2>1, RingGetStep
  <1>5. CASE rt_ringbuffer_getchar
    <2>1. rt_ringbuffer_get(1) /\ 1 \in Nat
      BY <1>5 DEF rt_ringbuffer_getchar
    <2> QED BY <2>1, RingGetStep
  <1>6. CASE rt_ringbuffer_peak
    BY <1>6, RingPeakStep
  <1>7. CASE rt_ringbuffer_reset
    BY <1>7, RingResetStep
  <1> QED BY <1>1, <1>2, <1>3, <1>4, <1>5, <1>6, <1>7 DEF RingNext

(* What a ring buffer of any size hands out is exactly what was put and     *)
(* neither read nor overwritten, in order, whatever mix of blocks of any    *)
(* length and single characters, forced or not, is put and read.           *)
THEOREM RingHolds == Spec => []HoldsLatest
  <1>1. Init => RingIInv
    BY RingInitLemma DEF Init
  <1>2. RingIInv /\ [Next]_vars => RingIInv'
    <2>1. [Next]_vars => RingNext \/ UNCHANGED ringVars
      BY DEF Next, vars
    <2> QED BY <2>1, RingNextLemma
  <1> QED BY <1>1, <1>2, RingHoldsLatest, PTL DEF Spec

-----------------------------------------------------------------------------
(* Reception *)

(* How many of the oldest characters the DMA has already overwritten. *)
Overrun == IF Len(unread) + rx.pending > bufsz THEN Len(unread) + rx.pending - bufsz ELSE 0

(* The FIFO holds what is unread except for what the DMA has overrun, as    *)
(* many characters as its indices say.  By interrupt it is never full; by   *)
(* DMA is_full says so only while the indices meet.                        *)
RxHolds ==
    /\ rx \in Fifo
    /\ ~rx.dma => rx.pending = 0 /\ (rx.put_index = rx.get_index => ~rx.is_full)
    /\ rx.dma /\ rx.is_full => rx.put_index = rx.get_index
    /\ unread \in Seq(Chars \cup {Blank}) /\ Len(unread) = Received(rx)
    /\ HeldFrom(Overrun, unread, rx.buffer, bufsz, rx.get_index)

(* A shell that saw an empty FIFO and is about to take the semaphore finds  *)
(* it released if there is a character by then.                            *)
ShellKnows ==
    /\ shell \in {"read", "take", "asleep"} /\ rx_sem \in Nat /\ isr \in BOOLEAN
    /\ isr => ~rx.dma
    /\ ~isr /\ (shell = "asleep" \/ (shell = "take" /\ rx_sem = 0)) => Received(rx) = 0

RxIInv == RxHolds /\ ShellKnows

LEMMA ReceivedLemma ==
    ASSUME RxHolds
    PROVE  /\ bufsz \in Nat \ {0, 1} /\ Received(rx) \in 0 .. bufsz
           /\ rx.put_index = Around(bufsz, rx.get_index + Received(rx))
           /\ Received(rx) = bufsz <=> rx.put_index = rx.get_index /\ rx.is_full
           /\ Received(rx) = 0 <=> rx.put_index = rx.get_index /\ ~rx.is_full
  <1>1. /\ rx.put_index \in 0 .. bufsz - 1 /\ rx.get_index \in 0 .. bufsz - 1
        /\ rx.is_full \in BOOLEAN /\ bufsz \in Nat \ {0, 1}
    BY SerialRxAssumption DEF RxHolds, Fifo
  <1>2. CASE rx.put_index = rx.get_index
    BY <1>1, <1>2 DEF Received, Around
  <1>3. CASE rx.put_index > rx.get_index
    BY <1>1, <1>3 DEF Received, Around
  <1>4. CASE rx.put_index < rx.get_index
    BY <1>1, <1>4 DEF Received, Around
  <1> QED BY <1>1, <1>2, <1>3, <1>4

LEMMA RxImplies == RxIInv => ReceivedReachesShell
  <1> SUFFICES ASSUME RxIInv PROVE ReceivedReachesShell
    OBVIOUS
  <1> DEFINE e == Received(rx)
             T == Chars \cup {Blank}
  <1>1. e \in 0 .. bufsz /\ Len(unread) = e /\ bufsz \in Nat \ {0, 1}
    BY ReceivedLemma DEF RxIInv, RxHolds
  <1>2. rx \in Fifo /\ unread \in Seq(T) /\ HeldFrom(Overrun, unread, rx.buffer, bufsz, rx.get_index)
    BY DEF RxIInv, RxHolds
  <1>3. shell = "asleep" /\ ~isr => e = 0
    BY DEF RxIInv, ShellKnows
  <1>4. ASSUME e + rx.pending <= bufsz PROVE Stored = unread
    <2> HIDE DEF e, T
    <2>1. Overrun = 0
      BY <1>1, <1>2, <1>4 DEF Overrun, Fifo
    <2>2. IsRing(bufsz, T, rx.buffer, rx.get_index, e)
      BY <1>1, <1>2 DEF Fifo, IsRing, T
    <2>3. unread = RingEntries(rx.buffer, bufsz, rx.get_index, e)
      BY <1>1, <1>2, <2>1, <2>2, HeldEntries
    <2> QED BY <2>3 DEF Stored, RingEntries, e
  <1> QED BY <1>2, <1>3, <1>4 DEF ReceivedReachesShell

LEMMA RxInitLemma == RxInit => RxIInv
  <1> SUFFICES ASSUME RxInit PROVE RxIInv
    OBVIOUS
  <1>1. /\ rx \in [dma : BOOLEAN, buffer : {[i \in 0 .. bufsz - 1 |-> Blank]},
                   put_index : {0}, get_index : {0}, is_full : {FALSE}, pending : {0}]
        /\ shell = "read" /\ rx_sem = 0 /\ isr = FALSE /\ unread = <<>>
    BY DEF RxInit
  <1>2. bufsz \in Nat \ {0, 1} /\ 0 \in 0 .. bufsz - 1 /\ 0 \in 0 .. bufsz
    BY SerialRxAssumption
  <1>3. rx \in Fifo /\ rx.pending = 0 /\ rx.put_index = 0 /\ rx.get_index = 0 /\ rx.is_full = FALSE
    BY <1>1, <1>2 DEF Fifo
  <1>4. Received(rx) = 0
    BY <1>3 DEF Received
  <1>5. unread \in Seq(Chars \cup {Blank}) /\ Len(unread) = 0
    BY <1>1
  <1>6. HeldFrom(Overrun, unread, rx.buffer, bufsz, rx.get_index)
    BY <1>2, <1>3, <1>5 DEF HeldFrom, Overrun
  <1>7. RxHolds
    BY <1>3, <1>4, <1>5, <1>6 DEF RxHolds
  <1>8. ShellKnows
    BY <1>1, <1>4 DEF ShellKnows
  <1> QED BY <1>7, <1>8 DEF RxIInv

LEMMA ReceivedIs ==
    ASSUME NEW f, NEW x \in 0 .. bufsz, f.get_index \in 0 .. bufsz - 1,
           f.put_index = Around(bufsz, f.get_index + x),
           x = bufsz => f.is_full, x = 0 => ~f.is_full
    PROVE  Received(f) = x
  <1> DEFINE p == f.put_index
             g == f.get_index
             full == f.is_full
  <1>1. bufsz \in Nat \ {0, 1}
    BY SerialRxAssumption
  <1>2. Received(f) = IF p = g THEN (IF full THEN bufsz ELSE 0)
                      ELSE IF p > g THEN p - g ELSE bufsz - (g - p)
    BY DEF Received
  <1>3. /\ g \in 0 .. bufsz - 1 /\ p = Around(bufsz, g + x)
        /\ (x = bufsz => full) /\ (x = 0 => ~full)
    OBVIOUS
  <1> HIDE DEF p, g, full
  <1>4. p = IF g + x < bufsz THEN g + x ELSE g + x - bufsz
    BY <1>1, <1>3 DEF Around
  <1>5. CASE x = 0
    <2>1. p = g /\ ~full
      BY <1>1, <1>3, <1>4, <1>5
    <2> QED BY <1>2, <1>5, <2>1
  <1>6. CASE x = bufsz
    <2>1. p = g /\ full
      BY <1>1, <1>3, <1>4, <1>6
    <2> QED BY <1>2, <1>6, <2>1
  <1>7. CASE x # 0 /\ x # bufsz
    <2>1. p # g /\ (IF p > g THEN p - g ELSE bufsz - (g - p)) = x
      BY <1>1, <1>3, <1>4, <1>7
    <2> QED BY <1>2, <2>1
  <1> QED BY <1>5, <1>6, <1>7

(* Told of a character, the shell runs or finds the semaphore released. *)
LEMMA IndicatedLemma ==
    ASSUME ShellKnows, finsh_rx_ind
    PROVE  /\ shell' \in {"read", "take", "asleep"} /\ rx_sem' \in Nat
           /\ ~(shell' = "asleep" \/ (shell' = "take" /\ rx_sem' = 0))
  <1>1. shell \in {"read", "take", "asleep"} /\ rx_sem \in Nat /\ MaxSem \in Nat \ {0}
    BY SerialRxAssumption DEF ShellKnows
  <1>2. CASE shell = "asleep"
    BY <1>1, <1>2 DEF finsh_rx_ind
  <1>3. CASE shell # "asleep"
    BY <1>1, <1>3 DEF finsh_rx_ind
  <1> QED BY <1>2, <1>3

LEMMA IsrIndicatesStep ==
    ASSUME RxIInv, IsrIndicates
    PROVE  RxIInv'
  <1>1. isr' = FALSE /\ UNCHANGED <<rx, unread>> /\ ~rx.dma
    BY DEF IsrIndicates, RxIInv, ShellKnows
  <1>2. RxHolds'
    BY <1>1 DEF RxIInv, RxHolds, Overrun, Received
  <1>3. Received(rx') = Received(rx)
    BY <1>1
  <1>4. CASE rx.put_index # rx.get_index
    <2>1. finsh_rx_ind
      BY <1>4 DEF IsrIndicates
    <2>2. ShellKnows'
      BY <1>1, <2>1, IndicatedLemma DEF RxIInv, ShellKnows
    <2> QED BY <1>2, <2>2 DEF RxIInv
  <1>5. CASE rx.put_index = rx.get_index
    <2>1. UNCHANGED <<shell, rx_sem>>
      BY <1>5 DEF IsrIndicates
    <2>2. Received(rx) = 0
      BY <1>1, <1>5 DEF RxIInv, RxHolds, Received
    <2>3. ShellKnows'
      BY <1>1, <1>3, <2>1, <2>2 DEF RxIInv, ShellKnows
    <2> QED BY <1>2, <2>3 DEF RxIInv
  <1> QED BY <1>4, <1>5

LEMMA ShellTakesStep ==
    ASSUME RxIInv, ShellTakes
    PROVE  RxIInv'
  <1>1. UNCHANGED <<rx, isr, unread>> /\ shell = "take" /\ ~isr
    BY DEF ShellTakes
  <1>2. RxHolds'
    BY <1>1 DEF RxIInv, RxHolds, Overrun, Received
  <1>3. CASE rx_sem > 0
    BY <1>1, <1>2, <1>3 DEF ShellTakes, RxIInv, ShellKnows
  <1>4. CASE ~(rx_sem > 0)
    <2>1. rx_sem = 0 /\ Received(rx) = 0
      BY <1>1, <1>4 DEF RxIInv, ShellKnows
    <2> QED BY <1>1, <1>2, <1>4, <2>1 DEF ShellTakes, RxIInv, ShellKnows
  <1> QED BY <1>3, <1>4

(* The DMA goes on storing, over the oldest characters if it must. *)
LEMMA DmaStoresStep ==
    ASSUME RxIInv, NEW ch \in Chars, DmaStores(ch)
    PROVE  RxIInv'
  <1> DEFINE n == bufsz
             g == rx.get_index
             e == Received(rx)
             m == rx.pending
             i == (rx.put_index + m) % n
             over == IF e + m > n THEN e + m - n ELSE 0
             overn == IF e + (m + 1) > n THEN e + (m + 1) - n ELSE 0
             new == [rx.buffer EXCEPT ![i] = ch]
  <1>1. RxHolds /\ rx \in Fifo
    BY DEF RxIInv, RxHolds
  <1>2. /\ n \in Nat \ {0, 1} /\ e \in 0 .. n /\ g \in 0 .. n - 1 /\ m \in 0 .. n - 1
        /\ rx.put_index \in 0 .. n - 1 /\ rx.put_index = Around(n, g + e)
    BY <1>1, ReceivedLemma DEF DmaStores, Fifo
  <1>3. i = Around(n, rx.put_index + m) /\ i \in 0 .. n - 1
    <2>1. n \in Nat \ {0} /\ m \in 0 .. n
      BY <1>2
    <2> QED BY <1>2, <2>1, AroundLemma
  <1>4. rx' = [rx EXCEPT !.buffer = new, !.pending = m + 1] /\ UNCHANGED <<shell, rx_sem, isr, unread>>
    BY DEF DmaStores
  <1>5. new \in [0 .. n - 1 -> Chars \cup {Blank}]
    BY <1>1 DEF Fifo
  <1>6. Len(unread) = e /\ unread \in Seq(Chars \cup {Blank}) /\ over = Overrun
        /\ HeldFrom(Overrun, unread, rx.buffer, n, g)
    BY <1>1 DEF RxHolds, Overrun
  <1> HIDE DEF i, new, n
  <1>7. /\ rx' \in Fifo /\ rx'.dma = rx.dma /\ rx'.buffer = new /\ rx'.pending = m + 1
        /\ rx'.put_index = rx.put_index /\ rx'.get_index = g /\ rx'.is_full = rx.is_full
    <2>1. m + 1 \in 0 .. n
      BY <1>2
    <2> HIDE DEF m
    <2> QED BY <1>1, <1>4, <1>5, <2>1 DEF Fifo, n
  <1>8. Received(rx') = e
    BY <1>7 DEF Received
  <1> HIDE DEF e, g, m
  <1>9. Overrun' = overn
    BY <1>4, <1>6, <1>7 DEF Overrun, n
  <1>10. overn \in Nat /\ overn >= over /\ over \in Nat
    BY <1>2
  <1>11. ASSUME NEW k \in overn .. e - 1 PROVE unread[k + 1] = new[Around(n, g + k)]
    <2>1. k \in over .. e - 1 /\ k \in 0 .. n - 1
      BY <1>2, <1>10
    <2>2. Around(n, g + k) \in 0 .. n - 1
      BY <1>2, <2>1 DEF Around
    <2>3. Around(n, g + k) # i
      <3>1. i = Around(n, Around(n, g + e) + m)
        BY <1>2, <1>3
      <3>2. k < e /\ k > e + m - n /\ k \in 0 .. n - 1
        BY <1>2, <2>1
      <3> QED BY ONLY <1>2, <3>1, <3>2 DEF Around
    <2>4. unread[k + 1] = rx.buffer[Around(n, g + k)]
      BY <1>6, <2>1 DEF HeldFrom
    <2>5. new[Around(n, g + k)] = rx.buffer[Around(n, g + k)]
      BY <1>1, <2>2, <2>3 DEF new, Fifo, n
    <2> QED BY <2>4, <2>5
  <1>12. HeldFrom(Overrun', unread', rx'.buffer, bufsz, rx'.get_index)
    BY <1>4, <1>6, <1>7, <1>9, <1>11 DEF HeldFrom, n
  <1>13. rx.dma
    BY DEF DmaStores
  <1>14. RxHolds'
    BY <1>1, <1>4, <1>6, <1>7, <1>8, <1>12, <1>13 DEF RxHolds
  <1>15. ShellKnows'
    BY <1>4, <1>7, <1>8 DEF RxIInv, ShellKnows, e
  <1> QED BY <1>14, <1>15 DEF RxIInv

(* n characters leave the FIFO. *)
LEMMA ReadsStep ==
    ASSUME RxIInv, NEW n \in 0 .. Received(rx), Reads(n)
    PROVE  /\ RxHolds' /\ Received(rx') = Received(rx) - n
           /\ ~isr /\ rx'.dma = rx.dma
  <1> DEFINE N == bufsz
             g == rx.get_index
             e == Received(rx)
             c == rx.pending
             f == rx.buffer
             full == IF n = 0 THEN rx.is_full ELSE FALSE
             a == Around(N, g + n)
             T == Chars \cup {Blank}
             p == unread'
             d == Overrun
  <1>1. RxHolds /\ rx \in Fifo /\ Len(unread) = e /\ unread \in Seq(T)
    BY DEF RxIInv, RxHolds
  <1>2. /\ N \in Nat \ {0} /\ e \in 0 .. N /\ g \in 0 .. N - 1 /\ c \in 0 .. N /\ n \in 0 .. e
        /\ n \in 0 .. N
        /\ e = N => rx.put_index = g /\ rx.is_full
        /\ e = 0 => ~rx.is_full
    BY <1>1, ReceivedLemma DEF Fifo
  <1>3. rx.put_index = Around(N, g + e) /\ rx.is_full \in BOOLEAN
    BY <1>1, ReceivedLemma DEF Fifo
  <1>4. a \in 0 .. N - 1 /\ (g + n) % N = a
    BY <1>2, AroundLemma
  <1>5. p = SubSeq(unread, n + 1, Len(unread)) /\ ~isr
    BY DEF Reads
  <1>6. p \in Seq(T) /\ Len(p) = e - n /\ \A i \in 1 .. e - n : p[i] = unread[n + i]
    <2> HIDE DEF p, e, T
    <2>1. n \in 0 .. Len(unread)
      BY <1>1, <1>2
    <2> QED BY <1>1, <1>5, <2>1
  <1> HIDE DEF p, e, N, a, g, c, f, T, full, d
  <1>7. rx' = [rx EXCEPT !.get_index = a, !.is_full = full]
    BY <1>1, <1>4 DEF Reads, GetAdvanced, N, g, full, Fifo
  <1>8. full \in BOOLEAN
    BY <1>3 DEF full
  <1>9. /\ rx' \in Fifo /\ rx'.dma = rx.dma /\ rx'.buffer = f /\ rx'.pending = c
        /\ rx'.put_index = rx.put_index /\ rx'.get_index = a /\ rx'.is_full = full
    BY <1>1, <1>4, <1>7, <1>8 DEF Fifo, N, f, c
  <1>10. HeldFrom(d, unread, f, N, g)
    BY <1>1 DEF RxHolds, N, g, f, d
  <1>11. d = IF e + c > N THEN e + c - N ELSE 0
    BY <1>1 DEF Overrun, N, e, c, d
  <1>12. IsBlockRead(N, g, d, f, unread, n, p)
    <2>1. d \in Nat
      BY <1>2, <1>11
    <2>2. n \in 0 .. Len(unread) /\ Len(unread) \in 0 .. N
      BY <1>1, <1>2
    <2>3. Len(p) = Len(unread) - n /\ \A i \in 1 .. Len(p) : p[i] = unread[n + i]
      BY <1>1, <1>6
    <2> QED BY <1>2, <1>10, <2>1, <2>2, <2>3 DEF IsBlockRead
  <1>13. /\ HeldFrom(IF d > n THEN d - n ELSE 0, p, f, N, Around(N, g + n))
         /\ Around(N, Around(N, g + n) + Len(p)) = Around(N, g + Len(unread))
    BY ONLY <1>12, BlockRead
  <1>14. rx.put_index = Around(N, a + (e - n))
    BY <1>1, <1>3, <1>6, <1>13 DEF a
  <1>15. Received(rx') = e - n
    <2> DEFINE x == e - n
    <2>1. x \in 0 .. N /\ (x = N => e = N /\ n = 0) /\ (x = 0 => e = 0 \/ n # 0)
      BY <1>2
    <2>2. (x = N => full) /\ (x = 0 => ~full)
      BY <1>2, <2>1 DEF full
    <2> HIDE DEF x
    <2>3. rx'.get_index \in 0 .. N - 1 /\ rx'.put_index = Around(N, rx'.get_index + x)
      BY <1>4, <1>9, <1>14 DEF x
    <2>4. (x = N => rx'.is_full) /\ (x = 0 => ~rx'.is_full)
      BY <1>9, <2>2
    <2>5. Received(rx') = x
      BY <2>1, <2>3, <2>4, ReceivedIs DEF N
    <2> QED BY <2>5 DEF x
  <1>16. Overrun' = IF d > n THEN d - n ELSE 0
    <2>1. Overrun' = IF (e - n) + c > N THEN (e - n) + c - N ELSE 0
      BY <1>6, <1>9 DEF Overrun, N, p
    <2>2. (IF (e - n) + c > N THEN (e - n) + c - N ELSE 0) = (IF d > n THEN d - n ELSE 0)
      BY <1>2, <1>11
    <2> QED BY <2>1, <2>2
  <1>17. HeldFrom(Overrun', unread', rx'.buffer, bufsz, rx'.get_index)
    BY <1>9, <1>13, <1>16 DEF a, p, N
  <1>18. unread' \in Seq(Chars \cup {Blank}) /\ Len(unread') = Received(rx')
    BY <1>6, <1>15 DEF p, T
  <1>19. /\ ~rx.dma => c = 0 /\ (rx.put_index = g => ~rx.is_full)
         /\ rx.dma /\ rx.is_full => rx.put_index = g
    BY <1>1 DEF RxHolds, g, c
  <1>20. n = 0 => a = g
    BY <1>2 DEF a, Around
  <1>21. /\ ~rx'.dma => rx'.pending = 0 /\ (rx'.put_index = rx'.get_index => ~rx'.is_full)
         /\ rx'.dma /\ rx'.is_full => rx'.put_index = rx'.get_index
    <2>1. CASE n = 0
      BY <1>9, <1>19, <1>20, <2>1 DEF full
    <2>2. CASE n # 0
      BY <1>9, <1>19, <2>2 DEF full
    <2> QED BY <2>1, <2>2
  <1>22. RxHolds'
    BY <1>9, <1>17, <1>18, <1>21 DEF RxHolds
  <1> QED BY <1>5, <1>9, <1>15, <1>22 DEF e

LEMMA SerialReadStep ==
    ASSUME RxIInv, NEW n \in Nat, rt_serial_read(n)
    PROVE  RxIInv'
  <1> DEFINE k == Least(n, Received(rx))
  <1>1. Received(rx) \in 0 .. bufsz /\ bufsz \in Nat
    BY ReceivedLemma DEF RxIInv
  <1>2. k \in 0 .. Received(rx) /\ Reads(k)
    BY <1>1 DEF rt_serial_read, Least
  <1> HIDE DEF k
  <1>3. RxHolds' /\ ~isr /\ rx'.dma = rx.dma
    BY <1>2, ReadsStep
  <1>4. UNCHANGED <<shell, rx_sem, isr>> /\ Received(rx) > 0
    BY DEF rt_serial_read
  <1>5. ~(shell = "asleep" \/ (shell = "take" /\ rx_sem = 0))
    BY <1>1, <1>3, <1>4 DEF RxIInv, ShellKnows
  <1> QED BY <1>3, <1>4, <1>5 DEF RxIInv, ShellKnows

LEMMA ShellReadsStep ==
    ASSUME RxIInv, ShellReads
    PROVE  RxIInv'
  <1> DEFINE k == Least(1, Received(rx))
  <1>1. Received(rx) \in 0 .. bufsz /\ bufsz \in Nat
    BY ReceivedLemma DEF RxIInv
  <1>2. k \in 0 .. Received(rx) /\ Reads(k)
    BY <1>1 DEF ShellReads, Least
  <1> HIDE DEF k
  <1>3. RxHolds' /\ ~isr /\ rx'.dma = rx.dma /\ Received(rx') = Received(rx) - k
    BY <1>2, ReadsStep
  <1>4. UNCHANGED <<rx_sem, isr>> /\ shell' = IF Received(rx) = 0 THEN "take" ELSE "read"
    BY DEF ShellReads
  <1>5. Received(rx) = 0 => Received(rx') = 0
    <2>1. Received(rx) = 0 => k = 0
      BY <1>2
    <2> QED BY <1>3, <2>1
  <1> QED BY <1>3, <1>4, <1>5 DEF RxIInv, ShellKnows

(* p is what is left of q and s when all but the latest c are given up. *)
AreLatest(p, q, s, c) ==
    LET d == IF Len(q) + Len(s) > c THEN Len(q) + Len(s) - c ELSE 0
    IN  /\ Len(p) = Len(q) + Len(s) - d
        /\ \A k \in 0 .. Len(q) + Len(s) - d - 1 :
               p[k + 1] = IF k + d < Len(q) THEN q[k + d + 1] ELSE s[k + d - Len(q) + 1]

LEMMA SuffixLemma ==
    ASSUME NEW S, NEW b \in Seq(S), NEW d \in 0 .. Len(b)
    PROVE  LET p == SubSeq(b, d + 1, Len(b))
           IN  p \in Seq(S) /\ Len(p) = Len(b) - d /\ \A i \in 1 .. Len(b) - d : p[i] = b[d + i]
  <1> DEFINE n == Len(b)
  <1>1. n \in Nat /\ d \in Nat /\ d + 1 \in Nat /\ d <= n
    OBVIOUS
  <1>2. SubSeq(b, d + 1, n) \in Seq(S)
    OBVIOUS
  <1>3. Len(SubSeq(b, d + 1, n)) = n - d
    BY <1>1
  <1>4. ASSUME NEW i \in 1 .. n - d PROVE SubSeq(b, d + 1, n)[i] = b[d + i]
    BY <1>1
  <1> QED BY <1>2, <1>3, <1>4

LEMMA LastOfBoth ==
    ASSUME NEW S, NEW q \in Seq(S), NEW s \in Seq(S), NEW c \in Nat
    PROVE  LastOf(q \o s, c) \in Seq(S) /\ AreLatest(LastOf(q \o s, c), q, s, c)
  <1> DEFINE e == Len(q)
             m == Len(s)
             b == q \o s
             p == LastOf(b, c)
             d == IF e + m > c THEN e + m - c ELSE 0
  <1>1. e \in Nat /\ m \in Nat /\ b \in Seq(S) /\ Len(b) = e + m
    OBVIOUS
  <1>2. \A i \in 1 .. e + m : b[i] = IF i <= e THEN q[i] ELSE s[i - e]
    OBVIOUS
  <1>3. p = IF Len(b) <= c THEN b ELSE SubSeq(b, Len(b) - c + 1, Len(b))
    BY DEF LastOf
  <1> HIDE DEF e, m, b, p
  <1>4. d \in 0 .. e + m /\ (Len(b) <= c => d = 0) /\ (~(Len(b) <= c) => d = Len(b) - c)
    BY <1>1
  <1> HIDE DEF d
  <1>5. p \in Seq(S) /\ Len(p) = e + m - d /\ \A i \in 1 .. e + m - d : p[i] = b[d + i]
    <2>1. CASE Len(b) <= c
      BY <1>1, <1>3, <1>4, <2>1
    <2>2. CASE ~(Len(b) <= c)
      <3>1. p = SubSeq(b, d + 1, Len(b)) /\ d \in 0 .. Len(b)
        BY <1>1, <1>3, <1>4, <2>2
      <3>2. p \in Seq(S) /\ Len(p) = Len(b) - d /\ \A i \in 1 .. Len(b) - d : p[i] = b[d + i]
        BY <1>1, <3>1, SuffixLemma
      <3>3. Len(b) - d = e + m - d
        BY <1>1, <1>4
      <3> QED BY <3>2, <3>3, Zenon
    <2> QED BY <2>1, <2>2
  <1>6. ASSUME NEW k \in 0 .. e + m - d - 1
        PROVE  p[k + 1] = IF k + d < e THEN q[k + d + 1] ELSE s[k + d - e + 1]
    <2>1. /\ k + 1 \in 1 .. e + m - d /\ d + (k + 1) = k + d + 1 /\ k + d + 1 \in 1 .. e + m
          /\ (k + d + 1 <= e <=> k + d < e) /\ (k + d + 1) - e = k + d - e + 1
      BY <1>1, <1>4
    <2>2. p[k + 1] = b[k + d + 1]
      BY <1>5, <2>1
    <2>3. b[k + d + 1] = IF k + d + 1 <= e THEN q[k + d + 1] ELSE s[(k + d + 1) - e]
      BY <1>2, <2>1
    <2> QED BY <2>1, <2>2, <2>3
  <1>7. AreLatest(p, q, s, c)
    BY <1>5, <1>6 DEF AreLatest, e, m, d
  <1> QED BY <1>5, <1>7 DEF p, b

(* By interrupt the FIFO holds one character less than it has room for. *)
LEMMA IsrRxIndStep ==
    ASSUME RxIInv, NEW ch \in Chars, IsrRxInd(ch)
    PROVE  RxIInv'
  <1> DEFINE N == bufsz
             g == rx.get_index
             w == rx.put_index
             e == Received(rx)
             f == rx.buffer
             s == <<ch>>
             d == IF e + 1 > N - 1 THEN e + 1 - (N - 1) ELSE 0
             a == Around(N, g + d)
             put == Around(N, w + 1)
             new == [f EXCEPT ![w] = ch]
             full == rx.is_full \/ put = g
             T == Chars \cup {Blank}
             p == unread'
  <1>1. /\ RxHolds /\ rx \in Fifo /\ Len(unread) = e /\ unread \in Seq(T) /\ ~rx.dma
        /\ rx.pending = 0
    BY DEF RxIInv, RxHolds, IsrRxInd
  <1>2. /\ N \in Nat \ {0, 1} /\ e \in 0 .. N /\ g \in 0 .. N - 1 /\ w \in 0 .. N - 1
        /\ w = Around(N, g + e) /\ (e = N <=> w = g /\ rx.is_full) /\ (w = g => ~rx.is_full)
    BY <1>1, ReceivedLemma DEF Fifo, RxHolds
  <1>3. e \in 0 .. N - 1
    BY <1>2
  <1>4. (w + 1) % N = put /\ put \in 0 .. N - 1 /\ (g + 1) % N = Around(N, g + 1)
        /\ Around(N, g + 1) \in 0 .. N - 1
    <2> DEFINE one == 1
    <2>1. one \in 0 .. N /\ N \in Nat \ {0}
      BY <1>2
    <2> HIDE DEF one, N, w, g
    <2>2. /\ Around(N, w + one) \in 0 .. N - 1 /\ Around(N, w + one) = (w + one) % N
          /\ Around(N, g + one) \in 0 .. N - 1 /\ Around(N, g + one) = (g + one) % N
      BY <1>2, <2>1, AroundLemma
    <2> QED BY <2>2 DEF one
  <1>5. s \in Seq(T) /\ Len(s) = 1 /\ s[1] = ch
    OBVIOUS
  <1>6. p = LastOf(unread \o s, N - 1)
    <2>1. Append(unread, ch) = unread \o s
      BY <1>1
    <2> QED BY <2>1 DEF IsrRxInd
  <1> HIDE DEF e, g, w, f, p, N
  <1>7. /\ p \in Seq(T) /\ Len(p) = e + 1 - d
        /\ \A k \in 0 .. e + 1 - d - 1 :
               p[k + 1] = IF k + d < e THEN unread[k + d + 1] ELSE s[k + d - e + 1]
    <2> DEFINE c == N - 1
               l == IF Len(unread) + Len(s) > c THEN Len(unread) + Len(s) - c ELSE 0
    <2>1. c \in Nat /\ l = d /\ p = LastOf(unread \o s, c) /\ unread \in Seq(T) /\ s \in Seq(T)
      BY <1>1, <1>2, <1>5, <1>6
    <2> HIDE DEF c, d, s, T
    <2>2. p \in Seq(T) /\ AreLatest(p, unread, s, c)
      BY <2>1, LastOfBoth
    <2>3. /\ Len(p) = Len(unread) + Len(s) - l
          /\ \A k \in 0 .. Len(unread) + Len(s) - l - 1 :
                p[k + 1] = IF k + l < Len(unread) THEN unread[k + l + 1]
                           ELSE s[k + l - Len(unread) + 1]
      BY <2>2 DEF AreLatest
    <2> HIDE DEF l
    <2> QED BY <1>1, <1>5, <2>1, <2>2, <2>3
  <1>8. d \in 0 .. 1 /\ (d = 1 <=> e = N - 1) /\ d <= e /\ e + 1 - d \in 1 .. N - 1
    BY <1>2, <1>3
  <1>9. put = g <=> d = 1
    BY <1>2, <1>3, <1>8 DEF Around
  <1>10. a = IF put = g THEN Around(N, g + 1) ELSE g
    BY <1>2, <1>8, <1>9 DEF Around
  <1> HIDE DEF s, d, a, put, new, full, T
  <1>11. rx' = [rx EXCEPT !.buffer = new, !.put_index = put, !.get_index = a, !.is_full = full]
    BY <1>1, <1>4, <1>10 DEF IsrRxInd, N, g, w, f, new, full, Fifo
  <1>12. new \in [0 .. N - 1 -> T] /\ full \in BOOLEAN /\ a \in 0 .. N - 1
    <2>1. f \in [0 .. N - 1 -> T] /\ ch \in T /\ rx.is_full \in BOOLEAN
      BY <1>1 DEF Fifo, f, N, T
    <2> QED BY <1>2, <1>4, <1>10, <2>1 DEF new, full
  <1>13. /\ rx' \in Fifo /\ rx'.dma = rx.dma /\ rx'.buffer = new /\ rx'.pending = rx.pending
         /\ rx'.put_index = put /\ rx'.get_index = a /\ rx'.is_full = full
    BY <1>1, <1>4, <1>11, <1>12 DEF Fifo, N, T
  <1>14. HeldFrom(d, unread, f, N, g)
    <2>1. Overrun = 0
      BY <1>1, <1>2 DEF Overrun, N
    <2> QED BY <1>1, <1>8, <2>1 DEF RxHolds, HeldFrom, f, N, g
  <1>15. ASSUME NEW k \in 0 .. N - 1
         PROVE  new[Around(N, w + k)] = IF k < 1 THEN s[k + 1] ELSE f[Around(N, w + k)]
    <2>1. Around(N, w + k) \in 0 .. N - 1 /\ (k = 0 <=> Around(N, w + k) = w)
      BY <1>2 DEF Around
    <2>2. f \in [0 .. N - 1 -> T]
      BY <1>1 DEF Fifo, f, N, T
    <2>3. new[Around(N, w + k)] = IF k = 0 THEN ch ELSE f[Around(N, w + k)]
      BY <2>1, <2>2 DEF new
    <2>4. CASE k = 0
      BY <1>5, <2>3, <2>4
    <2>5. CASE k # 0
      BY <2>3, <2>5
    <2> QED BY <2>4, <2>5
  <1>16. IsBlockWrite(N, g, d, f, new, unread, s, p)
    <2>1. /\ N \in Nat \ {0} /\ Len(unread) \in 0 .. N /\ d \in 0 .. N /\ Len(s) \in 0 .. N
          /\ d <= Len(unread) + Len(s) /\ Len(unread) + Len(s) - d <= N
          /\ Len(p) = Len(unread) + Len(s) - d
      <3>1. /\ N \in Nat \ {0} /\ e \in 0 .. N /\ d \in 0 .. N /\ 1 \in 0 .. N
            /\ d <= e + 1 /\ e + 1 - d <= N
        BY <1>1, <1>2, <1>8
      <3> QED BY <1>1, <1>5, <1>7, <3>1
    <2>2. \A k \in 0 .. N - 1 :
              new[Around(N, Around(N, g + Len(unread)) + k)] =
                  IF k < Len(s) THEN s[k + 1]
                  ELSE f[Around(N, Around(N, g + Len(unread)) + k)]
      BY <1>1, <1>2, <1>5, <1>15
    <2>3. ASSUME NEW k \in 0 .. Len(p) - 1
          PROVE  p[k + 1] = IF k + d < Len(unread) THEN unread[k + d + 1]
                            ELSE s[k + d - Len(unread) + 1]
      <3>1. k \in 0 .. e + 1 - d - 1
        BY <1>1, <1>2, <1>7, <1>8
      <3> QED BY <1>1, <1>7, <3>1
    <2> QED BY <1>2, <1>14, <2>1, <2>2, <2>3 DEF IsBlockWrite
  <1>17. /\ HeldFrom(0, p, new, N, Around(N, g + d))
         /\ Around(N, Around(N, g + d) + Len(p)) = Around(N, Around(N, g + Len(unread)) + Len(s))
    BY ONLY <1>16, BlockWritten
  <1>18. put = Around(N, a + (e + 1 - d))
    BY <1>1, <1>2, <1>5, <1>7, <1>17 DEF a, put
  <1>19. Received(rx') = e + 1 - d /\ put # a
    <2> DEFINE x == e + 1 - d
    <2>1. x \in 0 .. N /\ x # 0 /\ x # N /\ x \in 1 .. N - 1
      BY <1>2, <1>8
    <2>2. put = Around(N, a + x)
      BY <1>18
    <2> HIDE DEF x
    <2>3. rx'.get_index \in 0 .. N - 1 /\ rx'.put_index = Around(N, rx'.get_index + x)
      BY <1>12, <1>13, <2>2
    <2>4. Received(rx') = x
      BY <2>1, <2>3, ReceivedIs DEF N
    <2>5. put # a
      BY <1>2, <1>12, <2>1, <2>2 DEF Around
    <2> QED BY <2>4, <2>5 DEF x
  <1>20. Overrun' = 0
    BY <1>1, <1>2, <1>7, <1>8, <1>13 DEF Overrun, N, p
  <1>21. HeldFrom(Overrun', unread', rx'.buffer, bufsz, rx'.get_index)
    BY <1>13, <1>17, <1>20 DEF a, p, N
  <1>22. RxHolds'
    BY <1>1, <1>7, <1>13, <1>19, <1>21 DEF RxHolds, T, p
  <1>23. ShellKnows'
    BY <1>1, <1>13 DEF IsrRxInd, RxIInv, ShellKnows
  <1> QED BY <1>22, <1>23 DEF RxIInv

(* The length that the DMA has stored becomes visible: the reader is moved  *)
(* over what was overwritten.                                              *)
LEMMA PutAdvancedLemma ==
    ASSUME RxHolds, rx.pending > 0
    PROVE  LET put  == Around(bufsz, rx.put_index + rx.pending)
               full == rx.is_full \/ Received(rx) + rx.pending >= bufsz
           IN  /\ put \in 0 .. bufsz - 1
               /\ PutAdvanced(rx, rx.pending) =
                      [rx EXCEPT !.put_index = put, !.is_full = full,
                                 !.get_index = IF full THEN put ELSE rx.get_index]
  <1> DEFINE N == bufsz
             g == rx.get_index
             w == rx.put_index
             e == Received(rx)
             m == rx.pending
             put == Around(N, w + m)
             next == w + m
             full == rx.is_full \/ e + m >= N
  <1>1. /\ N \in Nat \ {0} /\ g \in 0 .. N - 1 /\ w \in 0 .. N - 1 /\ e \in 0 .. N /\ m \in 1 .. N
        /\ m \in 0 .. N /\ w = Around(N, g + e)
    BY ReceivedLemma DEF RxHolds, Fifo
  <1>2. e = N <=> w = g /\ rx.is_full
    BY ReceivedLemma
  <1>3. next % N = put /\ put \in 0 .. N - 1
    BY <1>1, AroundLemma
  <1> HIDE DEF N, g, w, e, m
  <1>4. ~rx.is_full =>
           (e + m >= N <=> IF g <= w THEN next >= N /\ put >= g ELSE next >= g)
    <2>1. ~rx.is_full => e # N \/ w # g
      BY <1>2
    <2>2. e # N \/ w # g =>
             (e + m >= N <=> IF g <= w THEN next >= N /\ put >= g ELSE next >= g)
      BY ONLY <1>1 DEF Around, next, put
    <2> QED BY <2>1, <2>2
  <1>5. PutAdvanced(rx, rx.pending) =
            LET f == \/ rx.is_full
                     \/ IF g <= w THEN next >= N /\ next % N >= g ELSE next >= g
            IN  [rx EXCEPT !.put_index = next % N, !.is_full = f,
                           !.get_index = IF f THEN next % N ELSE rx.get_index]
    BY DEF PutAdvanced, N, g, w, m
  <1> HIDE DEF next, put
  <1>6. (rx.is_full \/ IF g <= w THEN next >= N /\ put >= g ELSE next >= g) <=> full
    BY <1>4
  <1> QED BY <1>3, <1>5, <1>6 DEF put, N, g, w, e, m

LEMMA IsrRxDmaDoneStep ==
    ASSUME RxIInv, IsrRxDmaDone
    PROVE  RxIInv'
  <1> DEFINE N == bufsz
             g == rx.get_index
             w == rx.put_index
             e == Received(rx)
             m == rx.pending
             f == rx.buffer
             T == Chars \cup {Blank}
             s == RingEntries(f, N, w, m)
             d == Overrun
             put == Around(N, w + m)
             full == rx.is_full \/ e + m >= N
             get == IF full THEN put ELSE g
             p == unread'
  <1>1. RxHolds /\ rx \in Fifo /\ Len(unread) = e /\ unread \in Seq(T) /\ rx.dma /\ m > 0
    BY DEF RxIInv, RxHolds, IsrRxDmaDone
  <1>2. /\ N \in Nat \ {0} /\ g \in 0 .. N - 1 /\ w \in 0 .. N - 1 /\ e \in 0 .. N /\ m \in 1 .. N
        /\ m \in 0 .. N /\ w = Around(N, g + e)
    BY <1>1, ReceivedLemma DEF Fifo
  <1>3. /\ e = N <=> w = g /\ rx.is_full
        /\ rx.is_full => w = g
        /\ rx.is_full \in BOOLEAN
    BY <1>1, ReceivedLemma DEF RxHolds, Fifo
  <1>4. HeldFrom(d, unread, f, N, g)
    BY <1>1 DEF RxHolds
  <1>5. d = IF e + m > N THEN e + m - N ELSE 0
    BY <1>1 DEF Overrun
  <1>6. put \in 0 .. N - 1 /\ PutAdvanced(rx, m) =
            [rx EXCEPT !.put_index = put, !.is_full = full, !.get_index = get]
    BY <1>1, PutAdvancedLemma
  <1>7. s = [i \in 1 .. m |-> f[(w + i - 1) % N]]
    BY DEF RingEntries
  <1>8. p = LastOf(unread \o s, N)
    BY <1>7 DEF IsrRxDmaDone
  <1>9. rx' = [PutAdvanced(rx, m) EXCEPT !.pending = 0] /\ finsh_rx_ind /\ UNCHANGED isr
    BY DEF IsrRxDmaDone
  <1> HIDE DEF N, g, w, e, m, f, T, s, d, put, p
  <1>10. f \in [0 .. N - 1 -> T] /\ IsRing(N, T, f, w, m)
    BY <1>1, <1>2 DEF IsRing, Fifo, f, T, N
  <1>11. /\ s \in Seq(T) /\ Len(s) = m
         /\ \A k \in 0 .. m - 1 : s[k + 1] = f[(w + k) % N]
    <2>1. s = RingEntries(f, N, w, m)
      BY DEF s
    <2>2. IsRing(N, T, f, w, m)
      BY <1>10
    <2>3. /\ RingEntries(f, N, w, m) \in Seq(T) /\ Len(RingEntries(f, N, w, m)) = m
          /\ \A k \in 0 .. m - 1 : RingEntries(f, N, w, m)[k + 1] = f[(w + k) % N]
      BY ONLY <2>2, RingLemma
    <2> QED BY <2>1, <2>3
  <1>12. full \in BOOLEAN /\ get \in 0 .. N - 1
    BY <1>2, <1>3, <1>6
  <1> HIDE DEF full, get
  <1>13. /\ rx' \in Fifo /\ rx'.dma = rx.dma /\ rx'.buffer = f /\ rx'.pending = 0
         /\ rx'.put_index = put /\ rx'.get_index = get /\ rx'.is_full = full
    <2>1. rx' = [rx EXCEPT !.put_index = put, !.is_full = full, !.get_index = get, !.pending = 0]
      BY <1>1, <1>6, <1>9 DEF Fifo
    <2>2. 0 \in 0 .. N
      BY <1>2
    <2> QED BY <1>1, <1>6, <1>12, <2>1, <2>2 DEF Fifo, N, f
  <1>14. p \in Seq(T) /\ AreLatest(p, unread, s, N)
    <2>1. N \in Nat
      BY <1>2
    <2> QED BY <1>1, <1>8, <1>11, <2>1, LastOfBoth
  <1>15. /\ Len(p) = e + m - d
         /\ \A k \in 0 .. e + m - d - 1 :
                p[k + 1] = IF k + d < Len(unread) THEN unread[k + d + 1]
                           ELSE s[k + d - Len(unread) + 1]
    <2> DEFINE l == IF Len(unread) + Len(s) > N THEN Len(unread) + Len(s) - N ELSE 0
    <2>1. /\ Len(p) = Len(unread) + Len(s) - l
          /\ \A k \in 0 .. Len(unread) + Len(s) - l - 1 :
                p[k + 1] = IF k + l < Len(unread) THEN unread[k + l + 1]
                           ELSE s[k + l - Len(unread) + 1]
      BY <1>14 DEF AreLatest
    <2>2. l = d
      BY <1>1, <1>5, <1>11
    <2> HIDE DEF l
    <2> QED BY <1>1, <1>11, <2>1, <2>2
  <1>16. d \in 0 .. N /\ d <= e + m /\ e + m - d <= N /\ e + m - d \in 1 .. N
    BY <1>2, <1>5
  <1>17. IsBlockWrite(N, g, d, f, f, unread, s, p)
    <2>1. /\ Len(unread) \in 0 .. N /\ Len(s) \in 0 .. N
          /\ d <= Len(unread) + Len(s) /\ Len(unread) + Len(s) - d <= N
          /\ Len(p) = Len(unread) + Len(s) - d
      BY <1>1, <1>2, <1>11, <1>15, <1>16
    <2>2. ASSUME NEW k \in 0 .. N - 1
          PROVE  f[Around(N, Around(N, g + Len(unread)) + k)] =
                     IF k < Len(s) THEN s[k + 1]
                     ELSE f[Around(N, Around(N, g + Len(unread)) + k)]
      <3>1. Around(N, g + Len(unread)) = w
        BY <1>1, <1>2
      <3>2. CASE k < Len(s)
        <4>1. k \in 0 .. m - 1 /\ k \in 0 .. N
          BY <1>2, <1>11, <3>2
        <4>2. Around(N, w + k) = (w + k) % N
          BY <1>2, <4>1, AroundLemma
        <4> QED BY <1>11, <3>1, <3>2, <4>1, <4>2
      <3>3. CASE ~(k < Len(s))
        BY <3>3
      <3> QED BY <3>2, <3>3
    <2>3. ASSUME NEW k \in 0 .. Len(p) - 1
          PROVE  p[k + 1] = IF k + d < Len(unread) THEN unread[k + d + 1]
                            ELSE s[k + d - Len(unread) + 1]
      <3>1. k \in 0 .. e + m - d - 1
        BY <1>2, <1>15, <1>16
      <3> QED BY <1>15, <3>1
    <2> QED BY <1>2, <1>4, <1>16, <2>1, <2>2, <2>3 DEF IsBlockWrite
  <1>18. /\ HeldFrom(0, p, f, N, Around(N, g + d))
         /\ Around(N, Around(N, g + d) + Len(p)) = Around(N, Around(N, g + Len(unread)) + Len(s))
    BY ONLY <1>17, BlockWritten
  <1>19. put = Around(N, Around(N, g + d) + (e + m - d))
    BY <1>1, <1>2, <1>11, <1>15, <1>18 DEF put
  <1>20. full <=> e + m - d = N
    <2>1. e + m >= N <=> e + m - d = N
      BY <1>2, <1>5
    <2>2. rx.is_full => e + m >= N
      BY <1>2, <1>3
    <2> QED BY <2>1, <2>2 DEF full
  <1>21. get = Around(N, g + d)
    <2>1. Around(N, g + d) \in 0 .. N - 1
      BY <1>2, <1>16, AroundLemma
    <2>2. CASE full
      <3>1. put = Around(N, Around(N, g + d) + N)
        BY <1>19, <1>20, <2>2
      <3>2. Around(N, Around(N, g + d) + N) = Around(N, g + d)
        <4> DEFINE x == Around(N, g + d)
        <4> HIDE DEF x
        <4>1. x \in 0 .. N - 1
          BY <2>1 DEF x
        <4>2. Around(N, x + N) = x
          BY ONLY <1>2, <4>1 DEF Around
        <4> QED BY <4>2 DEF x
      <3> QED BY <2>2, <3>1, <3>2 DEF get
    <2>3. CASE ~full
      <3>1. d = 0
        BY <1>2, <1>5, <1>20, <2>3
      <3> QED BY <1>2, <2>3, <3>1 DEF get, Around
    <2> QED BY <2>2, <2>3
  <1>22. Received(rx') = e + m - d
    <2> DEFINE x == e + m - d
    <2>1. x \in 0 .. N /\ x # 0 /\ (x = N => full)
      BY <1>16, <1>20
    <2>2. put = Around(N, get + x)
      BY <1>19, <1>21
    <2> HIDE DEF x
    <2>3. rx'.get_index \in 0 .. N - 1 /\ rx'.put_index = Around(N, rx'.get_index + x)
      BY <1>12, <1>13, <2>2
    <2>4. (x = N => rx'.is_full) /\ (x = 0 => ~rx'.is_full)
      BY <1>13, <2>1
    <2>5. Received(rx') = x
      BY <2>1, <2>3, <2>4, ReceivedIs DEF N
    <2> QED BY <2>5 DEF x
  <1>23. Overrun' = 0
    BY <1>2, <1>13, <1>15, <1>16 DEF Overrun, N, p
  <1>24. HeldFrom(Overrun', unread', rx'.buffer, bufsz, rx'.get_index)
    BY <1>13, <1>18, <1>21, <1>23 DEF p, N
  <1>25. full => put = get
    BY DEF get
  <1>26. RxHolds'
    BY <1>1, <1>13, <1>14, <1>15, <1>22, <1>24, <1>25 DEF RxHolds, T, p
  <1>27. ShellKnows'
    <2>1. ShellKnows
      BY DEF RxIInv
    <2>2. isr' \in BOOLEAN /\ (isr' => ~rx'.dma)
      BY <1>9, <1>13, <2>1 DEF ShellKnows
    <2> QED BY <1>9, <2>1, <2>2, IndicatedLemma DEF ShellKnows
  <1> QED BY <1>26, <1>27 DEF RxIInv

LEMMA RxNextLemma == RxIInv /\ (RxNext \/ UNCHANGED rxVars) => RxIInv'
  <1> SUFFICES ASSUME RxIInv, RxNext \/ UNCHANGED rxVars PROVE RxIInv'
    OBVIOUS
  <1>1. CASE UNCHANGED rxVars
    BY <1>1 DEF rxVars, RxIInv, RxHolds, ShellKnows, Overrun, Received
  <1>2. ASSUME NEW ch \in Chars, IsrRxInd(ch) \/ DmaStores(ch) PROVE RxIInv'
    BY <1>2, IsrRxIndStep, DmaStoresStep
  <1>3. CASE IsrIndicates \/ IsrRxDmaDone
    BY <1>3, IsrIndicatesStep, IsrRxDmaDoneStep
  <1>4. ASSUME NEW n \in Lengths, rt_serial_read(n) PROVE RxIInv'
    <2>1. n \in Nat
      BY SerialRxAssumption
    <2> QED BY <1>4, <2>1, SerialReadStep
  <1>5. CASE ShellReads \/ ShellTakes
    BY <1>5, ShellReadsStep, ShellTakesStep
  <1> QED BY <1>1, <1>2, <1>3, <1>4, <1>5 DEF RxNext

(* For a FIFO of any size, by interrupt or by DMA: what was received and    *)
(* not overrun is read once and in order, and the shell does not sleep on   *)
(* a FIFO that holds a character.                                          *)
THEOREM ReceptionReachesShell == Spec => []ReceivedReachesShell
  <1>1. Init => RxIInv
    BY RxInitLemma DEF Init
  <1>2. RxIInv /\ [Next]_vars => RxIInv'
    <2>1. [Next]_vars => RxNext \/ UNCHANGED rxVars
      BY DEF Next, vars
    <2> QED BY <2>1, RxNextLemma
  <1> QED BY <1>1, <1>2, RxImplies, PTL DEF Spec
-----------------------------------------------------------------------------
(* The small memory heap *)

MemItems == [used : BOOLEAN, next : Nat, prev : Nat]

(* What it takes to be the memory of a heap. *)
IsHeap(it) ==
    /\ DOMAIN it \subseteq 0 .. End /\ \A p \in DOMAIN it : it[p] \in MemItems
    /\ it[End].used
    /\ Tiled(it)

(* What is allocated, resized and freed next meets the heap as it is left:  *)
(* WellFormed is inductive only with the width of the offsets, the used     *)
(* mark of heap_end at which every merge stops, and, so that a block is as  *)
(* long as was asked for, the length of its item.                          *)
HeapIInv ==
    /\ IsHeap(item) /\ Coalesced(item) /\ IsLowest(item, lfree)
    /\ asked \in [UsedItems(item) -> Sizes]
    /\ \A p \in UsedItems(item) : Header + asked[p] <= item[p].next - p
    /\ used = Cardinality(Occupied(item))

LEMMA EndLemma == /\ Header \in Nat \ {0} /\ MinSize \in Nat \ {0} /\ Total \in Nat \ {0}
                  /\ End \in Nat /\ End = Total + Header
  BY HeapSizesAssumption, HeapTotalAssumption DEF End

(* The numbers of a heap. *)
LEMMA HeapNumbers ==
    ASSUME NEW it, IsHeap(it)
    PROVE  /\ \A p \in DOMAIN it : /\ p \in Nat /\ p <= End /\ it[p] \in MemItems
                                   /\ it[p].used \in BOOLEAN
                                   /\ it[p].next \in Nat /\ it[p].prev \in Nat
           /\ 0 \in Items(it) /\ End \in DOMAIN it
           /\ \A p \in Items(it) :
                /\ p \in DOMAIN it /\ p # End /\ p < End
                /\ it[p].next \in DOMAIN it /\ it[p].next > p + Header /\ it[p].next > p
                /\ \A q \in Items(it) : q <= p \/ q >= it[p].next
                /\ p # 0 => it[p].prev \in Items(it) /\ it[it[p].prev].next = p
  <1>1. \A p \in DOMAIN it : /\ p \in Nat /\ p <= End /\ it[p] \in MemItems
                             /\ it[p].used \in BOOLEAN
                             /\ it[p].next \in Nat /\ it[p].prev \in Nat
    BY EndLemma DEF IsHeap, MemItems
  <1>2. 0 \in Items(it) /\ End \in DOMAIN it
    BY EndLemma DEF IsHeap, Tiled, Items
  <1>3. \A p \in Items(it) : p \in DOMAIN it /\ p # End /\ p < End
    BY <1>1, EndLemma DEF Items
  <1>4. \A p \in Items(it) :
                /\ it[p].next \in DOMAIN it /\ it[p].next > p + Header
                /\ \A q \in Items(it) : q <= p \/ q >= it[p].next
                /\ p # 0 => it[p].prev \in Items(it) /\ it[it[p].prev].next = p
    BY DEF IsHeap, Tiled
  <1>5. \A p \in Items(it) : it[p].next > p
    BY <1>1, <1>3, <1>4, EndLemma
  <1> QED BY <1>1, <1>2, <1>3, <1>4, <1>5

(* Nothing but the previous item ends where p begins. *)
LEMMA PreviousLemma ==
    ASSUME NEW it, IsHeap(it), NEW x \in Items(it), NEW p \in Items(it), it[x].next = p
    PROVE  p # 0 /\ it[p].prev = x
  <1>1. x \in Nat /\ p \in Nat /\ p > x /\ p # 0
    BY HeapNumbers
  <1>2. PICK y \in Items(it) : y = it[p].prev /\ it[y].next = p /\ y \in Nat /\ p > y
    BY <1>1, HeapNumbers
  <1>3. (y <= x \/ y >= p) /\ (x <= y \/ x >= p)
    BY <1>2, HeapNumbers
  <1> QED BY <1>1, <1>2, <1>3

LEMMA MergedLemma ==
    ASSUME NEW it, IsHeap(it), NEW p \in Items(it), NEW n \in Items(it), it[p].next = n
    PROVE  LET m == Merged(it, p, n)
           IN  /\ IsHeap(m) /\ DOMAIN m = DOMAIN it \ {n} /\ Items(m) = Items(it) \ {n}
               /\ m[p].next = it[n].next
               /\ \A x \in DOMAIN m : m[x].used = it[x].used /\ (x # p => m[x].next = it[x].next)
  <1> DEFINE m == Merged(it, p, n)
             e == it[n].next
  <1>1. /\ p \in Nat /\ n \in Nat /\ e \in Nat /\ p < n /\ n < e /\ n > p + Header /\ e > n + Header
        /\ p \in DOMAIN it /\ n \in DOMAIN it /\ e \in DOMAIN it /\ n # End /\ Header \in Nat
        /\ \A x \in DOMAIN it : it[x] \in MemItems
    BY HeapNumbers, EndLemma
  <1>2. /\ DOMAIN m = DOMAIN it \ {n}
        /\ \A x \in DOMAIN it \ {n} :
             m[x] = IF x = e THEN [it[e] EXCEPT !.prev = p]
                    ELSE IF x = p THEN [it[p] EXCEPT !.next = e] ELSE it[x]
    <2> HIDE DEF e
    <2>1. m = [Without(it, n) EXCEPT ![p].next = e, ![e].prev = p]
      BY DEF Merged, e
    <2>2. /\ DOMAIN Without(it, n) = DOMAIN it \ {n}
          /\ \A x \in DOMAIN it \ {n} : Without(it, n)[x] = it[x]
      BY DEF Without
    <2>3. p \in DOMAIN it \ {n} /\ e \in DOMAIN it \ {n} /\ p # e
      BY <1>1
    <2> HIDE DEF m
    <2> QED BY <2>1, <2>2, <2>3
  <1> HIDE DEF m
  <1>3. \A x \in DOMAIN it \ {n} :
           /\ m[x] \in MemItems /\ m[x].used = it[x].used
           /\ m[x].next = IF x = p THEN e ELSE it[x].next
           /\ m[x].prev = IF x = e THEN p ELSE it[x].prev
    <2> HIDE DEF e
    <2>1. ASSUME NEW x \in DOMAIN it \ {n}
          PROVE  /\ m[x] \in MemItems /\ m[x].used = it[x].used
                 /\ m[x].next = IF x = p THEN e ELSE it[x].next
                 /\ m[x].prev = IF x = e THEN p ELSE it[x].prev
      <3>1. CASE x = e
        BY <1>1, <1>2, <3>1 DEF MemItems
      <3>2. CASE x = p
        BY <1>1, <1>2, <3>2 DEF MemItems
      <3>3. CASE x # e /\ x # p
        BY <1>1, <1>2, <3>3
      <3> QED BY <3>1, <3>2, <3>3
    <2> QED BY <2>1
  <1>4. Items(m) = Items(it) \ {n}
    BY <1>2 DEF Items
  <1>5. /\ 0 \in DOMAIN m /\ End \in DOMAIN m /\ m[0].prev = 0 /\ m[End].used
        /\ DOMAIN m \subseteq 0 .. End
    <2>1. 0 \in DOMAIN it \ {n} /\ End \in DOMAIN it \ {n} /\ e # 0
      BY <1>1, HeapNumbers DEF Items
    <2>2. it[End].used /\ it[0].prev = 0 /\ DOMAIN it \subseteq 0 .. End
      BY DEF IsHeap, Tiled
    <2> QED BY <1>2, <1>3, <2>1, <2>2
  <1>6. ASSUME NEW x \in Items(m)
        PROVE  /\ m[x].next \in DOMAIN m /\ m[x].next > x + Header
               /\ \A q \in Items(m) : q <= x \/ q >= m[x].next
               /\ x # 0 => m[x].prev \in Items(m) /\ m[m[x].prev].next = x
    <2> HIDE DEF e
    <2>1. x \in Items(it) /\ x # n /\ x \in DOMAIN it \ {n} /\ x \in Nat
      BY <1>4, HeapNumbers
    <2>2. ASSUME x # 0 PROVE m[x].prev \in Items(m) /\ m[m[x].prev].next = x
      <3>1. CASE x = e
        <4>1. m[x].prev = p /\ p # n /\ m[p].next = e
          BY <1>1, <1>3, <2>1, <3>1
        <4> QED BY <1>4, <3>1, <4>1
      <3>2. CASE x # e
        <4>1. PICK y : y = it[x].prev
          OBVIOUS
        <4>2. y \in Items(it) /\ it[y].next = x
          BY <2>1, <2>2, <4>1, HeapNumbers
        <4>3. y # n /\ y # p
          BY <2>1, <3>2, <4>2 DEF e
        <4>4. y \in DOMAIN it \ {n}
          BY <4>2, <4>3 DEF Items
        <4> QED BY <1>3, <1>4, <2>1, <3>2, <4>1, <4>2, <4>3, <4>4
      <3> QED BY <3>1, <3>2
    <2>3. CASE x = p
      <3>1. m[x].next = e
        BY <1>3, <2>1, <2>3
      <3>2. ASSUME NEW q \in Items(m) PROVE q <= x \/ q >= e
        <4>1. q \in Items(it) /\ q # n /\ q \in Nat /\ (q <= p \/ q >= n) /\ (q <= n \/ q >= e)
          BY <1>4, HeapNumbers DEF e
        <4> QED BY <1>1, <2>3, <4>1
      <3>3. e \in DOMAIN m /\ e > x + Header
        BY <1>1, <1>2, <2>3
      <3> QED BY <2>2, <3>1, <3>2, <3>3
    <2>4. CASE x # p
      <3>1. m[x].next = it[x].next /\ it[x].next # n
        <4>1. m[x].next = it[x].next
          BY <1>3, <2>1, <2>4
        <4>2. it[x].next # n
          <5>1. ASSUME it[x].next = n PROVE FALSE
            <6>1. it[n].prev = x
              BY <2>1, <5>1, PreviousLemma
            <6>2. it[n].prev = p
              BY PreviousLemma
            <6> QED BY <2>4, <6>1, <6>2
          <5> QED BY <5>1
        <4> QED BY <4>1, <4>2
      <3>2. /\ it[x].next \in DOMAIN it /\ it[x].next > x + Header
            /\ \A q \in Items(it) : q <= x \/ q >= it[x].next
        BY <2>1, HeapNumbers
      <3> QED BY <1>2, <1>4, <2>2, <3>1, <3>2
    <2> QED BY <2>3, <2>4
  <1>7. Tiled(m)
    BY <1>5, <1>6 DEF Tiled
  <1>8. IsHeap(m)
    BY <1>2, <1>3, <1>5, <1>7 DEF IsHeap
  <1>9. m[p].next = e /\ \A x \in DOMAIN m : m[x].used = it[x].used /\ (x # p => m[x].next = it[x].next)
    <2>1. p \in DOMAIN it \ {n}
      BY <1>1
    <2> HIDE DEF e
    <2> QED BY <1>2, <1>3, <2>1
  <1> QED BY <1>2, <1>4, <1>8, <1>9 DEF m

LEMMA SplitLemma ==
    ASSUME NEW it, IsHeap(it), NEW p \in Items(it), NEW n \in Nat \ {0},
           Length(it, p) > n + Header
    PROVE  LET s    == Split(it, p, n)
               rest == p + Header + n
           IN  /\ IsHeap(s) /\ Items(s) = Items(it) \cup {rest} /\ rest \notin DOMAIN it
               /\ rest \in Nat /\ rest > p
               /\ s[p].next = rest /\ s[rest].next = it[p].next /\ ~s[rest].used
               /\ \A x \in Items(it) : s[x].used = it[x].used /\ (x # p => s[x].next = it[x].next)
  <1> DEFINE s == Split(it, p, n)
             rest == p + Header + n
             e == it[p].next
  <1>1. /\ p \in Nat /\ e \in Nat /\ rest \in Nat /\ p + Header < rest /\ rest + Header < e /\ p < rest
        /\ rest < e /\ p < e /\ e <= End /\ End \in Nat
        /\ p \in DOMAIN it /\ e \in DOMAIN it /\ Header \in Nat
        /\ \A x \in DOMAIN it : it[x] \in MemItems
    BY HeapNumbers, EndLemma DEF Length
  <1>2. rest \notin DOMAIN it
    <2>1. ASSUME rest \in DOMAIN it PROVE FALSE
      <3>1. rest \in Items(it)
        BY <1>1, <2>1 DEF Items
      <3>2. rest <= p \/ rest >= e
        BY <3>1, HeapNumbers
      <3> HIDE DEF rest, e
      <3> QED BY <1>1, <3>2
    <2> QED BY <2>1
  <1> HIDE DEF rest
  <1>4. /\ DOMAIN s = DOMAIN it \cup {rest}
        /\ \A x \in DOMAIN it \cup {rest} :
             s[x] = IF x = rest THEN MemItem(FALSE, e, p)
                    ELSE IF x = p THEN [it[p] EXCEPT !.next = rest]
                    ELSE IF x = e /\ e # End THEN [it[e] EXCEPT !.prev = rest]
                    ELSE it[x]
    <2> DEFINE a == [it EXCEPT ![p].next = rest]
               b == With(a, rest, MemItem(FALSE, e, p))
    <2>1. s = IF e # End THEN [b EXCEPT ![e].prev = rest] ELSE b
      BY DEF Split, rest
    <2> HIDE DEF s, e
    <2>2. /\ DOMAIN a = DOMAIN it
          /\ \A x \in DOMAIN it : a[x] = IF x = p THEN [it[p] EXCEPT !.next = rest] ELSE it[x]
      OBVIOUS
    <2> HIDE DEF a
    <2>3. /\ DOMAIN b = DOMAIN it \cup {rest}
          /\ \A x \in DOMAIN it \cup {rest} :
                b[x] = IF x = rest THEN MemItem(FALSE, e, p)
                       ELSE IF x = p THEN [it[p] EXCEPT !.next = rest] ELSE it[x]
      BY <1>2, <2>2 DEF With
    <2> HIDE DEF b
    <2>4. e # p /\ e # rest /\ e \in DOMAIN it
      BY <1>1
    <2>5. CASE e = End
      BY <2>1, <2>3, <2>4, <2>5
    <2>6. CASE e # End
      <3>1. s = [b EXCEPT ![e].prev = rest]
        BY <2>1, <2>6
      <3>2. DOMAIN s = DOMAIN b /\ \A x \in DOMAIN b : s[x] = IF x = e THEN [b[e] EXCEPT !.prev = rest] ELSE b[x]
        BY <3>1
      <3>3. b[e] = it[e]
        BY <2>3, <2>4
      <3> QED BY <2>3, <2>4, <2>6, <3>2, <3>3
    <2> QED BY <2>5, <2>6
  <1> HIDE DEF s, e
  <1>5. \A x \in DOMAIN it :
           /\ s[x] \in MemItems /\ s[x].used = it[x].used
           /\ s[x].next = IF x = p THEN rest ELSE it[x].next
           /\ s[x].prev = IF x = e /\ e # End THEN rest ELSE it[x].prev
    <2>1. ASSUME NEW x \in DOMAIN it
          PROVE  /\ s[x] \in MemItems /\ s[x].used = it[x].used
                 /\ s[x].next = IF x = p THEN rest ELSE it[x].next
                 /\ s[x].prev = IF x = e /\ e # End THEN rest ELSE it[x].prev
      <3>0. x # rest /\ it[x] \in MemItems /\ p # e
        BY <1>1, <1>2
      <3>1. CASE x = p
        <4>1. s[x] = [it[x] EXCEPT !.next = rest]
          BY <1>4, <3>0, <3>1
        <4> QED BY <1>1, <3>0, <3>1, <4>1 DEF MemItems
      <3>2. CASE x = e /\ e # End
        <4>1. s[x] = [it[x] EXCEPT !.prev = rest]
          BY <1>4, <3>0, <3>2
        <4> QED BY <1>1, <3>0, <3>2, <4>1 DEF MemItems
      <3>3. CASE ~(x = e /\ e # End) /\ x # p
        BY <1>4, <3>0, <3>3
      <3> QED BY <3>1, <3>2, <3>3
    <2> QED BY <2>1
  <1>6. s[rest] \in MemItems /\ s[rest].used = FALSE /\ s[rest].next = e /\ s[rest].prev = p
    <2>1. s[rest] = MemItem(FALSE, e, p)
      BY <1>4
    <2> QED BY <1>1, <2>1 DEF MemItem, MemItems
  <1>7. Items(s) = Items(it) \cup {rest}
    BY <1>1, <1>4 DEF Items
  <1>8. /\ 0 \in DOMAIN s /\ End \in DOMAIN s /\ s[0].prev = 0 /\ s[End].used
        /\ DOMAIN s \subseteq 0 .. End /\ \A x \in DOMAIN s : s[x] \in MemItems
    <2>1. /\ it[End].used /\ it[0].prev = 0 /\ DOMAIN it \subseteq 0 .. End
          /\ 0 \in DOMAIN it /\ End \in DOMAIN it
      BY DEF IsHeap, Tiled
    <2>2. e # 0 /\ rest \in 0 .. End
      BY <1>1
    <2> QED BY <1>4, <1>5, <1>6, <2>1, <2>2
  <1>9. ASSUME NEW x \in Items(s)
        PROVE  /\ s[x].next \in DOMAIN s /\ s[x].next > x + Header
               /\ \A q \in Items(s) : q <= x \/ q >= s[x].next
               /\ x # 0 => s[x].prev \in Items(s) /\ s[s[x].prev].next = x
    <2>1. CASE x = rest
      <3>1. ASSUME NEW q \in Items(s) PROVE q <= rest \/ q >= e
        <4>1. CASE q = rest
          BY <1>1, <4>1
        <4>2. CASE q \in Items(it)
          <5>1. q \in Nat /\ (q <= p \/ q >= e)
            BY <4>2, HeapNumbers DEF e
          <5> QED BY <1>1, <5>1
        <4> QED BY <1>7, <4>1, <4>2
      <3>2. s[p].next = rest /\ p \in Items(s)
        BY <1>1, <1>5, <1>7
      <3> QED BY <1>1, <1>4, <1>6, <2>1, <3>1, <3>2
    <2>2. CASE x \in Items(it)
      <3>0. x \in DOMAIN it /\ x \in Nat /\ x # rest
        <4>1. x \in DOMAIN it /\ x \in Nat
          BY <2>2, HeapNumbers
        <4> QED BY <1>2, <4>1
      <3>4. ASSUME x # 0 PROVE s[x].prev \in Items(s) /\ s[s[x].prev].next = x
        <4>1. PICK y : y = it[x].prev
          OBVIOUS
        <4>2. y \in Items(it) /\ it[y].next = x /\ y \in DOMAIN it
          BY <2>2, <3>4, <4>1, HeapNumbers
        <4>3. CASE x = e /\ e # End
          BY <1>5, <1>6, <1>7, <3>0, <4>3
        <4>4. CASE ~(x = e /\ e # End)
          <5>1. x # End
            BY <2>2 DEF Items
          <5>2. y # p
            BY <4>2, <4>4, <5>1 DEF e
          <5> QED BY <1>5, <1>7, <3>0, <4>1, <4>2, <4>4, <5>2
        <4> QED BY <4>3, <4>4
      <3>1. CASE x = p
        <4>1. s[x].next = rest
          BY <1>5, <3>0, <3>1
        <4>2. ASSUME NEW q \in Items(s) PROVE q <= p \/ q >= rest
          <5>1. CASE q = rest
            BY <1>1, <5>1
          <5>2. CASE q \in Items(it)
            <6>1. q \in Nat /\ (q <= p \/ q >= e)
              BY <5>2, HeapNumbers DEF e
            <6> QED BY <1>1, <6>1
          <5> QED BY <1>7, <5>1, <5>2
        <4>3. rest \in DOMAIN s /\ rest > x + Header
          BY <1>1, <1>4, <3>1
        <4> QED BY <3>1, <3>4, <4>1, <4>2, <4>3
      <3>2. CASE x # p
        <4>1. s[x].next = it[x].next /\ it[x].next \in DOMAIN s /\ it[x].next > x + Header
          BY <1>4, <1>5, <2>2, <3>0, <3>2, HeapNumbers
        <4>2. ASSUME NEW q \in Items(s) PROVE q <= x \/ q >= it[x].next
          <5>1. CASE q = rest
            <6>1. x <= p \/ x >= e
              BY <2>2, HeapNumbers DEF e
            <6>2. p <= x \/ p >= it[x].next
              BY <2>2, HeapNumbers
            <6>3. it[x].next \in Nat
              BY <3>0, HeapNumbers
            <6> QED BY <1>1, <3>0, <3>2, <5>1, <6>1, <6>2, <6>3
          <5>2. CASE q \in Items(it)
            BY <2>2, <5>2, HeapNumbers
          <5> QED BY <1>7, <5>1, <5>2
        <4> QED BY <3>4, <4>1, <4>2
      <3> QED BY <3>1, <3>2
    <2> QED BY <1>7, <2>1, <2>2
  <1>10. Tiled(s)
    BY <1>8, <1>9 DEF Tiled
  <1>11. IsHeap(s)
    BY <1>8, <1>10 DEF IsHeap
  <1>12. \A x \in Items(it) : s[x].used = it[x].used /\ (x # p => s[x].next = it[x].next)
    BY <1>5 DEF Items
  <1>13. s[p].next = rest
    BY <1>1, <1>5
  <1> QED BY <1>1, <1>2, <1>6, <1>7, <1>11, <1>12, <1>13 DEF s, rest, e

HeapOK(it, low) == IsHeap(it) /\ Coalesced(it) /\ IsLowest(it, low)

(* The used items that are left are those of S, and as long as before. *)
KeepsUsed(it, h, S) == UsedItems(h) = S /\ \A x \in S : h[x].next = it[x].next

LEMMA UsedOrFree ==
    ASSUME NEW it, IsHeap(it)
    PROVE  /\ \A x \in Items(it) : x \in FreeItems(it) <=> ~(x \in UsedItems(it))
           /\ \A x : x \in FreeItems(it) <=> x \in Items(it) /\ ~it[x].used
           /\ \A x : x \in UsedItems(it) <=> x \in Items(it) /\ it[x].used
           /\ \A x \in DOMAIN it : ~it[x].used => x \in FreeItems(it)
           /\ End \notin FreeItems(it) /\ End \notin UsedItems(it)
  <1>1. it[End].used
    BY DEF IsHeap
  <1> QED BY <1>1, Zenon DEF Items, FreeItems, UsedItems

LEMMA SetUsedLemma ==
    ASSUME NEW it, IsHeap(it), NEW p \in Items(it), NEW b \in BOOLEAN
    PROVE  LET f == [it EXCEPT ![p].used = b]
           IN  /\ IsHeap(f) /\ Items(f) = Items(it) /\ DOMAIN f = DOMAIN it
               /\ \A x \in DOMAIN it : f[x].next = it[x].next
               /\ f[p].used = b /\ \A x \in DOMAIN it \ {p} : f[x].used = it[x].used
  <1> DEFINE f == [it EXCEPT ![p].used = b]
  <1>1. p \in DOMAIN it /\ p # End /\ \A x \in DOMAIN it : it[x] \in MemItems
    BY HeapNumbers
  <1>2. /\ DOMAIN f = DOMAIN it
        /\ \A x \in DOMAIN it : f[x] = IF x = p THEN [it[p] EXCEPT !.used = b] ELSE it[x]
    OBVIOUS
  <1> HIDE DEF f
  <1>3. ASSUME NEW x \in DOMAIN it
        PROVE  f[x] \in MemItems /\ f[x].next = it[x].next /\ f[x].prev = it[x].prev
    <2>1. CASE x = p
      <3>1. f[x] = [it[x] EXCEPT !.used = b] /\ it[x] \in MemItems
        BY <1>1, <1>2, <2>1
      <3> QED BY <3>1 DEF MemItems
    <2>2. CASE x # p
      BY <1>1, <1>2, <2>2
    <2> QED BY <2>1, <2>2
  <1>4. f[p].used = b
    <2>1. f[p] = [it[p] EXCEPT !.used = b] /\ it[p] \in MemItems
      BY <1>1, <1>2
    <2> QED BY <2>1 DEF MemItems
  <1>5. \A x \in DOMAIN it \ {p} : f[x].used = it[x].used
    BY <1>2
  <1>6. Items(f) = Items(it)
    BY <1>2 DEF Items
  <1>7. Tiled(f)
    <2>1. {0, End} \subseteq DOMAIN f /\ f[0].prev = 0
      BY <1>2, <1>3 DEF IsHeap, Tiled
    <2>2. ASSUME NEW x \in Items(f)
          PROVE  /\ f[x].next \in DOMAIN f /\ f[x].next > x + Header
                 /\ \A q \in Items(f) : q <= x \/ q >= f[x].next
                 /\ x # 0 => f[x].prev \in Items(f) /\ f[f[x].prev].next = x
      <3>1. x \in DOMAIN it /\ x \in Items(it)
        BY <1>6, HeapNumbers
      <3>2. /\ it[x].next \in DOMAIN it /\ it[x].next > x + Header
            /\ \A q \in Items(it) : q <= x \/ q >= it[x].next
            /\ x # 0 => /\ it[x].prev \in Items(it) /\ it[it[x].prev].next = x
                        /\ it[x].prev \in DOMAIN it
        BY <3>1, HeapNumbers
      <3> QED BY <1>2, <1>3, <1>6, <3>1, <3>2
    <2> QED BY <2>1, <2>2 DEF Tiled
  <1>8. IsHeap(f)
    BY <1>1, <1>2, <1>3, <1>5, <1>7, HeapNumbers DEF IsHeap
  <1> QED BY <1>2, <1>3, <1>4, <1>5, <1>6, <1>8 DEF f

(* Two free items become one. *)
LEMMA MergeFreeLemma ==
    ASSUME NEW it, IsHeap(it), NEW p \in FreeItems(it), NEW n \in FreeItems(it), it[p].next = n,
           NEW low, IsLowest(it, low)
    PROVE  LET m == Merged(it, p, n)
           IN  /\ IsHeap(m) /\ IsLowest(m, low) /\ low # n
               /\ FreeItems(m) = FreeItems(it) \ {n} /\ KeepsUsed(it, m, UsedItems(it))
               /\ m[p].next = it[n].next
               /\ \A x \in FreeItems(m) : x # p => m[x].next = it[x].next
  <1> DEFINE m == Merged(it, p, n)
  <1>1. p \in Items(it) /\ n \in Items(it) /\ ~it[n].used /\ ~it[p].used /\ p # n /\ p \in Nat /\ n \in Nat /\ p < n
    BY UsedOrFree, HeapNumbers
  <1>2. /\ IsHeap(m) /\ DOMAIN m = DOMAIN it \ {n} /\ Items(m) = Items(it) \ {n}
        /\ m[p].next = it[n].next
        /\ \A x \in DOMAIN m : m[x].used = it[x].used /\ (x # p => m[x].next = it[x].next)
    BY <1>1, MergedLemma
  <1> HIDE DEF m
  <1>3. \A x \in Items(m) : x \in DOMAIN m
    BY DEF Items
  <1>4. FreeItems(m) = FreeItems(it) \ {n}
    BY <1>2, <1>3 DEF FreeItems
  <1>5. UsedItems(m) = UsedItems(it)
    BY <1>1, <1>2, <1>3 DEF UsedItems
  <1>6. KeepsUsed(it, m, UsedItems(it))
    BY <1>1, <1>2, <1>3, <1>5 DEF KeepsUsed, UsedItems
  <1>7. low # n /\ IsLowest(m, low)
    <2>1. low \in FreeItems(it) \cup {End} /\ \A x \in FreeItems(it) : low <= x
      BY DEF IsLowest
    <2>2. low # n
      BY <1>1, <2>1
    <2> QED BY <1>4, <2>1, <2>2 DEF IsLowest
  <1>8. \A x \in FreeItems(m) : x # p => m[x].next = it[x].next
    BY <1>2, <1>3 DEF FreeItems
  <1> QED BY <1>2, <1>4, <1>6, <1>7, <1>8 DEF m

(* plug_holes leaves no free item next to p, which is the only one that has *)
(* a free neighbour.                                                       *)
LEMMA PlugLemma ==
    ASSUME NEW it, IsHeap(it), NEW p \in FreeItems(it), NEW low, IsLowest(it, low),
           \A x \in FreeItems(it) : it[x].next \in FreeItems(it) => x = p \/ it[x].next = p
    PROVE  LET h == plug_holes(it, low, p)
           IN  HeapOK(h.item, h.lfree) /\ KeepsUsed(it, h.item, UsedItems(it))
  <1> DEFINE n        == it[p].next
             forward  == p # n /\ ~it[n].used /\ n # End
             it1      == IF forward THEN Merged(it, p, n) ELSE it
             low1     == IF forward /\ low = n THEN p ELSE low
             q        == it1[p].prev
             backward == q # p /\ ~it1[q].used
             it2      == IF backward THEN Merged(it1, q, p) ELSE it1
             low2     == IF backward /\ low1 = p THEN q ELSE low1
  <1>1. plug_holes(it, low, p) = [item |-> it2, lfree |-> low2]
    BY DEF plug_holes
  <1>2. p \in Items(it) /\ n \in DOMAIN it /\ p # n /\ (forward <=> n \in FreeItems(it))
    <2>1. p \in Items(it)
      BY UsedOrFree
    <2>2. n \in DOMAIN it /\ p # n /\ p \in Nat /\ n \in Nat
      BY <2>1, HeapNumbers
    <2>3. n \in FreeItems(it) <=> ~it[n].used /\ n # End
      BY <2>2, UsedOrFree
    <2> QED BY <2>1, <2>2, <2>3
  <1>3. /\ IsHeap(it1) /\ IsLowest(it1, low) /\ low1 = low /\ p \in FreeItems(it1)
        /\ KeepsUsed(it, it1, UsedItems(it)) /\ it1[p].next \notin FreeItems(it1)
        /\ \A x \in FreeItems(it1) : it1[x].next \in FreeItems(it1) => it1[x].next = p
    <2> HIDE DEF n
    <2>1. CASE forward
      <3> DEFINE m == Merged(it, p, n)
      <3>1. /\ IsHeap(m) /\ IsLowest(m, low) /\ low # n
            /\ FreeItems(m) = FreeItems(it) \ {n} /\ KeepsUsed(it, m, UsedItems(it))
            /\ m[p].next = it[n].next
            /\ \A x \in FreeItems(m) : x # p => m[x].next = it[x].next
        BY <1>2, <2>1, MergeFreeLemma DEF n
      <3>2. it1 = m /\ low1 = low
        BY <2>1, <3>1
      <3> HIDE DEF m, it1, low1, forward
      <3>3. p \in FreeItems(m) /\ n \in FreeItems(it)
        BY <1>2, <2>1, <3>1
      <3>4. m[p].next \notin FreeItems(m)
        <4>1. ASSUME it[n].next \in FreeItems(it) PROVE FALSE
          <5>1. it[n].next = p
            BY <1>2, <3>3, <4>1
          <5>2. n \in Items(it) /\ n \in Nat /\ p \in Nat /\ n > p /\ it[n].next > n
            BY <1>2, <3>3, UsedOrFree, HeapNumbers DEF n
          <5> QED BY <5>1, <5>2
        <4> QED BY <3>1, <4>1
      <3>5. ASSUME NEW x \in FreeItems(m), m[x].next \in FreeItems(m) PROVE m[x].next = p
        <4>1. x # p
          BY <3>4, <3>5
        <4> QED BY <3>1, <3>5, <4>1
      <3> QED BY <3>1, <3>2, <3>3, <3>4, <3>5
    <2>2. CASE ~forward
      <3>1. it1 = it /\ low1 = low
        BY <2>2
      <3>2. n \notin FreeItems(it)
        BY <1>2, <2>2
      <3> HIDE DEF it1, low1, forward
      <3>3. it[p].next \notin FreeItems(it)
        BY <3>2 DEF n
      <3>4. KeepsUsed(it, it, UsedItems(it))
        BY DEF KeepsUsed
      <3>5. ASSUME NEW x \in FreeItems(it), it[x].next \in FreeItems(it) PROVE it[x].next = p
        BY <3>3, <3>5
      <3> QED BY <3>1, <3>3, <3>4, <3>5
    <2> QED BY <2>1, <2>2
  <1> HIDE DEF it1, low1, n, forward
  <1>4. p \in Items(it1) /\ (p = 0 => q = 0)
        /\ (p # 0 => q \in Items(it1) /\ it1[q].next = p /\ q # p)
    <2>1. p \in Items(it1)
      BY <1>3, UsedOrFree
    <2>2. it1[0].prev = 0
      BY <1>3 DEF IsHeap, Tiled
    <2>3. p # 0 => q \in Items(it1) /\ it1[q].next = p
      BY <1>3, <2>1, HeapNumbers
    <2> HIDE DEF q
    <2>4. \A x \in Items(it1) : it1[x].next # x
      <3>1. \A x \in Items(it1) : x \in Nat /\ it1[x].next \in Nat /\ it1[x].next > x
        BY <1>3, HeapNumbers
      <3> QED BY <3>1
    <2> QED BY <2>1, <2>2, <2>3, <2>4 DEF q
  <1>5. backward <=> q \in FreeItems(it1) /\ it1[q].next = p
    BY <1>3, <1>4, UsedOrFree
  <1>6. CASE backward
    <2> DEFINE m == Merged(it1, q, p)
    <2> HIDE DEF q
    <2>1. /\ IsHeap(m) /\ IsLowest(m, low) /\ low # p
          /\ FreeItems(m) = FreeItems(it1) \ {p} /\ KeepsUsed(it1, m, UsedItems(it1))
          /\ m[q].next = it1[p].next
          /\ \A x \in FreeItems(m) : x # q => m[x].next = it1[x].next
      BY <1>3, <1>5, <1>6, MergeFreeLemma
    <2>2. it2 = m /\ low2 = low
      BY <1>3, <1>6, <2>1
    <2> HIDE DEF m, it2, low2, backward
    <2>3. Coalesced(m)
      <3>1. ASSUME NEW x \in FreeItems(m), m[x].next \in FreeItems(m) PROVE FALSE
        BY <1>3, <2>1, <3>1
      <3> QED BY <3>1 DEF Coalesced
    <2>4. KeepsUsed(it, m, UsedItems(it))
      BY <1>3, <2>1 DEF KeepsUsed
    <2> QED BY <1>1, <2>1, <2>2, <2>3, <2>4 DEF HeapOK
  <1>7. CASE ~backward
    <2> HIDE DEF q
    <2>1. it2 = it1 /\ low2 = low
      BY <1>3, <1>7
    <2>2. q \notin FreeItems(it1) \/ it1[q].next # p
      BY <1>5, <1>7
    <2> HIDE DEF it2, low2, backward
    <2>3. Coalesced(it1)
      <3>1. ASSUME NEW x \in FreeItems(it1), it1[x].next \in FreeItems(it1) PROVE FALSE
        <4>1. it1[x].next = p /\ x \in Items(it1)
          BY <1>3, <3>1, UsedOrFree
        <4>2. it1[p].prev = x
          BY <1>3, <1>4, <4>1, PreviousLemma
        <4> QED BY <2>2, <3>1, <4>1, <4>2 DEF q
      <3> QED BY <3>1 DEF Coalesced
    <2> QED BY <1>1, <1>3, <2>1, <2>3 DEF HeapOK
  <1> QED BY <1>6, <1>7

(* An item that is freed. *)
LEMMA FreedLemma ==
    ASSUME NEW it, NEW low, HeapOK(it, low), NEW p \in UsedItems(it)
    PROVE  LET h == Freed(it, low, p)
           IN  HeapOK(h.item, h.lfree) /\ KeepsUsed(it, h.item, UsedItems(it) \ {p})
  <1> DEFINE f    == [it EXCEPT ![p].used = FALSE]
             low1 == IF p < low THEN p ELSE low
  <1>1. Freed(it, low, p) = plug_holes(f, low1, p)
    BY DEF Freed
  <1>2. IsHeap(it) /\ p \in Items(it) /\ it[p].used
    BY UsedOrFree DEF HeapOK
  <1>3. /\ IsHeap(f) /\ Items(f) = Items(it) /\ DOMAIN f = DOMAIN it
        /\ \A x \in DOMAIN it : f[x].next = it[x].next
        /\ f[p].used = FALSE /\ \A x \in DOMAIN it \ {p} : f[x].used = it[x].used
    BY <1>2, SetUsedLemma
  <1> HIDE DEF f
  <1>4. Items(it) \subseteq DOMAIN it
    BY DEF Items
  <1>5. FreeItems(f) = FreeItems(it) \cup {p} /\ UsedItems(f) = UsedItems(it) \ {p}
    BY <1>2, <1>3, <1>4 DEF FreeItems, UsedItems
  <1>6. IsLowest(f, low1)
    <2>1. low \in FreeItems(it) \cup {End} /\ \A x \in FreeItems(it) : low <= x
      BY DEF HeapOK, IsLowest
    <2>2. \A x \in FreeItems(it) \cup {p} : x \in Nat /\ x < End
      BY <1>2, UsedOrFree, HeapNumbers
    <2>3. low \in Nat /\ (low = End => p < low)
      BY <2>1, <2>2, EndLemma
    <2>4. CASE p < low
      <3>1. ASSUME NEW x \in FreeItems(it) \cup {p} PROVE p <= x
        <4>1. p \in Nat /\ x \in Nat /\ (x = p \/ low <= x)
          BY <2>1, <2>2
        <4> QED BY <2>3, <2>4, <4>1
      <3> QED BY <1>5, <2>4, <3>1 DEF IsLowest
    <2>5. CASE ~(p < low)
      <3>1. \A x \in FreeItems(it) \cup {p} : low <= x
        BY <2>1, <2>2, <2>3, <2>5
      <3> QED BY <1>5, <2>1, <2>3, <2>5, <3>1 DEF IsLowest
    <2> QED BY <2>4, <2>5
  <1> HIDE DEF low1
  <1>7. ASSUME NEW x \in FreeItems(f), f[x].next \in FreeItems(f)
        PROVE  x = p \/ f[x].next = p
    BY <1>3, <1>4, <1>5, <1>7 DEF HeapOK, Coalesced, FreeItems
  <1>8. /\ HeapOK(plug_holes(f, low1, p).item, plug_holes(f, low1, p).lfree)
        /\ KeepsUsed(f, plug_holes(f, low1, p).item, UsedItems(f))
    <2>1. p \in FreeItems(f)
      BY <1>5
    <2> QED BY <1>3, <1>6, <1>7, <2>1, PlugLemma
  <1>9. KeepsUsed(it, plug_holes(f, low1, p).item, UsedItems(it) \ {p})
    <2>1. \A x \in UsedItems(it) : x \in DOMAIN it
      BY <1>4 DEF UsedItems
    <2> QED BY <1>3, <1>5, <1>8, <2>1 DEF KeepsUsed
  <1> QED BY <1>1, <1>8, <1>9

(* The least of T from p on. *)
Above(T, p)  == {x \in T : x >= p}
NextIn(T, p) == IF Above(T, p) = {} THEN None
                ELSE CHOOSE x \in Above(T, p) : \A y \in Above(T, p) : x <= y

LEMMA NextInLemma ==
    ASSUME NEW T, T \subseteq Nat, NEW p \in Nat, Above(T, p) # {}
    PROVE  NextIn(T, p) \in Above(T, p) /\ \A y \in Above(T, p) : NextIn(T, p) <= y
  <1>1. Above(T, p) \subseteq Nat
    BY DEF Above
  <1>2. \E x \in Above(T, p) : \A y \in Above(T, p) : x <= y
    BY <1>1, LeastLemma
  <1> QED BY <1>2 DEF NextIn

LEMMA NextInSelf ==
    ASSUME NEW T, T \subseteq Nat, NEW p \in T
    PROVE  NextIn(T, p) = p
  <1>1. p \in Nat /\ p \in Above(T, p) /\ \A y \in Above(T, p) : p <= y /\ y \in Nat
    BY DEF Above
  <1>2. NextIn(T, p) \in Above(T, p) /\ NextIn(T, p) <= p
    BY <1>1, NextInLemma
  <1>3. p <= NextIn(T, p) /\ NextIn(T, p) \in Nat
    BY <1>1, <1>2
  <1> QED BY <1>1, <1>2, <1>3

LEMMA NextInStep ==
    ASSUME NEW it, IsHeap(it), NEW T, T \subseteq DOMAIN it, NEW p \in Items(it), p \notin T
    PROVE  NextIn(T, p) = NextIn(T, it[p].next)
  <1>1. \A x \in DOMAIN it : x \in Nat /\ x <= End /\ (x # End => x \in Items(it))
    BY HeapNumbers DEF Items
  <1>2. /\ p \in Nat /\ it[p].next \in Nat /\ it[p].next > p /\ it[p].next <= End
        /\ \A q \in Items(it) : q <= p \/ q >= it[p].next
    BY HeapNumbers
  <1>3. ASSUME NEW x \in T PROVE x >= p <=> x >= it[p].next
    BY <1>1, <1>2, EndLemma
  <1>4. Above(T, p) = Above(T, it[p].next)
    BY <1>3 DEF Above
  <1> QED BY <1>4 DEF NextIn

(* A walk that stops at the items of T, or where none of T is left. *)
LEMMA WalkLemma ==
    ASSUME NEW it, IsHeap(it), NEW T, T \subseteq DOMAIN it, NEW f,
           \A p \in DOMAIN it : \/ f[p] = NextIn(T, p)
                                \/ p \in Items(it) \ T /\ f[p] = f[it[p].next]
    PROVE  \A p \in DOMAIN it : f[p] = NextIn(T, p)
  <1> DEFINE C == {p \in DOMAIN it : f[p] # NextIn(T, p)}
             D == {End - p : p \in C}
  <1>1. SUFFICES ASSUME C # {} PROVE FALSE
    OBVIOUS
  <1>2. \A p \in DOMAIN it : p \in Nat /\ p <= End /\ End - p \in Nat
    BY HeapNumbers, EndLemma
  <1>3. D \subseteq Nat /\ D # {}
    BY <1>1, <1>2
  <1>4. PICK d \in D : \A r \in D : d <= r
    <2> HIDE DEF D
    <2> QED BY <1>3, LeastLemma
  <1>5. PICK p \in C : d = End - p
    OBVIOUS
  <1>6. p \in DOMAIN it /\ f[p] # NextIn(T, p)
    OBVIOUS
  <1>7. p \in Items(it) /\ p \notin T /\ f[p] = f[it[p].next]
    BY <1>6
  <1>8. it[p].next \in DOMAIN it /\ it[p].next > p
    BY <1>7, HeapNumbers
  <1>9. it[p].next \notin C
    <2>1. SUFFICES ASSUME it[p].next \in C PROVE FALSE
      OBVIOUS
    <2>2. End - it[p].next \in D
      BY <2>1
    <2> HIDE DEF C, D
    <2>3. End - p <= End - it[p].next
      BY <1>4, <1>5, <2>2
    <2> QED BY <1>2, <1>6, <1>8, <2>3, EndLemma
  <1>10. f[it[p].next] = NextIn(T, it[p].next)
    BY <1>8, <1>9
  <1> QED BY <1>6, <1>7, <1>10, NextInStep

(* The items that hold n words. *)
Fitting(it, n) == {p \in DOMAIN it : Fits(it, p, n)}

LEMMA FittingLemma ==
    ASSUME NEW it, IsHeap(it), NEW n \in Nat
    PROVE  /\ Fitting(it, n) \subseteq FreeItems(it) /\ Fitting(it, n) \subseteq DOMAIN it
           /\ \A p \in Fitting(it, n) : p <= Total - n /\ p \in Nat
  <1>1. \A p \in Fitting(it, n) : p \in FreeItems(it) /\ p \in DOMAIN it
    BY UsedOrFree DEF Fitting, Fits
  <1>2. ASSUME NEW p \in Fitting(it, n) PROVE p <= Total - n /\ p \in Nat
    <2>1. p \in Items(it) /\ it[p].next - p - Header >= n
      BY <1>1, UsedOrFree DEF Fitting, Fits, Length
    <2>2. p \in Nat /\ it[p].next \in Nat /\ it[p].next <= End
      BY <2>1, HeapNumbers
    <2> QED BY <2>1, <2>2, EndLemma
  <1> QED BY <1>1, <1>2

(* What the definition of FirstFit asks of its function. *)
IsSearch(it, n, h) ==
    h = [p \in DOMAIN it |->
            IF p > Total - n THEN None
            ELSE IF Fits(it, p, n) THEN p
            ELSE h[it[p].next]]

LEMMA SearchExists ==
    ASSUME NEW it, IsHeap(it), NEW n \in Nat
    PROVE  \E h : IsSearch(it, n, h)
  <1> DEFINE T == Fitting(it, n)
             g == [p \in DOMAIN it |-> NextIn(T, p)]
  <1>1. T \subseteq DOMAIN it /\ \A x \in T : x <= Total - n /\ x \in Nat
    BY FittingLemma
  <1>2. ASSUME NEW p \in DOMAIN it
        PROVE  NextIn(T, p) = IF p > Total - n THEN None
                              ELSE IF Fits(it, p, n) THEN p ELSE g[it[p].next]
    <2>1. CASE p > Total - n
      <3>1. p \in Nat
        BY HeapNumbers
      <3> HIDE DEF T
      <3>2. Above(T, p) = {}
        BY <1>1, <2>1, <3>1, EndLemma DEF Above
      <3> QED BY <2>1, <3>2 DEF NextIn
    <2>2. CASE ~(p > Total - n) /\ Fits(it, p, n)
      <3>1. p \in T /\ T \subseteq Nat
        BY <1>1, <2>2 DEF Fitting
      <3> HIDE DEF T
      <3> QED BY <2>2, <3>1, NextInSelf
    <2>3. CASE ~(p > Total - n) /\ ~Fits(it, p, n)
      <3>1. p \notin T
        BY <2>3 DEF Fitting
      <3>2. p \in Nat /\ p # End
        BY <2>3, HeapNumbers, EndLemma
      <3>3. p \in Items(it)
        BY <3>2 DEF Items
      <3>4. it[p].next \in DOMAIN it
        BY <3>3, HeapNumbers
      <3> HIDE DEF T
      <3>5. NextIn(T, p) = NextIn(T, it[p].next)
        BY <1>1, <3>1, <3>3, NextInStep
      <3> QED BY <2>3, <3>4, <3>5
    <2> QED BY <2>1, <2>2, <2>3
  <1>3. g = [p \in DOMAIN it |-> NextIn(T, p)]
    OBVIOUS
  <1> HIDE DEF g, T
  <1>4. g = [p \in DOMAIN it |-> IF p > Total - n THEN None
                                 ELSE IF Fits(it, p, n) THEN p ELSE g[it[p].next]]
    BY <1>2, <1>3, Zenon
  <1>5. IsSearch(it, n, g)
    BY <1>4, Zenon DEF IsSearch
  <1> QED BY <1>5

LEMMA SearchLemma ==
    ASSUME NEW it, IsHeap(it), NEW n \in Nat, NEW low \in DOMAIN it
    PROVE  FirstFit(it, low, n) = NextIn(Fitting(it, n), low)
  <1>1. PICK g : g = CHOOSE h : IsSearch(it, n, h)
    OBVIOUS
  <1>2. IsSearch(it, n, g)
    BY <1>1, SearchExists
  <1>3. FirstFit(it, low, n) = g[low]
    BY <1>1, Zenon DEF FirstFit, IsSearch
  <1>4. \A p \in DOMAIN it :
           g[p] = IF p > Total - n THEN None
                  ELSE IF Fits(it, p, n) THEN p
                  ELSE g[it[p].next]
    <2>1. g = [p \in DOMAIN it |->
                  IF p > Total - n THEN None
                  ELSE IF Fits(it, p, n) THEN p
                  ELSE g[it[p].next]]
      BY <1>2, Zenon DEF IsSearch
    <2> QED BY <2>1, Zenon
  <1> DEFINE T == Fitting(it, n)
  <1>5. T \subseteq DOMAIN it /\ \A x \in T : x <= Total - n /\ x \in Nat
    BY FittingLemma
  <1>6. ASSUME NEW p \in DOMAIN it
        PROVE  \/ g[p] = NextIn(T, p)
               \/ p \in Items(it) \ T /\ g[p] = g[it[p].next]
    <2>1. CASE p > Total - n
      <3>1. p \in Nat
        BY HeapNumbers
      <3> HIDE DEF T
      <3>2. Above(T, p) = {}
        BY <1>5, <2>1, <3>1, EndLemma DEF Above
      <3> QED BY <1>4, <2>1, <3>2 DEF NextIn
    <2>2. CASE ~(p > Total - n) /\ Fits(it, p, n)
      <3>1. p \in T /\ T \subseteq Nat
        BY <1>5, <2>2 DEF Fitting
      <3> HIDE DEF T
      <3> QED BY <1>4, <2>2, <3>1, NextInSelf
    <2>3. CASE ~(p > Total - n) /\ ~Fits(it, p, n)
      <3>1. p \notin T
        BY <2>3 DEF Fitting
      <3>2. p \in Nat /\ p # End
        BY <2>3, HeapNumbers, EndLemma
      <3>3. p \in Items(it)
        BY <3>2 DEF Items
      <3> HIDE DEF T
      <3> QED BY <1>4, <2>3, <3>1, <3>3
    <2> QED BY <2>1, <2>2, <2>3
  <1> HIDE DEF T
  <1>7. \A p \in DOMAIN it : g[p] = NextIn(T, p)
    BY <1>5, <1>6, WalkLemma
  <1> QED BY <1>3, <1>7 DEF T

(* The first item that fits is found when there is one. *)
LEMMA FirstFitLemma ==
    ASSUME NEW it, NEW low, HeapOK(it, low), NEW n \in Nat
    PROVE  LET b == FirstFit(it, low, n)
           IN  /\ b # None => b \in FreeItems(it) /\ Length(it, b) >= n
               /\ Fitting(it, n) # {} => b # None
  <1> DEFINE T == Fitting(it, n)
  <1>1. IsHeap(it) /\ low \in FreeItems(it) \cup {End} /\ \A x \in FreeItems(it) : low <= x
    BY DEF HeapOK, IsLowest
  <1>2. low \in DOMAIN it /\ low \in Nat
    BY <1>1, UsedOrFree, HeapNumbers
  <1>3. FirstFit(it, low, n) = NextIn(T, low)
    BY <1>1, <1>2, SearchLemma
  <1>4. T \subseteq FreeItems(it) /\ T \subseteq Nat
    BY <1>1, FittingLemma
  <1>5. \A x \in T : Length(it, x) >= n
    BY DEF Fitting, Fits
  <1> HIDE DEF T
  <1>6. Above(T, low) = T
    BY <1>1, <1>4 DEF Above
  <1>7. T # {} => NextIn(T, low) \in T
    BY <1>2, <1>4, <1>6, NextInLemma
  <1>8. T = {} => NextIn(T, low) = None
    BY <1>6 DEF NextIn
  <1>9. None \notin T
    BY <1>4 DEF None
  <1> QED BY <1>3, <1>4, <1>5, <1>7, <1>8, <1>9 DEF T

(* What the definition of NextFree asks of its function. *)
IsFreeSearch(it, h) ==
    h = [p \in DOMAIN it |-> IF it[p].used /\ p # End THEN h[it[p].next] ELSE p]

LEMMA FreeSearchExists ==
    ASSUME NEW it, IsHeap(it)
    PROVE  \E h : IsFreeSearch(it, h)
  <1> DEFINE T == FreeItems(it) \cup {End}
             g == [p \in DOMAIN it |-> NextIn(T, p)]
  <1>1. T \subseteq DOMAIN it /\ T \subseteq Nat
    BY HeapNumbers DEF FreeItems
  <1>2. ASSUME NEW p \in DOMAIN it
        PROVE  NextIn(T, p) = IF it[p].used /\ p # End THEN g[it[p].next] ELSE p
    <2>1. CASE it[p].used /\ p # End
      <3>1. p \in Items(it) /\ p \notin T
        BY <2>1 DEF Items, FreeItems
      <3>2. it[p].next \in DOMAIN it
        BY <3>1, HeapNumbers
      <3> HIDE DEF T
      <3> QED BY <1>1, <2>1, <3>1, <3>2, NextInStep
    <2>2. CASE ~(it[p].used /\ p # End)
      <3>1. p \in T
        BY <2>2, UsedOrFree
      <3> HIDE DEF T
      <3> QED BY <1>1, <2>2, <3>1, NextInSelf
    <2> QED BY <2>1, <2>2
  <1>3. g = [p \in DOMAIN it |-> NextIn(T, p)]
    OBVIOUS
  <1> HIDE DEF g, T
  <1>4. g = [p \in DOMAIN it |-> IF it[p].used /\ p # End THEN g[it[p].next] ELSE p]
    BY <1>2, <1>3, Zenon
  <1>5. IsFreeSearch(it, g)
    BY <1>4, Zenon DEF IsFreeSearch
  <1> QED BY <1>5

LEMMA NextFreeLemma ==
    ASSUME NEW it, IsHeap(it), NEW low \in DOMAIN it, \A x \in FreeItems(it) : low <= x
    PROVE  IsLowest(it, NextFree(it, low))
  <1>1. PICK g : g = CHOOSE h : IsFreeSearch(it, h)
    OBVIOUS
  <1>2. IsFreeSearch(it, g)
    BY <1>1, FreeSearchExists
  <1>3. NextFree(it, low) = g[low]
    BY <1>1, Zenon DEF NextFree, IsFreeSearch
  <1>4. \A p \in DOMAIN it : g[p] = IF it[p].used /\ p # End THEN g[it[p].next] ELSE p
    <2>1. g = [p \in DOMAIN it |-> IF it[p].used /\ p # End THEN g[it[p].next] ELSE p]
      BY <1>2, Zenon DEF IsFreeSearch
    <2> QED BY <2>1, Zenon
  <1> DEFINE T == FreeItems(it) \cup {End}
  <1>5. T \subseteq DOMAIN it /\ T \subseteq Nat /\ End \in T /\ FreeItems(it) \subseteq T
    BY HeapNumbers DEF FreeItems
  <1>6. ASSUME NEW p \in DOMAIN it
        PROVE  \/ g[p] = NextIn(T, p)
               \/ p \in Items(it) \ T /\ g[p] = g[it[p].next]
    <2>1. CASE it[p].used /\ p # End
      <3>1. p \in Items(it) /\ p \notin T
        BY <2>1 DEF Items, FreeItems
      <3> HIDE DEF T
      <3> QED BY <1>4, <2>1, <3>1
    <2>2. CASE ~(it[p].used /\ p # End)
      <3>1. p \in T
        BY <2>2, UsedOrFree
      <3> HIDE DEF T
      <3> QED BY <1>4, <1>5, <2>2, <3>1, NextInSelf
    <2> QED BY <2>1, <2>2
  <1>7. \A x \in T : x = End \/ x \in FreeItems(it)
    OBVIOUS
  <1> HIDE DEF T
  <1>8. \A p \in DOMAIN it : g[p] = NextIn(T, p)
    BY <1>5, <1>6, WalkLemma
  <1>9. low \in Nat /\ low <= End
    BY HeapNumbers
  <1>10. End \in Above(T, low) /\ FreeItems(it) \subseteq Above(T, low) /\ Above(T, low) \subseteq T
    BY <1>5, <1>9 DEF Above
  <1>11. NextIn(T, low) \in Above(T, low) /\ \A y \in Above(T, low) : NextIn(T, low) <= y
    BY <1>5, <1>9, <1>10, NextInLemma
  <1> QED BY <1>3, <1>7, <1>8, <1>10, <1>11 DEF IsLowest

(* A free item that holds n words is taken for them. *)
LEMMA TakeLemma ==
    ASSUME NEW it, NEW low, HeapOK(it, low), NEW p \in FreeItems(it), NEW n \in Nat \ {0},
           Length(it, p) >= n
    PROVE  LET t == Take(it, low, p, n)
           IN  /\ HeapOK(t.item, t.lfree)
               /\ UsedItems(t.item) = UsedItems(it) \cup {p}
               /\ \A x \in UsedItems(it) : t.item[x].next = it[x].next
               /\ t.item[p].next >= p + Header + n
               /\ t.taken = t.item[p].next - p
  <1> DEFINE split == Length(it, p) >= n + Header + MinSize
             rest  == p + Header + n
             it1   == IF split THEN Split(it, p, n) ELSE it
             it2   == [it1 EXCEPT ![p].used = TRUE]
             low2  == IF p = low THEN NextFree(it2, low) ELSE low
  <1>1. Take(it, low, p, n) = [item |-> it2, lfree |-> low2, taken |-> it2[p].next - p]
    BY DEF Take
  <1>2. /\ IsHeap(it) /\ p \in Items(it) /\ p \in DOMAIN it /\ p \in Nat /\ ~it[p].used
        /\ it[p].next \notin FreeItems(it) /\ it[p].next \in Nat /\ it[p].next > p
        /\ low \in FreeItems(it) \cup {End} /\ \A x \in FreeItems(it) : low <= x
    <2>1. IsHeap(it) /\ p \in Items(it) /\ ~it[p].used
      BY UsedOrFree DEF HeapOK
    <2> QED BY <2>1, HeapNumbers DEF HeapOK, Coalesced, IsLowest
  <1>3. /\ IsHeap(it1) /\ p \in FreeItems(it1) /\ UsedItems(it1) = UsedItems(it)
        /\ \A x \in UsedItems(it) : it1[x].next = it[x].next
        /\ it1[p].next >= p + Header + n
        /\ FreeItems(it) \subseteq FreeItems(it1)
        /\ \A x \in FreeItems(it1) : low <= x
        /\ \A x \in FreeItems(it1) : it1[x].next \in FreeItems(it1) => x = p
    <2>1. CASE split
      <3> DEFINE s == Split(it, p, n)
      <3>1. Length(it, p) > n + Header
        <4>1. Length(it, p) \in Int
          BY <1>2, EndLemma DEF Length
        <4> QED BY <2>1, <4>1, EndLemma
      <3>2. /\ IsHeap(s) /\ Items(s) = Items(it) \cup {rest} /\ rest \notin DOMAIN it
            /\ rest \in Nat /\ rest > p
            /\ s[p].next = rest /\ s[rest].next = it[p].next /\ ~s[rest].used
            /\ \A x \in Items(it) : s[x].used = it[x].used /\ (x # p => s[x].next = it[x].next)
        BY <1>2, <3>1, SplitLemma
      <3>3. it1 = s
        BY <2>1
      <3>4. rest >= p + Header + n
        BY <3>2
      <3> HIDE DEF it1, s, rest
      <3>5. FreeItems(s) = FreeItems(it) \cup {rest} /\ UsedItems(s) = UsedItems(it)
        BY <3>2 DEF FreeItems, UsedItems
      <3>6. \A x \in UsedItems(it) : s[x].next = it[x].next
        BY <1>2, <3>2 DEF UsedItems
      <3>7. low <= rest
        <4>1. low <= p /\ low \in Nat
          BY <1>2, UsedOrFree, HeapNumbers
        <4> QED BY <1>2, <3>2, <4>1
      <3>8. ASSUME NEW x \in FreeItems(s), s[x].next \in FreeItems(s), x # p PROVE FALSE
        <4>1. CASE x = rest
          BY <1>2, <3>2, <3>5, <3>8, <4>1, HeapNumbers
        <4>2. CASE x # rest
          <5>1. x \in FreeItems(it) /\ x \in Items(it) /\ s[x].next = it[x].next
            BY <1>2, <3>2, <3>5, <3>8, <4>2, UsedOrFree
          <5>2. it[x].next \in DOMAIN it
            BY <1>2, <5>1, HeapNumbers
          <5>3. it[x].next \in FreeItems(it)
            BY <3>2, <3>5, <3>8, <5>1, <5>2
          <5> QED BY <5>1, <5>3 DEF HeapOK, Coalesced
        <4> QED BY <4>1, <4>2
      <3> QED BY <1>2, <3>2, <3>3, <3>4, <3>5, <3>6, <3>7, <3>8
    <2>2. CASE ~split
      <3>1. it1 = it
        BY <2>2
      <3>2. it[p].next >= p + Header + n
        BY <1>2, EndLemma DEF Length
      <3> HIDE DEF it1
      <3> QED BY <1>2, <3>1, <3>2 DEF HeapOK, Coalesced
    <2> QED BY <2>1, <2>2
  <1> HIDE DEF it1, rest, split
  <1>4. p \in Items(it1) /\ p \in DOMAIN it1
    BY <1>3, UsedOrFree, HeapNumbers
  <1>5. /\ IsHeap(it2) /\ Items(it2) = Items(it1) /\ DOMAIN it2 = DOMAIN it1
        /\ \A x \in DOMAIN it1 : it2[x].next = it1[x].next
        /\ it2[p].used = TRUE /\ \A x \in DOMAIN it1 \ {p} : it2[x].used = it1[x].used
    BY <1>3, <1>4, SetUsedLemma
  <1> HIDE DEF it2
  <1>6. \A x \in Items(it1) : x \in DOMAIN it1
    BY DEF Items
  <1>7. FreeItems(it2) = FreeItems(it1) \ {p} /\ UsedItems(it2) = UsedItems(it1) \cup {p}
    BY <1>4, <1>5, <1>6 DEF FreeItems, UsedItems
  <1>8. Coalesced(it2)
    <2>1. ASSUME NEW x \in FreeItems(it2), it2[x].next \in FreeItems(it2) PROVE FALSE
      <3>1. x \in FreeItems(it1) /\ x # p /\ it2[x].next = it1[x].next
        BY <1>5, <1>6, <1>7 DEF FreeItems
      <3> QED BY <1>3, <1>7, <2>1, <3>1
    <2> QED BY <2>1 DEF Coalesced
  <1>9. IsLowest(it2, low2)
    <2>1. \A x \in FreeItems(it2) : low <= x
      BY <1>3, <1>7
    <2>2. CASE p = low
      <3>1. low \in DOMAIN it2
        BY <1>4, <1>5, <2>2
      <3> QED BY <1>5, <2>1, <2>2, <3>1, NextFreeLemma
    <2>3. CASE p # low
      BY <1>2, <1>3, <1>7, <2>1, <2>3 DEF IsLowest
    <2> QED BY <2>2, <2>3
  <1> HIDE DEF low2
  <1>10. \A x \in UsedItems(it) : it2[x].next = it[x].next
    <2>1. \A x \in UsedItems(it) : x \in DOMAIN it1
      BY <1>3, <1>6 DEF UsedItems
    <2> QED BY <1>3, <1>5, <2>1
  <1>11. it2[p].next >= p + Header + n
    BY <1>3, <1>4, <1>5
  <1> QED BY <1>1, <1>3, <1>5, <1>7, <1>8, <1>9, <1>10, <1>11 DEF HeapOK

(* A used item that is cut down to n words, the rest given back. *)
Shrunk(it, low, p, n) ==
    plug_holes(Split(it, p, n), IF p + Header + n < low THEN p + Header + n ELSE low, p + Header + n)

LEMMA ShrunkLemma ==
    ASSUME NEW it, NEW low, HeapOK(it, low), NEW p \in UsedItems(it), NEW n \in Nat \ {0},
           Length(it, p) > n + Header
    PROVE  LET h == Shrunk(it, low, p, n)
           IN  /\ HeapOK(h.item, h.lfree) /\ UsedItems(h.item) = UsedItems(it)
               /\ \A x \in UsedItems(it) \ {p} : h.item[x].next = it[x].next
               /\ h.item[p].next = p + Header + n
  <1> DEFINE s    == Split(it, p, n)
             rest == p + Header + n
             low1 == IF rest < low THEN rest ELSE low
             h    == plug_holes(s, low1, rest)
  <1>1. /\ IsHeap(it) /\ p \in Items(it) /\ p \in Nat /\ it[p].used
        /\ low \in FreeItems(it) \cup {End} /\ \A x \in FreeItems(it) : low <= x
    <2>1. IsHeap(it) /\ p \in Items(it) /\ it[p].used
      BY UsedOrFree DEF HeapOK
    <2> QED BY <2>1, HeapNumbers DEF HeapOK, IsLowest
  <1>2. /\ IsHeap(s) /\ Items(s) = Items(it) \cup {rest} /\ rest \notin DOMAIN it
        /\ rest \in Nat /\ rest > p
        /\ s[p].next = rest /\ s[rest].next = it[p].next /\ ~s[rest].used
        /\ \A x \in Items(it) : s[x].used = it[x].used /\ (x # p => s[x].next = it[x].next)
    BY <1>1, SplitLemma
  <1>3. h = Shrunk(it, low, p, n)
    BY DEF Shrunk
  <1> HIDE DEF s, rest
  <1>4. FreeItems(s) = FreeItems(it) \cup {rest} /\ UsedItems(s) = UsedItems(it)
    BY <1>2 DEF FreeItems, UsedItems
  <1>5. IsLowest(s, low1)
    <2>1. \A x \in FreeItems(it) : x \in Nat
      BY <1>1, UsedOrFree, HeapNumbers
    <2>2. low \in Nat /\ rest < End
      <3>1. rest \in Items(s)
        BY <1>2
      <3> QED BY <1>1, <1>2, <2>1, <3>1, HeapNumbers, EndLemma
    <2>3. CASE rest < low
      <3>1. ASSUME NEW x \in FreeItems(s) PROVE rest <= x
        <4>1. x \in Nat /\ (x = rest \/ low <= x)
          BY <1>1, <1>2, <1>4, <2>1
        <4> QED BY <1>2, <2>2, <2>3, <4>1
      <3> QED BY <1>4, <2>3, <3>1 DEF IsLowest
    <2>4. CASE ~(rest < low)
      <3>1. ASSUME NEW x \in FreeItems(s) PROVE low <= x
        <4>1. x \in Nat /\ (x = rest \/ low <= x)
          BY <1>1, <1>2, <1>4, <2>1
        <4> QED BY <1>2, <2>2, <2>4, <4>1
      <3>2. low # End
        BY <2>2, <2>4, EndLemma
      <3> QED BY <1>1, <1>4, <2>4, <3>1, <3>2 DEF IsLowest
    <2> QED BY <2>3, <2>4
  <1> HIDE DEF low1
  <1>6. ASSUME NEW x \in FreeItems(s), s[x].next \in FreeItems(s)
        PROVE  x = rest \/ s[x].next = rest
    <2>1. SUFFICES ASSUME x # rest, s[x].next # rest PROVE FALSE
      OBVIOUS
    <2>2. x \in FreeItems(it) /\ x \in Items(it) /\ s[x].next \in FreeItems(it)
      BY <1>1, <1>4, <1>6, <2>1, UsedOrFree
    <2>3. x # p
      BY <1>1, <2>2, UsedOrFree
    <2>4. s[x].next = it[x].next
      BY <1>2, <2>2, <2>3
    <2> QED BY <2>2, <2>4 DEF HeapOK, Coalesced
  <1>7. HeapOK(h.item, h.lfree) /\ KeepsUsed(s, h.item, UsedItems(s))
    <2>1. rest \in FreeItems(s)
      BY <1>4
    <2> QED BY <1>2, <1>5, <1>6, <2>1, PlugLemma
  <1> HIDE DEF h
  <1>8. \A x \in UsedItems(it) \ {p} : h.item[x].next = it[x].next
    BY <1>2, <1>4, <1>7 DEF KeepsUsed, UsedItems
  <1>9. h.item[p].next = rest
    BY <1>2, <1>4, <1>7 DEF KeepsUsed
  <1> QED BY <1>3, <1>4, <1>7, <1>8, <1>9 DEF KeepsUsed, rest

(* The words of the used items other than p. *)
Others(it, p) == UNION {x .. it[x].next - 1 : x \in UsedItems(it) \ {p}}

LEMMA StretchLemma ==
    ASSUME NEW it, IsHeap(it), NEW x \in UsedItems(it)
    PROVE  /\ x \in Nat /\ it[x].next \in Nat /\ it[x].next > x /\ it[x].next <= End
           /\ IsFiniteSet(x .. it[x].next - 1)
           /\ Cardinality(x .. it[x].next - 1) = it[x].next - x
           /\ \A y \in UsedItems(it) : x # y => (x .. it[x].next - 1) \cap (y .. it[y].next - 1) = {}
  <1>1. x \in Items(it)
    BY UsedOrFree
  <1>2. x \in Nat /\ it[x].next \in Nat /\ it[x].next > x /\ it[x].next <= End
    BY <1>1, HeapNumbers
  <1>3. x \in Int /\ it[x].next - 1 \in Int /\ ~(x > it[x].next - 1)
    BY <1>2
  <1>4. /\ IsFiniteSet(x .. it[x].next - 1)
        /\ Cardinality(x .. it[x].next - 1) = it[x].next - 1 - x + 1
    BY <1>3, FS_Interval
  <1>5. ASSUME NEW y \in UsedItems(it), x # y
        PROVE  (x .. it[x].next - 1) \cap (y .. it[y].next - 1) = {}
    <2>1. y \in Items(it)
      BY UsedOrFree
    <2>2. /\ y \in Nat /\ it[y].next \in Nat
          /\ (x <= y \/ x >= it[y].next) /\ (y <= x \/ y >= it[x].next)
      BY <1>1, <2>1, HeapNumbers
    <2> QED BY <1>2, <1>5, <2>2
  <1>6. it[x].next - 1 - x + 1 = it[x].next - x
    BY <1>2
  <1> QED BY <1>2, <1>4, <1>5, <1>6

LEMMA OccupiedLemma ==
    ASSUME NEW it, IsHeap(it)
    PROVE  /\ Cardinality(Occupied(it)) \in Nat
           /\ \A p \in UsedItems(it) :
                /\ Cardinality(Others(it, p)) \in Nat
                /\ Cardinality(Occupied(it)) = Cardinality(Others(it, p)) + (it[p].next - p)
  <1>1. IsFiniteSet(0 .. End)
    BY EndLemma, FS_Interval
  <1>2. Occupied(it) \subseteq 0 .. End
    <2>1. ASSUME NEW x \in UsedItems(it) PROVE x .. it[x].next - 1 \subseteq 0 .. End
      <3>1. x \in Nat /\ it[x].next \in Nat /\ it[x].next <= End
        BY StretchLemma
      <3> QED BY <3>1, EndLemma
    <2> QED BY <2>1 DEF Occupied
  <1>3. IsFiniteSet(Occupied(it)) /\ Cardinality(Occupied(it)) \in Nat
    BY <1>1, <1>2, FS_Subset, FS_CardinalityType
  <1>4. ASSUME NEW p \in UsedItems(it)
        PROVE  /\ Cardinality(Others(it, p)) \in Nat
               /\ Cardinality(Occupied(it)) = Cardinality(Others(it, p)) + (it[p].next - p)
    <2> DEFINE S == p .. it[p].next - 1
               R == Others(it, p)
    <2>1. Occupied(it) = R \cup S
      BY Zenon DEF Occupied, Others
    <2>2. R \cap S = {}
      <3>1. ASSUME NEW w \in R, w \in S PROVE FALSE
        <4>1. PICK x \in UsedItems(it) \ {p} : w \in x .. it[x].next - 1
          BY DEF Others
        <4>2. (p .. it[p].next - 1) \cap (x .. it[x].next - 1) = {}
          BY <4>1, StretchLemma
        <4> QED BY <3>1, <4>1, <4>2
      <3> QED BY <3>1
    <2>3. IsFiniteSet(S) /\ Cardinality(S) = it[p].next - p /\ it[p].next - p \in Nat
      BY StretchLemma
    <2>4. IsFiniteSet(R)
      BY <1>3, <2>1, FS_Subset
    <2> HIDE DEF R, S
    <2>5. Cardinality(R) \in Nat
      BY <2>4, FS_CardinalityType
    <2>6. Cardinality(R \cup S) = Cardinality(R) + Cardinality(S) - Cardinality({})
      BY <2>2, <2>3, <2>4, FS_Union
    <2>7. Cardinality({}) = 0
      BY FS_EmptySet
    <2> QED BY <2>1, <2>3, <2>5, <2>6, <2>7 DEF R
  <1> QED BY <1>3, <1>4

(* One used item more. *)
LEMMA OneMoreLemma ==
    ASSUME NEW it, IsHeap(it), NEW h, IsHeap(h), NEW p \in UsedItems(h),
           UsedItems(it) = UsedItems(h) \ {p}, \A x \in UsedItems(it) : h[x].next = it[x].next
    PROVE  Cardinality(Occupied(h)) = Cardinality(Occupied(it)) + (h[p].next - p)
  <1>1. Others(h, p) = Occupied(it)
    BY DEF Others, Occupied
  <1> QED BY <1>1, OccupiedLemma

(* A used item that has changed its length. *)
LEMMA OneChangedLemma ==
    ASSUME NEW it, IsHeap(it), NEW h, IsHeap(h), NEW p \in UsedItems(h),
           UsedItems(it) = UsedItems(h), \A x \in UsedItems(it) \ {p} : h[x].next = it[x].next
    PROVE  Cardinality(Occupied(h)) = Cardinality(Occupied(it)) + h[p].next - it[p].next
  <1>1. Others(h, p) = Others(it, p)
    BY DEF Others
  <1>2. h[p].next \in Nat /\ it[p].next \in Nat /\ p \in Nat
    BY StretchLemma
  <1>3. /\ Cardinality(Occupied(h)) = Cardinality(Others(h, p)) + (h[p].next - p)
        /\ Cardinality(Occupied(it)) = Cardinality(Others(it, p)) + (it[p].next - p)
        /\ Cardinality(Others(h, p)) \in Nat
    BY OccupiedLemma
  <1> QED BY <1>1, <1>2, <1>3

LEMMA HeapInitLemma == HeapInit => HeapIInv
  <1> SUFFICES ASSUME HeapInit PROVE HeapIInv
    OBVIOUS
  <1>1. DOMAIN item = {0, End} /\ 0 # End /\ End \in Nat /\ 0 \in DOMAIN item /\ End \in DOMAIN item
    BY EndLemma DEF HeapInit
  <1>2. /\ item[0].used = FALSE /\ item[0].next = End /\ item[0].prev = 0
        /\ item[End].used /\ item[0] \in MemItems /\ item[End] \in MemItems
    <2>1. \A p \in {0, End} : item[p] = MemItem(p = End, End, IF p = End THEN End ELSE 0)
      BY Zenon DEF HeapInit
    <2>2. item[0] = [used |-> 0 = End, next |-> End, prev |-> IF 0 = End THEN End ELSE 0]
      BY <2>1, Zenon DEF MemItem
    <2>3. item[End] = [used |-> End = End, next |-> End, prev |-> IF End = End THEN End ELSE 0]
      BY <2>1, Zenon DEF MemItem
    <2>4. item[0] = [used |-> FALSE, next |-> End, prev |-> 0]
      BY <1>1, <2>2
    <2>5. item[End] = [used |-> TRUE, next |-> End, prev |-> End]
      BY <2>3, Zenon
    <2> QED BY <1>1, <2>4, <2>5 DEF MemItems
  <1>3. Items(item) = {0} /\ FreeItems(item) = {0} /\ UsedItems(item) = {}
    BY <1>1, <1>2 DEF Items, FreeItems, UsedItems
  <1>4. Tiled(item)
    BY <1>1, <1>2, <1>3, EndLemma DEF Tiled
  <1>5. IsHeap(item)
    BY <1>1, <1>2, <1>4, EndLemma DEF IsHeap
  <1>6. Coalesced(item) /\ IsLowest(item, lfree)
    <2>1. lfree = 0
      BY DEF HeapInit
    <2> QED BY <1>1, <1>2, <1>3, <2>1 DEF Coalesced, IsLowest
  <1>7. Occupied(item) = {}
    BY <1>3 DEF Occupied
  <1>8. asked \in [UsedItems(item) -> Sizes]
    BY <1>3 DEF HeapInit
  <1>9. used = Cardinality(Occupied(item))
    BY <1>7, FS_EmptySet DEF HeapInit
  <1> QED BY <1>3, <1>5, <1>6, <1>8, <1>9 DEF HeapIInv

LEMMA AskedLemma ==
    ASSUME NEW n \in Sizes
    PROVE  n \in Nat \ {0} /\ AtLeastMin(n) \in Nat \ {0} /\ n <= AtLeastMin(n)
  BY HeapSizesAssumption DEF AtLeastMin

LEMMA HeapIInvLemma ==
    ASSUME HeapIInv
    PROVE  /\ HeapOK(item, lfree) /\ IsHeap(item)
           /\ DOMAIN asked = UsedItems(item) /\ \A p \in DOMAIN asked : asked[p] \in Sizes
           /\ \A p \in UsedItems(item) : Header + asked[p] <= item[p].next - p
           /\ used = Cardinality(Occupied(item)) /\ used \in Nat
  BY OccupiedLemma DEF HeapIInv, HeapOK

LEMMA AllocStep ==
    ASSUME HeapIInv, NEW n \in Sizes, rt_smem_alloc(n)
    PROVE  HeapIInv'
  <1> DEFINE k == AtLeastMin(n)
             p == FirstFit(item, lfree, k)
             t == Take(item, lfree, p, k)
  <1>1. k \in Nat \ {0} /\ n \in Nat \ {0} /\ n <= k
    BY AskedLemma
  <1>2. p # None /\ item' = t.item /\ lfree' = t.lfree /\ used' = used + t.taken /\ asked' = With(asked, p, n)
    BY DEF rt_smem_alloc
  <1> HIDE DEF k
  <1>3. p \in FreeItems(item) /\ Length(item, p) >= k
    BY <1>1, <1>2, HeapIInvLemma, FirstFitLemma
  <1> HIDE DEF p
  <1>4. /\ HeapOK(item', lfree')
        /\ UsedItems(item') = UsedItems(item) \cup {p}
        /\ \A x \in UsedItems(item) : item'[x].next = item[x].next
        /\ item'[p].next >= p + Header + k
        /\ used' = used + (item'[p].next - p)
    BY <1>1, <1>2, <1>3, HeapIInvLemma, TakeLemma
  <1>5. p \notin UsedItems(item) /\ p \in Nat
    BY <1>3, HeapIInvLemma, UsedOrFree, HeapNumbers
  <1>6. IsHeap(item') /\ Coalesced(item') /\ IsLowest(item', lfree')
    BY <1>4 DEF HeapOK
  <1>7. asked' \in [UsedItems(item') -> Sizes]
    BY <1>2, <1>4, <1>5, HeapIInvLemma DEF With
  <1>8. ASSUME NEW x \in UsedItems(item') PROVE Header + asked'[x] <= item'[x].next - x
    <2>1. CASE x = p
      <3>1. asked'[x] = n
        BY <1>2, <2>1 DEF With
      <3>2. item'[x].next \in Nat
        BY <1>6, StretchLemma
      <3> QED BY <1>1, <1>4, <1>5, <2>1, <3>1, <3>2, EndLemma
    <2>2. CASE x # p
      <3>1. x \in UsedItems(item) /\ asked'[x] = asked[x]
        BY <1>2, <1>4, <2>2, HeapIInvLemma DEF With
      <3> QED BY <1>4, <3>1, HeapIInvLemma
    <2> QED BY <2>1, <2>2
  <1>9. used' = Cardinality(Occupied(item'))
    <2>1. p \in UsedItems(item') /\ UsedItems(item) = UsedItems(item') \ {p}
      BY <1>4, <1>5
    <2>2. Cardinality(Occupied(item')) = Cardinality(Occupied(item)) + (item'[p].next - p)
      <3>1. IsHeap(item) /\ \A x \in UsedItems(item) : item'[x].next = item[x].next
        BY <1>4, HeapIInvLemma
      <3> QED BY <1>6, <2>1, <3>1, OneMoreLemma, Zenon
    <2> QED BY <1>4, <2>2, HeapIInvLemma
  <1> QED BY <1>6, <1>7, <1>8, <1>9 DEF HeapIInv

LEMMA FreeStep ==
    ASSUME HeapIInv, NEW p \in DOMAIN asked, rt_smem_free(p)
    PROVE  HeapIInv'
  <1>1. p \in UsedItems(item) /\ p \in Nat
    BY HeapIInvLemma, StretchLemma
  <1>2. /\ HeapOK(item', lfree') /\ KeepsUsed(item, item', UsedItems(item) \ {p})
        /\ used' = used - (item[p].next - p) /\ asked' = Without(asked, p)
    BY <1>1, HeapIInvLemma, FreedLemma DEF rt_smem_free
  <1>3. /\ UsedItems(item') = UsedItems(item) \ {p}
        /\ \A x \in UsedItems(item') : item[x].next = item'[x].next
    BY <1>2 DEF KeepsUsed
  <1>4. IsHeap(item') /\ Coalesced(item') /\ IsLowest(item', lfree')
    BY <1>2 DEF HeapOK
  <1>5. asked' \in [UsedItems(item') -> Sizes]
    BY <1>2, <1>3, HeapIInvLemma DEF Without
  <1>6. ASSUME NEW x \in UsedItems(item') PROVE Header + asked'[x] <= item'[x].next - x
    <2>1. x \in UsedItems(item) /\ x \in DOMAIN asked \ {p}
      BY <1>3, HeapIInvLemma
    <2>2. asked'[x] = asked[x]
      BY <1>2, <2>1 DEF Without
    <2> QED BY <1>3, <2>1, <2>2, HeapIInvLemma
  <1>7. used' = Cardinality(Occupied(item'))
    <2>1. Cardinality(Occupied(item)) = Cardinality(Occupied(item')) + (item[p].next - p)
      BY <1>1, <1>3, <1>4, HeapIInvLemma, OneMoreLemma
    <2>2. Cardinality(Occupied(item')) \in Nat /\ item[p].next \in Nat
      BY <1>1, <1>4, HeapIInvLemma, OccupiedLemma, StretchLemma
    <2> QED BY <1>1, <1>2, <2>1, <2>2, HeapIInvLemma
  <1> QED BY <1>4, <1>5, <1>6, <1>7 DEF HeapIInv

LEMMA ShrinkStep ==
    ASSUME HeapIInv, NEW p \in DOMAIN asked, NEW n \in Sizes, ReallocShrinks(p, n)
    PROVE  HeapIInv'
  <1>1. p \in UsedItems(item) /\ p \in Nat /\ item[p].next \in Nat /\ n \in Nat \ {0}
    BY HeapIInvLemma, StretchLemma, AskedLemma
  <1>2. Length(item, p) > n + Header /\ Length(item, p) \in Int
    <2>1. n + Header + MinSize < Length(item, p)
      BY DEF ReallocShrinks
    <2>2. Length(item, p) \in Int
      BY <1>1, EndLemma DEF Length
    <2> QED BY <1>1, <2>1, <2>2, EndLemma
  <1>3. /\ item' = Shrunk(item, lfree, p, n).item /\ lfree' = Shrunk(item, lfree, p, n).lfree
        /\ used' = used - (Length(item, p) - n) /\ asked' = [asked EXCEPT ![p] = n]
    BY DEF ReallocShrinks, Shrunk
  <1>4. /\ HeapOK(item', lfree') /\ UsedItems(item') = UsedItems(item)
        /\ \A x \in UsedItems(item) \ {p} : item'[x].next = item[x].next
        /\ item'[p].next = p + Header + n
    BY <1>1, <1>2, <1>3, HeapIInvLemma, ShrunkLemma
  <1>5. IsHeap(item') /\ Coalesced(item') /\ IsLowest(item', lfree')
    BY <1>4 DEF HeapOK
  <1>6. asked' \in [UsedItems(item') -> Sizes]
    BY <1>3, <1>4 DEF HeapIInv
  <1>7. ASSUME NEW x \in UsedItems(item') PROVE Header + asked'[x] <= item'[x].next - x
    <2>1. CASE x = p
      <3>1. asked'[x] = n
        BY <1>1, <1>3, <2>1, HeapIInvLemma
      <3> QED BY <1>1, <1>4, <2>1, <3>1, EndLemma
    <2>2. CASE x # p
      BY <1>3, <1>4, <2>2, HeapIInvLemma
    <2> QED BY <2>1, <2>2
  <1>8. used' = Cardinality(Occupied(item'))
    <2>1. Cardinality(Occupied(item')) = Cardinality(Occupied(item)) + item'[p].next - item[p].next
      BY <1>1, <1>4, <1>5, HeapIInvLemma, OneChangedLemma
    <2> QED BY <1>1, <1>3, <1>4, <2>1, HeapIInvLemma, EndLemma DEF Length
  <1> QED BY <1>5, <1>6, <1>7, <1>8 DEF HeapIInv

LEMMA MoveStep ==
    ASSUME HeapIInv, NEW p \in DOMAIN asked, NEW n \in Sizes, ReallocMoves(p, n)
    PROVE  HeapIInv'
  <1> DEFINE k == AtLeastMin(n)
             b == FirstFit(item, lfree, k)
             t == Take(item, lfree, b, k)
             h == Freed(t.item, t.lfree, p)
  <1>1. k \in Nat \ {0} /\ n \in Nat \ {0} /\ n <= k /\ p \in UsedItems(item) /\ p \in Nat
    BY AskedLemma, HeapIInvLemma, StretchLemma
  <1>2. /\ b # None /\ item' = h.item /\ lfree' = h.lfree
        /\ used' = used + t.taken - (t.item[p].next - p)
        /\ asked' = With(Without(asked, p), b, n)
    BY DEF ReallocMoves
  <1> HIDE DEF k
  <1>3. b \in FreeItems(item) /\ Length(item, b) >= k
    BY <1>1, <1>2, HeapIInvLemma, FirstFitLemma
  <1> HIDE DEF b
  <1>4. /\ HeapOK(t.item, t.lfree) /\ IsHeap(t.item)
        /\ UsedItems(t.item) = UsedItems(item) \cup {b}
        /\ \A x \in UsedItems(item) : t.item[x].next = item[x].next
        /\ t.item[b].next >= b + Header + k
        /\ t.taken = t.item[b].next - b
    BY <1>1, <1>3, HeapIInvLemma, TakeLemma DEF HeapOK
  <1> HIDE DEF t
  <1>5. b \notin UsedItems(item) /\ b \in Nat /\ b # p
    BY <1>1, <1>3, HeapIInvLemma, UsedOrFree, HeapNumbers
  <1>6. HeapOK(item', lfree') /\ KeepsUsed(t.item, item', UsedItems(t.item) \ {p})
    BY <1>1, <1>2, <1>4, FreedLemma
  <1>7. /\ UsedItems(item') = (UsedItems(item) \ {p}) \cup {b}
        /\ \A x \in UsedItems(item') : item'[x].next = t.item[x].next
    BY <1>4, <1>5, <1>6 DEF KeepsUsed
  <1>8. IsHeap(item') /\ Coalesced(item') /\ IsLowest(item', lfree')
    BY <1>6 DEF HeapOK
  <1>9. /\ DOMAIN asked' = UsedItems(item') /\ asked'[b] = n
        /\ \A x \in UsedItems(item') : x # b => x \in UsedItems(item) /\ asked'[x] = asked[x]
    BY <1>2, <1>7, HeapIInvLemma DEF With, Without
  <1>10. asked' \in [UsedItems(item') -> Sizes]
    BY <1>2, <1>9, HeapIInvLemma DEF With
  <1>11. ASSUME NEW x \in UsedItems(item') PROVE Header + asked'[x] <= item'[x].next - x
    <2>1. CASE x = b
      <3>1. item'[x].next \in Nat
        BY <1>8, StretchLemma
      <3> QED BY <1>1, <1>4, <1>5, <1>7, <1>9, <2>1, <3>1, EndLemma
    <2>2. CASE x # b
      <3>1. x \in UsedItems(item) /\ asked'[x] = asked[x] /\ item'[x].next = item[x].next
        BY <1>4, <1>7, <1>9, <2>2
      <3> QED BY <3>1, HeapIInvLemma
    <2> QED BY <2>1, <2>2
  <1>12. used' = Cardinality(Occupied(item'))
    <2>1. b \in UsedItems(t.item) /\ UsedItems(item) = UsedItems(t.item) \ {b}
      BY <1>4, <1>5
    <2>2. Cardinality(Occupied(t.item)) = Cardinality(Occupied(item)) + (t.item[b].next - b)
      <3>1. PICK m : m = t.item
        OBVIOUS
      <3>2. /\ IsHeap(item) /\ IsHeap(m) /\ b \in UsedItems(m) /\ UsedItems(item) = UsedItems(m) \ {b}
            /\ \A x \in UsedItems(item) : m[x].next = item[x].next
        BY <1>4, <2>1, <3>1, HeapIInvLemma
      <3>3. Cardinality(Occupied(m)) = Cardinality(Occupied(item)) + (m[b].next - b)
        BY <3>2, OneMoreLemma, ZenonT(30)
      <3> QED BY <3>1, <3>3
    <2>3. p \in UsedItems(t.item) /\ UsedItems(item') = UsedItems(t.item) \ {p}
      BY <1>1, <1>4, <1>6 DEF KeepsUsed
    <2>4. \A x \in UsedItems(item') : t.item[x].next = item'[x].next
      BY <1>7
    <2>5. Cardinality(Occupied(t.item)) = Cardinality(Occupied(item')) + (t.item[p].next - p)
      BY <1>4, <1>8, <2>3, <2>4, OneMoreLemma
    <2>6. /\ Cardinality(Occupied(item')) \in Nat /\ t.item[p].next \in Nat /\ t.item[b].next \in Nat
      BY <1>4, <1>8, <2>1, <2>3, OccupiedLemma, StretchLemma
    <2> QED BY <1>1, <1>2, <1>4, <1>5, <2>2, <2>5, <2>6, HeapIInvLemma
  <1> QED BY <1>8, <1>10, <1>11, <1>12 DEF HeapIInv

LEMMA StayStep ==
    ASSUME HeapIInv, NEW p \in DOMAIN asked, NEW n \in Sizes, ReallocStays(p, n)
    PROVE  HeapIInv'
  <1>1. /\ n = Length(item, p) /\ asked' = [asked EXCEPT ![p] = n]
        /\ item' = item /\ lfree' = lfree /\ used' = used
    BY DEF ReallocStays
  <1>2. p \in UsedItems(item) /\ p \in Nat /\ item[p].next \in Nat /\ n \in Nat
    BY HeapIInvLemma, StretchLemma, AskedLemma
  <1>3. asked' \in [UsedItems(item') -> Sizes]
    BY <1>1 DEF HeapIInv
  <1>4. ASSUME NEW x \in UsedItems(item') PROVE Header + asked'[x] <= item'[x].next - x
    <2>1. CASE x = p
      <3>1. asked'[x] = n
        BY <1>1, <1>2, <2>1, HeapIInvLemma
      <3> QED BY <1>1, <1>2, <2>1, <3>1, EndLemma DEF Length
    <2>2. CASE x # p
      BY <1>1, <2>2, HeapIInvLemma
    <2> QED BY <2>1, <2>2
  <1> QED BY <1>1, <1>3, <1>4 DEF HeapIInv

LEMMA HeapNextLemma == ASSUME HeapIInv, HeapNext PROVE HeapIInv'
  <1>1. ASSUME NEW n \in Sizes, rt_smem_alloc(n) PROVE HeapIInv'
    BY <1>1, AllocStep
  <1>2. ASSUME NEW n \in Sizes, NEW p \in DOMAIN asked, rt_smem_realloc(p, n) PROVE HeapIInv'
    BY <1>2, ShrinkStep, MoveStep, StayStep DEF rt_smem_realloc
  <1>3. ASSUME NEW p \in DOMAIN asked, rt_smem_free(p) PROVE HeapIInv'
    BY <1>3, FreeStep
  <1> QED BY <1>1, <1>2, <1>3 DEF HeapNext

LEMMA WellFormedLemma == HeapIInv => WellFormed
  <1> SUFFICES ASSUME HeapIInv PROVE WellFormed
    OBVIOUS
  <1> QED BY HeapIInvLemma DEF HeapIInv, WellFormed, IsHeap

(* The item that a word lies in. *)
LEMMA ItemAtLemma ==
    ASSUME NEW it, IsHeap(it), NEW p \in Nat, p < End
    PROVE  \E x \in Items(it) : x <= p /\ p < it[x].next
  <1> DEFINE C == {x \in Items(it) : x <= p}
             D == {p - x : x \in C}
  <1>1. \A x \in Items(it) : x \in Nat /\ it[x].next \in DOMAIN it /\ it[x].next \in Nat /\ it[x].next > x
    BY HeapNumbers
  <1>2. 0 \in C
    BY HeapNumbers
  <1>3. D \subseteq Nat /\ D # {}
    BY <1>1, <1>2
  <1>4. PICK d \in D : \A r \in D : d <= r
    <2> HIDE DEF D
    <2> QED BY <1>3, LeastLemma
  <1>5. PICK x \in C : d = p - x
    OBVIOUS
  <1>6. x \in Items(it) /\ x <= p
    OBVIOUS
  <1>7. ASSUME it[x].next <= p PROVE FALSE
    <2>1. it[x].next # End
      BY <1>1, <1>6, <1>7, EndLemma
    <2>2. it[x].next \in C
      BY <1>1, <1>6, <1>7, <2>1 DEF Items
    <2>3. p - it[x].next \in D
      BY <2>2
    <2> HIDE DEF C, D
    <2>4. p - x <= p - it[x].next
      BY <1>4, <1>5, <2>3
    <2> QED BY <1>1, <1>6, <2>4
  <1>8. p < it[x].next
    BY <1>1, <1>6, <1>7
  <1> QED BY <1>6, <1>8

LEMMA FitIsFoundLemma == HeapIInv => FitIsFound
  <1> SUFFICES ASSUME HeapIInv,
                      NEW k \in Sizes,
                      NEW p \in 0 .. Total - AtLeastMin(k),
                      (p .. p + Header + AtLeastMin(k) - 1) \cap Occupied(item) = {}
               PROVE  FirstFit(item, lfree, AtLeastMin(k)) # None
    BY DEF FitIsFound
  <1>1. PICK n : n = AtLeastMin(k)
    OBVIOUS
  <1>2. /\ n \in Nat \ {0} /\ p \in Nat /\ p <= Total - n /\ p < End
        /\ \A w \in Occupied(item) : w \in Nat => w < p \/ w >= p + Header + n
    BY <1>1, AskedLemma, EndLemma
  <1>3. PICK x \in Items(item) : x <= p /\ p < item[x].next
    BY <1>2, HeapIInvLemma, ItemAtLemma
  <1>4. /\ x \in Nat /\ x \in DOMAIN item /\ item[x].next \in Nat /\ item[x].next <= End
        /\ item[x].next \in DOMAIN item
    BY HeapIInvLemma, HeapNumbers
  <1>5. x \in FreeItems(item)
    <2>1. SUFFICES ASSUME x \in UsedItems(item) PROVE FALSE
      BY HeapIInvLemma, UsedOrFree
    <2>2. p \in x .. item[x].next - 1
      BY <1>2, <1>3, <1>4
    <2>3. p \in Occupied(item)
      BY <2>1, <2>2 DEF Occupied
    <2> QED BY <1>2, <2>3, EndLemma
  <1>6. Length(item, x) >= n
    <2>1. PICK e : e = item[x].next
      OBVIOUS
    <2>2. CASE e = End
      BY <1>2, <1>3, <1>4, <2>1, <2>2, EndLemma DEF Length
    <2>3. CASE e # End
      <3>1. e \in UsedItems(item)
        <4>1. e \in Items(item)
          BY <1>4, <2>1, <2>3 DEF Items
        <4>2. e \notin FreeItems(item)
          BY <1>5, <2>1 DEF HeapIInv, Coalesced
        <4> QED BY <4>1, <4>2, HeapIInvLemma, UsedOrFree
      <3>2. e \in Nat /\ e \in e .. item[e].next - 1
        <4>1. e \in Nat /\ item[e].next \in Nat /\ item[e].next > e
          BY <3>1, HeapIInvLemma, StretchLemma
        <4> QED BY <4>1
      <3>3. e \in Occupied(item)
        BY <3>1, <3>2 DEF Occupied
      <3>4. e >= p + Header + n
        BY <1>2, <1>3, <2>1, <3>2, <3>3
      <3> QED BY <1>2, <1>3, <1>4, <2>1, <3>4, EndLemma DEF Length
    <2> QED BY <2>2, <2>3
  <1>7. x \in Fitting(item, n)
    BY <1>4, <1>5, <1>6 DEF Fitting, Fits, FreeItems
  <1> QED BY <1>1, <1>2, <1>7, HeapIInvLemma, FirstFitLemma

(* The blocks lie in the items they were given. *)
LEMMA BlocksLemma ==
    ASSUME NEW it, IsHeap(it), NEW f \in [UsedItems(it) -> Sizes],
           \A p \in UsedItems(it) : Header + f[p] <= it[p].next - p
    PROVE  \A p \in UsedItems(it) :
              /\ p \in 0 .. End - 1 /\ f[p] \in Nat /\ p .. p + (Header + f[p]) - 1 \subseteq 0 .. End - 1
              /\ \A q \in UsedItems(it) \ {p} :
                    (p .. p + (Header + f[p]) - 1) \cap (q .. q + (Header + f[q]) - 1) = {}
  <1>1. \A p \in UsedItems(it) :
           /\ p \in Nat /\ it[p].next \in Nat /\ it[p].next > p /\ it[p].next <= End
           /\ f[p] \in Nat /\ p + Header + f[p] <= it[p].next
    <2> TAKE p \in UsedItems(it)
    <2>1. /\ p \in Nat /\ it[p].next \in Nat /\ it[p].next > p /\ it[p].next <= End
      BY StretchLemma
    <2>2. f[p] \in Nat
      BY AskedLemma
    <2> QED BY <2>1, <2>2, EndLemma
  <1>2. ASSUME NEW p \in UsedItems(it), NEW q \in UsedItems(it) \ {p}
        PROVE  (p .. p + (Header + f[p]) - 1) \cap (q .. q + (Header + f[q]) - 1) = {}
    <2>1. p + Header + f[p] <= it[p].next /\ q + Header + f[q] <= it[q].next
      BY <1>1
    <2>2. p \in Items(it) /\ q \in Items(it)
      BY UsedOrFree
    <2>3. (p <= q \/ p >= it[q].next) /\ (q <= p \/ q >= it[p].next)
      BY <2>2, HeapNumbers
    <2>4. p \in Nat /\ q \in Nat /\ f[p] \in Nat /\ f[q] \in Nat /\ it[p].next \in Nat /\ it[q].next \in Nat /\ p # q
      BY <1>1
    <2> QED BY <2>1, <2>3, <2>4, EndLemma
  <1>3. ASSUME NEW p \in UsedItems(it)
        PROVE  p \in 0 .. End - 1 /\ f[p] \in Nat /\ p .. p + (Header + f[p]) - 1 \subseteq 0 .. End - 1
    <2>1. /\ p \in Nat /\ it[p].next \in Nat /\ it[p].next > p /\ it[p].next <= End
          /\ f[p] \in Nat /\ p + Header + f[p] <= it[p].next
      BY <1>1
    <2> QED BY <2>1, EndLemma
  <1> QED BY <1>2, <1>3

LEMMA VacantLemma ==
    ASSUME HeapIInv', NEW a \in DOMAIN asked', NEW S, S \subseteq DOMAIN asked' \ {a},
           S \subseteq DOMAIN asked, \A x \in S : asked'[x] = asked[x]
    PROVE  a \in 0 .. End - 1 /\ A!Vacant(S, a, Header + asked'[a])
  <1>1. /\ IsHeap(item') /\ asked' \in [UsedItems(item') -> Sizes] /\ DOMAIN asked' = UsedItems(item')
        /\ \A p \in UsedItems(item') : Header + asked'[p] <= item'[p].next - p
    BY DEF HeapIInv
  <1>2. \A p \in UsedItems(item') :
              /\ p \in 0 .. End - 1 /\ asked'[p] \in Nat
              /\ p .. p + (Header + asked'[p]) - 1 \subseteq 0 .. End - 1
              /\ \A q \in UsedItems(item') \ {p} :
                    (p .. p + (Header + asked'[p]) - 1) \cap (q .. q + (Header + asked'[q]) - 1) = {}
    BY <1>1, BlocksLemma
  <1>3. A!Stretch(a, Header + asked'[a]) \subseteq 0 .. End - 1 /\ a \in 0 .. End - 1
    BY <1>1, <1>2 DEF A!Stretch
  <1>4. ASSUME NEW b \in S
        PROVE  A!Stretch(a, Header + asked'[a])
                  \cap A!Stretch(b, [p \in DOMAIN asked |-> Header + asked[p]][b]) = {}
    <2>1. [p \in DOMAIN asked |-> Header + asked[p]][b] = Header + asked'[b]
      OBVIOUS
    <2>2. b \in UsedItems(item') \ {a}
      BY <1>1
    <2>3. (a .. a + (Header + asked'[a]) - 1) \cap (b .. b + (Header + asked'[b]) - 1) = {}
      BY <1>1, <1>2, <2>2
    <2> QED BY <2>1, <2>3 DEF A!Stretch
  <1> QED BY <1>3, <1>4 DEF A!Vacant

(* A call of the heap is a step of the arena on the blocks. *)
LEMMA ArenaStep ==
    ASSUME HeapIInv, HeapIInv', HeapNext
    PROVE  A!Next
  <1> DEFINE Handed(f) == [p \in DOMAIN f |-> Header + f[p]]
  <1>1. ASSUME NEW n \in Sizes, rt_smem_alloc(n) PROVE A!Next
    <2>1. PICK p : asked' = With(asked, p, n) /\ p \in FreeItems(item)
      BY <1>1, AskedLemma, HeapIInvLemma, FirstFitLemma DEF rt_smem_alloc
    <2>2. p \notin DOMAIN asked
      BY <2>1, HeapIInvLemma, UsedOrFree
    <2>3. /\ DOMAIN asked' = DOMAIN asked \cup {p} /\ asked'[p] = n
          /\ \A x \in DOMAIN asked : asked'[x] = asked[x]
      BY <2>1, <2>2 DEF With
    <2>4. p \in 0 .. End - 1 /\ A!Vacant(DOMAIN asked, p, Header + n)
      <3>1. p \in DOMAIN asked' /\ DOMAIN asked \subseteq DOMAIN asked' \ {p}
        BY <2>2, <2>3
      <3> QED BY <2>3, <3>1, VacantLemma
    <2>5. Handed(asked') = A!With(Handed(asked), p, Header + n)
      BY <2>2, <2>3 DEF A!With
    <2>6. A!Alloc(p, Header + n)
      BY <2>4, <2>5 DEF A!Alloc
    <2> QED BY <2>4, <2>6 DEF A!Next
  <1>2. ASSUME NEW p \in DOMAIN asked, rt_smem_free(p) PROVE A!Next
    <2>1. asked' = Without(asked, p)
      BY <1>2 DEF rt_smem_free
    <2>2. /\ DOMAIN asked' = DOMAIN asked \ {p} /\ \A x \in DOMAIN asked' : asked'[x] = asked[x]
      BY <2>1 DEF Without
    <2>3. Handed(asked') = A!Without(p)
      BY <2>2 DEF A!Without
    <2>4. A!Free(p)
      BY <2>3 DEF A!Free
    <2>5. p \in 0 .. End - 1
      BY HeapIInvLemma, BlocksLemma DEF HeapIInv
    <2> QED BY <2>4, <2>5 DEF A!Next
  <1>3. ASSUME NEW p \in DOMAIN asked, NEW n \in Sizes, NEW b,
               DOMAIN asked' = (DOMAIN asked \ {p}) \cup {b}, asked'[b] = n,
               \A x \in DOMAIN asked' : x # b => asked'[x] = asked[x],
               b \notin DOMAIN asked \ {p}
        PROVE  A!Next
    <2>1. b \in 0 .. End - 1 /\ A!Vacant(DOMAIN asked \ {p}, b, Header + n)
      <3>1. /\ b \in DOMAIN asked' /\ DOMAIN asked \ {p} \subseteq DOMAIN asked' \ {b}
            /\ \A x \in DOMAIN asked \ {p} : asked'[x] = asked[x]
        BY <1>3
      <3> QED BY <1>3, <3>1, VacantLemma
    <2>2. Handed(asked') = A!With(A!Without(p), b, Header + n)
      BY <1>3 DEF A!With, A!Without
    <2>3. A!Resize(p, b, Header + n)
      BY <2>1, <2>2 DEF A!Resize
    <2>4. p \in 0 .. End - 1
      BY HeapIInvLemma, BlocksLemma DEF HeapIInv
    <2> QED BY <2>1, <2>3, <2>4 DEF A!Next
  <1>4. ASSUME NEW p \in DOMAIN asked, NEW n \in Sizes, rt_smem_realloc(p, n) PROVE A!Next
    <2>1. CASE asked' = [asked EXCEPT ![p] = n]
      <3>1. /\ DOMAIN asked' = (DOMAIN asked \ {p}) \cup {p} /\ asked'[p] = n
            /\ \A x \in DOMAIN asked' : x # p => asked'[x] = asked[x]
        BY <2>1
      <3> QED BY <1>3, <3>1
    <2>2. CASE ReallocMoves(p, n)
      <3>1. PICK b : asked' = With(Without(asked, p), b, n) /\ b \in FreeItems(item)
        BY <2>2, AskedLemma, HeapIInvLemma, FirstFitLemma DEF ReallocMoves
      <3>2. b \notin DOMAIN asked
        BY <3>1, HeapIInvLemma, UsedOrFree
      <3>3. /\ DOMAIN asked' = (DOMAIN asked \ {p}) \cup {b} /\ asked'[b] = n
            /\ \A x \in DOMAIN asked' : x # b => asked'[x] = asked[x]
        BY <3>1, <3>2 DEF With, Without
      <3> QED BY <1>3, <3>2, <3>3
    <2> QED BY <1>4, <2>1, <2>2 DEF rt_smem_realloc, ReallocStays, ReallocShrinks
  <1> QED BY <1>1, <1>2, <1>4 DEF HeapNext

LEMMA ArenaInitLemma == HeapInit => A!Init
  <1> SUFFICES ASSUME HeapInit PROVE A!Init
    OBVIOUS
  <1>1. asked = [p \in {} |-> 0]
    BY DEF HeapInit
  <1>2. DOMAIN asked = {}
    BY <1>1
  <1>3. [p \in DOMAIN asked |-> Header + asked[p]] = [a \in {} |-> 0]
    BY <1>2
  <1> QED BY <1>3 DEF A!Init

LEMMA HeapInvariance == Spec => []HeapIInv
  <1>1. Init => HeapIInv
    BY HeapInitLemma DEF Init
  <1>2. HeapIInv /\ [Next]_vars => HeapIInv'
    <2> SUFFICES ASSUME HeapIInv, [Next]_vars PROVE HeapIInv'
      OBVIOUS
    <2>1. HeapNext \/ UNCHANGED heapVars
      BY DEF Next, vars
    <2>2. CASE HeapNext
      BY <2>2, HeapNextLemma
    <2>3. CASE UNCHANGED heapVars
      BY <2>3 DEF heapVars, HeapIInv
    <2> QED BY <2>1, <2>2, <2>3
  <1> QED BY <1>1, <1>2, PTL DEF Spec

(* A heap of any size, with headers and minimal items of any size: its      *)
(* items tile the memory and are linked both ways, no two free ones touch,  *)
(* lfree is the lowest free one and the account of used words is exact,     *)
(* whatever is allocated, resized and freed, in any order.                  *)
THEOREM HeapStaysInOrder == Spec => []WellFormed
  BY HeapInvariance, WellFormedLemma, PTL

(* An allocation, which looks from lfree on and stops at an offset, finds a *)
(* place whenever a stretch between the used items holds it.               *)
THEOREM HeapFindsFit == Spec => []FitIsFound
  BY HeapInvariance, FitIsFoundLemma, PTL

(* The blocks handed out are those of an arena: in the memory, apart from   *)
(* each other with their headers, as long as was asked for, theirs until    *)
(* they are freed.                                                         *)
THEOREM HeapIsArena == Spec => ImplementsArena
  <1>1. Init => A!Init
    BY ArenaInitLemma DEF Init
  <1>2. HeapIInv /\ HeapIInv' /\ [Next]_vars => [A!Next]_[p \in DOMAIN asked |-> Header + asked[p]]
    <2> SUFFICES ASSUME HeapIInv, HeapIInv', [Next]_vars PROVE [A!Next]_[p \in DOMAIN asked |-> Header + asked[p]]
      OBVIOUS
    <2>1. HeapNext \/ UNCHANGED heapVars
      BY DEF Next, vars
    <2>2. CASE UNCHANGED heapVars
      BY <2>2 DEF heapVars
    <2> QED BY <2>1, <2>2, ArenaStep
  <1> QED BY <1>1, <1>2, HeapInvariance, PTL DEF Spec, ImplementsArena, A!Spec
=============================================================================
