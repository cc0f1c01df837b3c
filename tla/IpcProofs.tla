----------------------------- MODULE IpcProofs -----------------------------
(***************************************************************************)
(* Mailboxes, data queues, events, memory pools and message queues for      *)
(* every number of threads and every size: nobody waits for what is there,  *)
(* what went in comes out in order, and no block is lost or given out       *)
(* twice.  First, what the steps of Waiters do to the two lists of an IPC   *)
(* object and to the threads resumed from them that have not looked yet.    *)
(***************************************************************************)
EXTENDS MCIpc, ListProofs, FiniteSetTheorems

(* The lists hold exactly the threads that are suspended on them. *)
Queued ==
    /\ WaitersTypeOK
    /\ \A side \in Sides : list[side] \in Seq(Threads)

Resumed(side) == {t \in Threads : pc[t] = Again(side)}

(* Enough for Queued': what the steps below establish one by one. *)
LEMMA QueuedLemma ==
    ASSUME DOMAIN list' = Sides,
           \A side \in Sides : /\ list'[side] \in Seq(Threads) /\ NoDup(list'[side])
                               /\ Linked(list'[side]) = {t \in Threads : pc'[t] = side},
           pc' \in [Threads -> PCs \cup {"run"}],
           timed' \in [Threads -> BOOLEAN], forgot' \in BOOLEAN
    PROVE  Queued'
  BY DEF Queued, WaitersTypeOK

LEMMA QueuedInitLemma == WaitersInit => Queued
  <1> SUFFICES ASSUME WaitersInit PROVE Queued
    OBVIOUS
  <1>1. /\ DOMAIN list = Sides
        /\ \A side \in Sides : list[side] = <<>>
        /\ <<>> \in Seq(Threads) /\ NoDup(<<>>) /\ Linked(<<>>) = {}
    BY DEF WaitersInit, NoDup, Linked
  <1>2. /\ pc \in [Threads -> PCs \cup {"run"}] /\ \A t \in Threads : pc[t] = "run"
        /\ timed \in [Threads -> BOOLEAN] /\ forgot \in BOOLEAN
    BY DEF WaitersInit
  <1>3. \A side \in Sides : Linked(list[side]) = {t \in Threads : pc[t] = side}
    BY <1>1, <1>2 DEF Sides
  <1> QED BY <1>1, <1>2, <1>3 DEF Queued, WaitersTypeOK

(* A list and its other one. *)
LEMMA SidesLemma ==
    /\ Sides = {"recv", "send"} /\ Sides \subseteq PCs
    /\ Again("recv") = "recvAgain" /\ Again("send") = "sendAgain"
    /\ "recvAgain" \in PCs /\ "sendAgain" \in PCs
  BY DEF Sides, PCs, Again

(* A caller that is not suspended joins one list; it was perhaps resumed     *)
(* from that one before.                                                   *)
LEMMA JoinLemma ==
    ASSUME Queued, NEW t \in Threads, NEW side \in Sides, NEW newList, NEW ticks \in BOOLEAN,
           Tests(t, side), newList \in Seq(Threads),
           Linked(newList) = Linked(list[side]) \cup {t},
           t \notin Linked(list[side]) => NoDup(newList),
           Suspend(t, side, newList, ticks)
    PROVE  /\ Queued' /\ UNCHANGED forgot
           /\ \A other \in Sides \ {side} :
                /\ list'[other] = list[other] /\ Resumed(other) \subseteq Resumed(other)'
           /\ pc' = [pc EXCEPT ![t] = side]
  <1>1. /\ list' = [list EXCEPT ![side] = newList] /\ pc' = [pc EXCEPT ![t] = side]
        /\ timed' = [timed EXCEPT ![t] = ticks] /\ UNCHANGED forgot
    BY DEF Suspend
  <1>2. pc[t] \notin Sides /\ pc[t] \in {"run", Again(side)}
    BY SidesLemma DEF Tests
  <1>3. t \notin Linked(list[side])
    BY <1>2 DEF Queued, WaitersTypeOK
  <1>4. \A other \in Sides \ {side} :
            /\ list'[other] = list[other] /\ Resumed(other) \subseteq Resumed(other)'
    <2>1. \A other \in Sides \ {side} : Again(other) # pc[t]
      BY <1>2, SidesLemma
    <2> QED BY <1>1, <2>1 DEF Queued, WaitersTypeOK, Resumed
  <1>5. \A s \in Sides : /\ list'[s] \in Seq(Threads) /\ NoDup(list'[s])
                         /\ Linked(list'[s]) = {u \in Threads : pc'[u] = s}
    BY <1>1, <1>2, <1>3, <1>4 DEF Queued, WaitersTypeOK
  <1>6. Queued'
    BY <1>1, <1>5, SidesLemma, QueuedLemma DEF Queued, WaitersTypeOK
  <1> QED BY <1>1, <1>4, <1>6

(* t, not suspended, goes to a point where it is not either. *)
LEMMA MoveLemma ==
    ASSUME Queued, NEW t \in Threads, pc[t] \notin Sides,
           NEW next \in (PCs \cup {"run"}) \ Sides,
           DOMAIN list' = Sides, \A side \in Sides : list'[side] = list[side],
           UNCHANGED forgot, pc' = [pc EXCEPT ![t] = next],
           timed' = [timed EXCEPT ![t] = FALSE]
    PROVE  /\ Queued'
           /\ \A side \in Sides : Resumed(side) \ {t} \subseteq Resumed(side)'
           /\ \A side \in Sides : pc[t] # Again(side) => Resumed(side) \subseteq Resumed(side)'
  <1>1. \A s \in Sides : /\ list'[s] \in Seq(Threads) /\ NoDup(list'[s])
                         /\ Linked(list'[s]) = {u \in Threads : pc'[u] = s}
    BY DEF Queued, WaitersTypeOK
  <1>2. Queued'
    BY <1>1, QueuedLemma DEF Queued, WaitersTypeOK
  <1> QED BY <1>2 DEF Queued, WaitersTypeOK, Resumed

(* The first of a list is resumed by t. *)
LEMMA ResumeFirstLemma ==
    ASSUME Queued, NEW t \in Threads, pc[t] \notin Sides, NEW side \in Sides,
           NEW next \in (PCs \cup {"run"}) \ Sides, ResumeFirst(side, t, next)
    PROVE  /\ Queued' /\ UNCHANGED forgot
           /\ \A other \in Sides \ {side} :
                /\ list'[other] = list[other]
                /\ Resumed(other) \ {t} \subseteq Resumed(other)'
                /\ pc[t] # Again(other) => Resumed(other) \subseteq Resumed(other)'
           /\ list[side] = <<>> => /\ list'[side] = <<>>
                                   /\ Resumed(side) \ {t} \subseteq Resumed(side)'
           /\ list[side] # <<>> =>
                \E u \in Threads : /\ u # t /\ u \notin Resumed(side)
                                   /\ (Resumed(side) \ {t}) \cup {u} \subseteq Resumed(side)'
  <1>1. /\ list' = [list EXCEPT ![side] = IF @ = <<>> THEN @ ELSE Tail(@)]
        /\ pc' = [u \in Threads |-> IF u \in First(side) THEN Again(side)
                                    ELSE IF u = t THEN next ELSE pc[u]]
        /\ timed' = [timed EXCEPT ![t] = FALSE] /\ UNCHANGED forgot
    BY DEF ResumeFirst
  <1>2. /\ list[side] \in Seq(Threads) /\ NoDup(list[side])
        /\ Linked(list[side]) = {u \in Threads : pc[u] = side}
    BY DEF Queued, WaitersTypeOK
  <1>3. CASE list[side] = <<>>
    <2>1. /\ First(side) = {} /\ DOMAIN list' = Sides
          /\ \A other \in Sides : list'[other] = list[other]
      BY <1>1, <1>3 DEF First, rt_list_isempty, Queued, WaitersTypeOK
    <2>2. pc' = [pc EXCEPT ![t] = next]
      <3>1. pc \in [Threads -> PCs \cup {"run"}]
        BY DEF Queued, WaitersTypeOK
      <3>2. pc' = [u \in Threads |-> pc'[u]]
        BY <1>1
      <3>3. \A u \in Threads : pc'[u] = IF u = t THEN next ELSE pc[u]
        BY <1>1, <2>1
      <3> QED BY ONLY <3>1, <3>2, <3>3
    <2>3. /\ Queued' /\ UNCHANGED forgot
          /\ \A other \in Sides : Resumed(other) \ {t} \subseteq Resumed(other)'
          /\ \A other \in Sides : pc[t] # Again(other) => Resumed(other) \subseteq Resumed(other)'
      BY <1>1, <2>1, <2>2, MoveLemma
    <2> QED BY <1>3, <2>1, <2>3
  <1>4. CASE list[side] # <<>>
    <2> DEFINE h == Head(list[side])
    <2>1. /\ First(side) = {h} /\ h \in Threads /\ pc[h] = side /\ h # t
          /\ list'[side] = Tail(list[side])
      BY <1>1, <1>2, <1>4, EmptyLemma DEF First, rt_list_isempty, Queued, WaitersTypeOK
    <2>2. /\ Tail(list[side]) \in Seq(Threads) /\ NoDup(Tail(list[side]))
          /\ Linked(Tail(list[side])) = Linked(list[side]) \ {h}
      BY <1>2, <1>4, TailLemma
    <2> HIDE DEF h
    <2>3. \A u \in Threads :
              pc'[u] = IF u = h THEN Again(side) ELSE IF u = t THEN next ELSE pc[u]
      BY <1>1, <2>1
    <2>4. \A other \in Sides \ {side} : list'[other] = list[other]
      BY <1>1 DEF Queued, WaitersTypeOK
    <2>5. Again(side) \notin Sides /\ Again(side) \in PCs /\ Sides \subseteq PCs
      BY SidesLemma
    <2>6. \A s \in Sides : /\ list'[s] \in Seq(Threads) /\ NoDup(list'[s])
                           /\ Linked(list'[s]) = {u \in Threads : pc'[u] = s}
      <3>1. /\ list'[side] \in Seq(Threads) /\ NoDup(list'[side])
            /\ Linked(list'[side]) = {u \in Threads : pc'[u] = side}
        BY <1>2, <2>1, <2>2, <2>3, <2>5
      <3>2. ASSUME NEW s \in Sides \ {side}
            PROVE  /\ list'[s] \in Seq(Threads) /\ NoDup(list'[s])
                   /\ Linked(list'[s]) = {u \in Threads : pc'[u] = s}
        <4>1. /\ list'[s] \in Seq(Threads) /\ NoDup(list'[s])
              /\ Linked(list'[s]) = {u \in Threads : pc[u] = s}
          BY <2>4 DEF Queued, WaitersTypeOK
        <4>2. \A u \in Threads : pc'[u] = s <=> pc[u] = s
          BY <2>1, <2>3, <2>5
        <4> QED BY <4>1, <4>2
      <3> QED BY <3>1, <3>2
    <2>7. pc' \in [Threads -> PCs \cup {"run"}]
      BY <1>1, <2>5 DEF Queued, WaitersTypeOK
    <2>8. Queued'
      BY <1>1, <2>6, <2>7, QueuedLemma DEF Queued, WaitersTypeOK
    <2>9. h \notin Resumed(side) /\ (Resumed(side) \ {t}) \cup {h} \subseteq Resumed(side)'
      BY <2>1, <2>3, <2>5 DEF Resumed
    <2>10. ASSUME NEW other \in Sides \ {side}
           PROVE  /\ Resumed(other) \ {t} \subseteq Resumed(other)'
                  /\ pc[t] # Again(other) => Resumed(other) \subseteq Resumed(other)'
      <3>1. Again(other) # side
        BY SidesLemma
      <3> QED BY <2>1, <2>3, <3>1 DEF Resumed
    <2> QED BY <1>1, <1>4, <2>1, <2>4, <2>8, <2>9, <2>10
  <1> QED BY <1>3, <1>4

(* Everybody who is suspended is out, nobody else moves. *)
LEMMA ResumeAllLemma ==
    ASSUME Queued, _ipc_list_resume_all
    PROVE  /\ Queued' /\ UNCHANGED forgot
           /\ \A side \in Sides : list'[side] = <<>>
           /\ \A t \in Threads : pc'[t] = IF pc[t] \in Sides THEN "run" ELSE pc[t]
  <1>1. /\ list' = [side \in Sides |-> <<>>] /\ UNCHANGED forgot
        /\ pc' = [u \in Threads |-> IF pc[u] \in Sides THEN "run" ELSE pc[u]]
        /\ timed' = [u \in Threads |-> timed[u] /\ pc[u] \notin Sides]
    BY DEF _ipc_list_resume_all
  <1>2. <<>> \in Seq(Threads) /\ NoDup(<<>>) /\ Linked(<<>>) = {}
    BY DEF NoDup, Linked
  <1>3. pc' \in [Threads -> PCs \cup {"run"}] /\ "run" \notin Sides
    BY <1>1, SidesLemma DEF Queued, WaitersTypeOK
  <1>4. \A s \in Sides : /\ list'[s] \in Seq(Threads) /\ NoDup(list'[s])
                         /\ Linked(list'[s]) = {u \in Threads : pc'[u] = s}
    BY <1>1, <1>2, <1>3
  <1>5. timed' \in [Threads -> BOOLEAN] /\ forgot' \in BOOLEAN /\ DOMAIN list' = Sides
    BY <1>1 DEF Queued, WaitersTypeOK
  <1> QED BY <1>1, <1>3, <1>4, <1>5, QueuedLemma

(* x is out of whatever list it is on. *)
LEMMA LeaveLemma ==
    ASSUME Queued, NEW x \in Threads, Leave(x)
    PROVE  /\ forgot' \in BOOLEAN => Queued'
           /\ \A side \in Sides : list[side] = <<>> => list'[side] = <<>>
           /\ \A side \in Sides : pc[x] # Again(side) => Resumed(side) \subseteq Resumed(side)'
           /\ pc' = [pc EXCEPT ![x] = "run"]
  <1>1. /\ list' = [side \in Sides |-> rt_list_remove(list[side], x)]
        /\ pc' = [pc EXCEPT ![x] = "run"] /\ timed' = [timed EXCEPT ![x] = FALSE]
    BY DEF Leave
  <1>2. \A side \in Sides : /\ list'[side] \in Seq(Threads) /\ NoDup(list'[side])
                            /\ Linked(list'[side]) = Linked(list[side]) \ {x}
    BY <1>1, RemoveLemma DEF Queued, WaitersTypeOK
  <1>3. \A side \in Sides : Linked(list'[side]) = {u \in Threads : pc'[u] = side}
    BY <1>1, <1>2, SidesLemma DEF Queued, WaitersTypeOK
  <1>4. \A side \in Sides : list[side] = <<>> => list'[side] = <<>>
    <2> SUFFICES ASSUME NEW side \in Sides, list[side] = <<>> PROVE list'[side] = <<>>
      OBVIOUS
    <2>1. Linked(list[side]) = {}
      BY EmptyLemma DEF Queued
    <2>2. Linked(list'[side]) = {}
      BY <1>2, <2>1
    <2> QED BY <1>2, <2>2, EmptyLemma
  <1>5. \A side \in Sides : pc[x] # Again(side) => Resumed(side) \subseteq Resumed(side)'
    BY <1>1 DEF Resumed, Queued, WaitersTypeOK
  <1>6. ASSUME forgot' \in BOOLEAN PROVE Queued'
    BY <1>1, <1>2, <1>3, <1>6, QueuedLemma DEF Queued, WaitersTypeOK
  <1> QED BY <1>1, <1>4, <1>5, <1>6

-----------------------------------------------------------------------------
(* Served with the list and the resumed threads of after the step. *)
ServedNext(side, n) ==
    list'[side] = <<>> \/ n <= Cardinality(Resumed(side)') \/ forgot'

LEMMA ResumedFinite ==
    ASSUME NEW side
    PROVE  /\ IsFiniteSet(Resumed(side)) /\ Cardinality(Resumed(side)) \in Nat
           /\ IsFiniteSet(Resumed(side)') /\ Cardinality(Resumed(side)') \in Nat
  <1>1. Resumed(side) \subseteq Threads /\ Resumed(side)' \subseteq Threads
    BY DEF Resumed
  <1> QED BY <1>1, WaitersThreadsAssumption, FS_Subset, FS_CardinalityType

(* Nothing left to wait for: nobody waits in vain. *)
LEMMA NothingThere ==
    ASSUME NEW side PROVE ServedNext(side, 0) /\ Served(side, 0)
  <1>1. 0 <= Cardinality(Resumed(side)') /\ 0 <= Cardinality(Resumed(side))
    BY ResumedFinite
  <1> QED BY <1>1 DEF ServedNext, Served, Resumed

(* As many things, no fewer threads to look. *)
LEMMA ServedStays ==
    ASSUME NEW side, NEW n \in Nat, Served(side, n),
           list[side] = <<>> => list'[side] = <<>>, forgot => forgot',
           Resumed(side) \subseteq Resumed(side)'
    PROVE  ServedNext(side, n)
  <1>1. Cardinality(Resumed(side)) <= Cardinality(Resumed(side)')
    BY ResumedFinite, FS_Subset
  <1>2. n <= Cardinality(Resumed(side)) => n <= Cardinality(Resumed(side)')
    BY <1>1, ResumedFinite
  <1> QED BY <1>2 DEF Served, ServedNext, Resumed, rt_list_isempty

(* t takes one thing, and is perhaps one that was resumed for it. *)
LEMMA ServedTakes ==
    ASSUME NEW side, NEW n \in Nat, n > 0, Served(side, n), NEW t,
           list[side] = <<>> => list'[side] = <<>>, forgot => forgot',
           Resumed(side) \ {t} \subseteq Resumed(side)'
    PROVE  ServedNext(side, n - 1)
  <1>1. Cardinality(Resumed(side) \ {t}) <= Cardinality(Resumed(side)')
    BY ResumedFinite, FS_Subset
  <1>2. Cardinality(Resumed(side)) <= Cardinality(Resumed(side) \ {t}) + 1
    <2>1. Cardinality(Resumed(side) \ {t}) =
            IF t \in Resumed(side) THEN Cardinality(Resumed(side)) - 1
            ELSE Cardinality(Resumed(side))
      BY ResumedFinite, FS_RemoveElement
    <2> QED BY <2>1, ResumedFinite
  <1>3. Cardinality(Resumed(side) \ {t}) \in Nat
    BY ResumedFinite, FS_RemoveElement, FS_CardinalityType
  <1>4. n <= Cardinality(Resumed(side)) => n - 1 <= Cardinality(Resumed(side)')
    BY <1>1, <1>2, <1>3, ResumedFinite
  <1> QED BY <1>4 DEF Served, ServedNext, Resumed, rt_list_isempty

(* There is one thing more, and one more thread is resumed to look. *)
LEMMA ServedAdds ==
    ASSUME NEW side, NEW n \in Nat, Served(side, n), forgot => forgot',
           list[side] # <<>>, NEW u, u \notin Resumed(side),
           Resumed(side) \cup {u} \subseteq Resumed(side)'
    PROVE  ServedNext(side, n + 1)
  <1>1. Cardinality(Resumed(side) \cup {u}) = Cardinality(Resumed(side)) + 1
    BY ResumedFinite, FS_AddElement
  <1>2. Cardinality(Resumed(side) \cup {u}) <= Cardinality(Resumed(side)')
    BY ResumedFinite, FS_Subset
  <1>3. n <= Cardinality(Resumed(side)) => n + 1 <= Cardinality(Resumed(side)')
    BY <1>1, <1>2, ResumedFinite
  <1> QED BY <1>3 DEF Served, ServedNext, Resumed, rt_list_isempty

(* The two together: t adds a thing to one side and resumes who waits there, *)
(* if t is not one who was resumed to look there itself.                    *)
LEMMA ServedResumes ==
    ASSUME Queued, NEW t \in Threads, NEW side \in Sides, NEW n \in Nat,
           pc[t] \notin Sides, pc[t] # Again(side), Served(side, n),
           NEW next \in (PCs \cup {"run"}) \ Sides, ResumeFirst(side, t, next)
    PROVE  ServedNext(side, n + 1)
  <1>1. t \notin Resumed(side)
    BY DEF Resumed
  <1>2. CASE list[side] = <<>>
    BY <1>2, ResumeFirstLemma DEF ServedNext
  <1>3. CASE list[side] # <<>>
    <2>1. PICK u \in Threads : /\ u \notin Resumed(side)
                               /\ Resumed(side) \cup {u} \subseteq Resumed(side)'
      BY <1>1, <1>3, ResumeFirstLemma
    <2>2. UNCHANGED forgot
      BY ResumeFirstLemma
    <2> QED BY <1>3, <2>1, <2>2, ServedAdds
  <1> QED BY <1>2, <1>3

(* A timeout, and the deletion of a thread inside the call. *)
LEMMA ServedWithout ==
    ASSUME Queued, NEW x \in Threads, NEW side \in Sides, NEW n \in Nat, Served(side, n),
           _thread_timeout(x) \/ rt_thread_delete(x)
    PROVE  Queued' /\ ServedNext(side, n)
  <1>1. Leave(x) /\ (forgot => forgot') /\ forgot' \in BOOLEAN
    BY DEF _thread_timeout, rt_thread_delete, Queued, WaitersTypeOK
  <1>2. pc[x] = Again(side) => forgot'
    BY SidesLemma DEF _thread_timeout, rt_thread_delete
  <1>3. CASE forgot'
    BY <1>1, <1>3, LeaveLemma DEF ServedNext
  <1>4. CASE pc[x] # Again(side)
    BY <1>1, <1>4, LeaveLemma, ServedStays
  <1> QED BY <1>2, <1>3, <1>4

-----------------------------------------------------------------------------
(* The mailbox *)

(* A mailbox that is gone has nobody inside: whoever initialises it again    *)
(* finds empty lists.                                                      *)
MbIInv ==
    /\ Queued /\ mb \in MbObject /\ mail \in Mails \cup {NoMail}
    /\ MbServed
    /\ ~mb.live => \A t \in Threads : pc[t] = "run"

LEMMA MbServedLemma ==
    ASSUME ServedNext("recv", mb'.entry), ServedNext("send", MbSize - mb'.entry)
    PROVE  MbServed'
  BY DEF MbServed, Served, ServedNext, Resumed, rt_list_isempty

MbPool == [0 .. MbSize - 1 -> Mails \cup {NoMail}]

(* Offsets stay in the ring. *)
LEMMA MbOffsetLemma ==
    ASSUME NEW i \in 0 .. MbSize - 1
    PROVE  /\ Advance(i) \in 0 .. MbSize - 1
           /\ (IF i > 0 THEN i - 1 ELSE MbSize - 1) \in 0 .. MbSize - 1
  BY MbSizeAssumption DEF Advance

LEMMA MbInitLemma == MbInit => MbIInv
  <1> SUFFICES ASSUME MbInit PROVE MbIInv
    OBVIOUS
  <1>1. mb \in MbObject /\ mail \in Mails \cup {NoMail} /\ mb.live
    <2>1. /\ [i \in 0 .. MbSize - 1 |-> NoMail] \in MbPool
          /\ 0 \in 0 .. MbSize - 1 /\ 0 \in 0 .. MbSize
      BY MbSizeAssumption DEF MbPool
    <2> QED BY <2>1 DEF MbInit, MbStored, Emptied, MbObject, MbPool
  <1>2. Queued /\ list["recv"] = <<>> /\ list["send"] = <<>>
    BY QueuedInitLemma, SidesLemma DEF MbInit, WaitersInit
  <1> QED BY <1>1, <1>2 DEF MbIInv, MbServed, Served, rt_list_isempty

(* A send or an urgent send: one mail more, and a receiver is resumed. *)
LEMMA MbSendStep ==
    ASSUME MbIInv, NEW t \in Threads, NEW value \in Mails,
           rt_mb_send_wait(t, value) \/ rt_mb_urgent(t, value)
    PROVE  MbIInv'
  <1>1. /\ pc[t] \in {"run", "sendAgain"} /\ mb.live /\ mb.entry # MbSize
        /\ mb'.entry = mb.entry + 1 /\ mb'.live = mb.live /\ UNCHANGED mail
        /\ ResumeFirst("recv", t, "run")
    BY SidesLemma DEF MbIInv, MbObject, rt_mb_send_wait, rt_mb_urgent, Tests
  <1>2. mb' \in MbObject
    <2>1. /\ mb.msg_pool \in MbPool /\ mb.in_offset \in 0 .. MbSize - 1
          /\ mb.out_offset \in 0 .. MbSize - 1 /\ mb.entry + 1 \in 0 .. MbSize
      BY <1>1, MbSizeAssumption DEF MbIInv, MbObject, MbPool
    <2>2. \A i \in 0 .. MbSize - 1 : [mb.msg_pool EXCEPT ![i] = value] \in MbPool
      BY <2>1 DEF MbPool
    <2>3. CASE rt_mb_send_wait(t, value)
      <3>1. mb' = [mb EXCEPT !.msg_pool = [@ EXCEPT ![mb.in_offset] = value],
                             !.in_offset = Advance(@), !.entry = @ + 1]
        BY <2>3 DEF rt_mb_send_wait, MbIInv, MbObject
      <3> QED BY <2>1, <2>2, <3>1, MbOffsetLemma DEF MbIInv, MbObject, MbPool
    <2>4. CASE rt_mb_urgent(t, value)
      <3> DEFINE out == IF mb.out_offset > 0 THEN mb.out_offset - 1 ELSE MbSize - 1
      <3>1. mb' = [mb EXCEPT !.msg_pool = [@ EXCEPT ![out] = value],
                             !.out_offset = out, !.entry = @ + 1]
        BY <2>4 DEF rt_mb_urgent, MbIInv, MbObject
      <3>2. out \in 0 .. MbSize - 1
        BY <2>1, MbOffsetLemma
      <3> HIDE DEF out
      <3> QED BY <2>1, <2>2, <3>1, <3>2 DEF MbIInv, MbObject, MbPool
    <2> QED BY <2>3, <2>4
  <1>3. /\ pc[t] \notin Sides /\ pc[t] # Again("recv") /\ "recv" \in Sides
        /\ "send" \in Sides \ {"recv"} /\ "run" \in (PCs \cup {"run"}) \ Sides
    BY <1>1, SidesLemma
  <1>4. /\ mb.entry \in Nat /\ MbSize - mb.entry \in Nat /\ MbSize - mb.entry > 0
        /\ MbSize - mb'.entry = (MbSize - mb.entry) - 1
    BY <1>1, MbSizeAssumption DEF MbIInv, MbObject
  <1>5. Served("recv", mb.entry) /\ Served("send", MbSize - mb.entry)
    BY <1>1 DEF MbIInv, MbServed
  <1>6. /\ Queued' /\ UNCHANGED forgot /\ list'["send"] = list["send"]
        /\ Resumed("send") \ {t} \subseteq Resumed("send")'
    BY <1>1, <1>3, ResumeFirstLemma DEF MbIInv
  <1>7. ServedNext("recv", mb'.entry)
    BY <1>1, <1>3, <1>4, <1>5, ServedResumes DEF MbIInv
  <1>8. ServedNext("send", MbSize - mb'.entry)
    BY <1>4, <1>5, <1>6, ServedTakes
  <1> QED BY <1>1, <1>2, <1>6, <1>7, <1>8, MbServedLemma DEF MbIInv

LEMMA MbRecvStep ==
    ASSUME MbIInv, NEW t \in Threads, rt_mb_recv(t)
    PROVE  MbIInv'
  <1>1. /\ pc[t] \in {"run", "recvAgain"} /\ mb.live /\ mb.entry # 0
        /\ mb'.entry = mb.entry - 1 /\ mb'.live = mb.live
        /\ ResumeFirst("send", t, "run")
    BY SidesLemma DEF MbIInv, MbObject, rt_mb_recv, Tests
  <1>2. mb' \in MbObject /\ mail' \in Mails \cup {NoMail}
    <2>1. /\ mb.out_offset \in 0 .. MbSize - 1 /\ mb.entry - 1 \in 0 .. MbSize
          /\ mb.msg_pool[mb.out_offset] \in Mails \cup {NoMail}
      BY <1>1, MbSizeAssumption DEF MbIInv, MbObject
    <2> QED BY <2>1, MbOffsetLemma DEF MbIInv, MbObject, rt_mb_recv
  <1>3. /\ pc[t] \notin Sides /\ pc[t] # Again("send") /\ "send" \in Sides
        /\ "recv" \in Sides \ {"send"} /\ "run" \in (PCs \cup {"run"}) \ Sides
    BY <1>1, SidesLemma
  <1>4. /\ mb.entry \in Nat /\ mb.entry > 0 /\ MbSize - mb.entry \in Nat
        /\ MbSize - mb'.entry = (MbSize - mb.entry) + 1
    BY <1>1, MbSizeAssumption DEF MbIInv, MbObject
  <1>5. Served("recv", mb.entry) /\ Served("send", MbSize - mb.entry)
    BY <1>1 DEF MbIInv, MbServed
  <1>6. /\ Queued' /\ UNCHANGED forgot /\ list'["recv"] = list["recv"]
        /\ Resumed("recv") \ {t} \subseteq Resumed("recv")'
    BY <1>1, <1>3, ResumeFirstLemma DEF MbIInv
  <1>7. ServedNext("send", MbSize - mb'.entry)
    BY <1>1, <1>3, <1>4, <1>5, ServedResumes DEF MbIInv
  <1>8. ServedNext("recv", mb'.entry)
    BY <1>1, <1>4, <1>5, <1>6, ServedTakes
  <1> QED BY <1>1, <1>2, <1>6, <1>7, <1>8, MbServedLemma DEF MbIInv

(* Who waits for mail finds none, who waits for room finds none. *)
LEMMA MbSuspendStep ==
    ASSUME MbIInv, NEW t \in Threads, NEW ticks \in BOOLEAN,
           MbSendSuspends(t, ticks) \/ MbRecvSuspends(t, ticks)
    PROVE  MbIInv'
  <1>1. PICK side \in Sides, other \in Sides :
            /\ other # side /\ Tests(t, side) /\ mb.live /\ UNCHANGED mbVars
            /\ Suspend(t, side, _ipc_list_suspend(list[side], t, Flag, Prio), ticks)
            /\ side = "recv" => mb.entry = 0
            /\ side = "send" => mb.entry = MbSize
    BY SidesLemma DEF MbSendSuspends, MbRecvSuspends
  <1> DEFINE new == _ipc_list_suspend(list[side], t, Flag, Prio)
  <1>2. /\ list[side] \in Seq(Threads) /\ NoDup(list[side])
        /\ Prio \in [Threads -> Nat]
    BY WaitersPrioAssumption DEF MbIInv, Queued, WaitersTypeOK
  <1>3. /\ new \in Seq(Threads) /\ Linked(new) = Linked(list[side]) \cup {t}
        /\ t \notin Linked(list[side]) => NoDup(new)
    BY <1>2, SuspendLemma
  <1> HIDE DEF new
  <1>4. Suspend(t, side, new, ticks)
    BY <1>1 DEF new
  <1>5. /\ Queued' /\ UNCHANGED forgot
        /\ list'[other] = list[other] /\ Resumed(other) \subseteq Resumed(other)'
    BY <1>1, <1>3, <1>4, JoinLemma DEF MbIInv
  <1>6. mb' = mb /\ mail' = mail /\ mb.entry \in Nat /\ MbSize - mb.entry \in Nat
    BY <1>1, MbSizeAssumption DEF mbVars, MbIInv, MbObject
  <1>7. ServedNext("recv", mb.entry) /\ ServedNext("send", MbSize - mb.entry)
    <2>1. Served("recv", mb.entry) /\ Served("send", MbSize - mb.entry)
      BY <1>1 DEF MbIInv, MbServed
    <2>2. CASE side = "recv"
      <3>1. other = "send" /\ mb.entry = 0
        BY <1>1, <2>2, SidesLemma
      <3> QED BY <1>5, <1>6, <2>1, <3>1, NothingThere, ServedStays
    <2>3. CASE side = "send"
      <3>1. other = "recv" /\ MbSize - mb.entry = 0
        BY <1>1, <1>6, <2>3, SidesLemma, MbSizeAssumption
      <3> QED BY <1>5, <1>6, <2>1, <3>1, NothingThere, ServedStays
    <2> QED BY <2>2, <2>3, SidesLemma
  <1> QED BY <1>1, <1>5, <1>6, <1>7, MbServedLemma DEF MbIInv

LEMMA MbGivesUpStep ==
    ASSUME MbIInv, NEW t \in Threads, MbSendGivesUp(t) \/ MbRecvGivesUp(t)
    PROVE  MbIInv'
  <1>1. PICK side \in Sides, other \in Sides :
            /\ other # side /\ GivesUp(t, side) /\ UNCHANGED mbVars
            /\ side = "recv" => mb.entry = 0
            /\ side = "send" => mb.entry = MbSize
    BY SidesLemma DEF MbSendGivesUp, MbRecvGivesUp
  <1>2. /\ pc[t] \notin Sides /\ pc[t] # Again(other) /\ pc[t] # "run"
        /\ "run" \in (PCs \cup {"run"}) \ Sides
        /\ UNCHANGED <<list, forgot>> /\ pc' = [pc EXCEPT ![t] = "run"]
        /\ timed' = [timed EXCEPT ![t] = FALSE] /\ DOMAIN list' = Sides
    BY <1>1, SidesLemma DEF GivesUp, MbIInv, Queued, WaitersTypeOK
  <1>3. Queued' /\ Resumed(other) \subseteq Resumed(other)'
    BY <1>1, <1>2, MoveLemma DEF MbIInv
  <1>4. /\ mb' = mb /\ mail' = mail /\ mb.entry \in Nat /\ MbSize - mb.entry \in Nat
        /\ mb.live
    BY <1>1, <1>2, MbSizeAssumption DEF mbVars, MbIInv, MbObject
  <1>5. Served("recv", mb.entry) /\ Served("send", MbSize - mb.entry)
    BY <1>4 DEF MbIInv, MbServed
  <1>6. ServedNext("recv", mb.entry) /\ ServedNext("send", MbSize - mb.entry)
    <2>1. CASE side = "recv"
      <3>1. other = "send" /\ mb.entry = 0
        BY <1>1, <2>1, SidesLemma
      <3> QED BY <1>2, <1>3, <1>4, <1>5, <3>1, NothingThere, ServedStays
    <2>2. CASE side = "send"
      <3>1. other = "recv" /\ MbSize - mb.entry = 0
        BY <1>1, <1>4, <2>2, SidesLemma, MbSizeAssumption
      <3> QED BY <1>2, <1>3, <1>4, <1>5, <3>1, NothingThere, ServedStays
    <2> QED BY <2>1, <2>2, SidesLemma
  <1> QED BY <1>3, <1>4, <1>6, MbServedLemma DEF MbIInv

LEMMA MbWithoutStep ==
    ASSUME MbIInv, NEW t \in Threads, _thread_timeout(t) \/ rt_thread_delete(t), UNCHANGED mbVars
    PROVE  MbIInv'
  <1>1. mb.live
    BY SidesLemma DEF MbIInv, _thread_timeout, rt_thread_delete
  <1>2. /\ mb' = mb /\ mail' = mail /\ mb.entry \in Nat /\ MbSize - mb.entry \in Nat
        /\ Served("recv", mb.entry) /\ Served("send", MbSize - mb.entry)
    BY <1>1, MbSizeAssumption DEF mbVars, MbIInv, MbObject, MbServed
  <1>3. Queued' /\ ServedNext("recv", mb.entry) /\ ServedNext("send", MbSize - mb.entry)
    BY <1>2, ServedWithout, SidesLemma DEF MbIInv
  <1> QED BY <1>1, <1>2, <1>3, MbServedLemma DEF MbIInv

LEMMA MbAllStep ==
    ASSUME MbIInv, rt_mb_control \/ rt_mb_delete
    PROVE  MbIInv'
  <1>1. Queued' /\ list'["recv"] = <<>> /\ list'["send"] = <<>>
    BY ResumeAllLemma, SidesLemma DEF MbIInv, rt_mb_control, rt_mb_delete
  <1>2. mb' \in MbObject /\ mail' \in Mails \cup {NoMail}
    <2>1. 0 \in 0 .. MbSize - 1 /\ 0 \in 0 .. MbSize
      BY MbSizeAssumption
    <2> QED BY <2>1 DEF MbIInv, MbObject, rt_mb_control, rt_mb_delete
  <1>3. ~mb'.live => \A t \in Threads : pc'[t] = "run"
    <2>1. CASE rt_mb_control
      BY <2>1 DEF rt_mb_control, MbIInv, MbObject
    <2>2. CASE rt_mb_delete
      BY <2>2, ResumeAllLemma DEF rt_mb_delete, NobodyInside, MbIInv
    <2> QED BY <2>1, <2>2
  <1>4. MbServed'
    BY <1>1 DEF MbServed, Served, rt_list_isempty
  <1> QED BY <1>1, <1>2, <1>3, <1>4 DEF MbIInv

LEMMA MbAgainStep ==
    ASSUME MbIInv, rt_mb_init
    PROVE  MbIInv'
  <1>1. /\ \A t \in Threads : pc[t] = "run"
        /\ UNCHANGED waiters /\ mb' = Emptied /\ mail' = NoMail
    BY DEF MbIInv, rt_mb_init
  <1>2. UNCHANGED <<list, pc, timed, forgot>>
    BY <1>1 DEF waiters
  <1>3. Queued' /\ mb' \in MbObject /\ mb'.live
    BY <1>1, <1>2, MbSizeAssumption DEF MbIInv, Emptied, MbObject, Queued, WaitersTypeOK
  <1>4. Linked(list["recv"]) = {} /\ Linked(list["send"]) = {}
    BY <1>1, SidesLemma DEF MbIInv, Queued, WaitersTypeOK
  <1>5. list["recv"] = <<>> /\ list["send"] = <<>>
    BY <1>4, EmptyLemma, SidesLemma DEF MbIInv, Queued
  <1> QED BY <1>1, <1>2, <1>3, <1>5 DEF MbIInv, MbServed, Served, rt_list_isempty

LEMMA MbNextLemma == MbIInv /\ [MbNext]_<<waiters, mbVars>> => MbIInv'
  <1> SUFFICES ASSUME MbIInv, [MbNext]_<<waiters, mbVars>> PROVE MbIInv'
    OBVIOUS
  <1>1. CASE UNCHANGED <<waiters, mbVars>>
    BY <1>1 DEF waiters, mbVars, MbIInv, Queued, WaitersTypeOK, MbServed, Served, rt_list_isempty
  <1>2. CASE MbNext
    BY <1>2, MbSendStep, MbRecvStep, MbSuspendStep, MbGivesUpStep, MbWithoutStep, MbAllStep,
       MbAgainStep DEF MbNext, MbThread
  <1> QED BY <1>1, <1>2

(* Nobody waits for a mail that is in the box, nor for room that is there,   *)
(* however timeouts, faster third parties, resets and the deletion of       *)
(* threads fall between a resumption and the next test.                     *)
THEOREM MailboxServes == MbSpec => [](MbTypeOK /\ MbServed)
  <1>1. MbInit => MbIInv
    BY MbInitLemma
  <1>2. MbIInv /\ [MbNext]_<<waiters, mbVars>> => MbIInv'
    BY MbNextLemma
  <1>3. MbIInv => MbTypeOK /\ MbServed
    BY DEF MbIInv, MbTypeOK, Queued
  <1> QED BY <1>1, <1>2, <1>3, PTL DEF MbSpec

(* The offset where the next mail goes is as many places behind that of the  *)
(* first one as there are mails: the code keeps all three, and the          *)
(* refinement needs them to agree.                                         *)
MbRing ==
    /\ mb \in MbObject
    /\ mb.in_offset = (mb.out_offset + mb.entry) % MbSize

(* The words of a mailbox. *)
Words == Mails \cup {NoMail}

LEMMA RingOfLemma ==
    ASSUME NEW box \in MbObject
    PROVE  /\ IsRing(MbSize, Words, box.msg_pool, box.out_offset, box.entry)
           /\ RingOf(box) = RingEntries(box.msg_pool, MbSize, box.out_offset, box.entry)
           /\ RingOf(box) \in Seq(Words) /\ Len(RingOf(box)) = box.entry
  <1>1. /\ IsRing(MbSize, Words, box.msg_pool, box.out_offset, box.entry)
        /\ RingOf(box) = RingEntries(box.msg_pool, MbSize, box.out_offset, box.entry)
    BY MbSizeAssumption DEF MbObject, IsRing, RingEntries, RingOf, Words
  <1> QED BY <1>1, RingLemma

LEMMA RingSendStep ==
    ASSUME MbRing, NEW t \in Threads, NEW value \in Mails, rt_mb_send_wait(t, value),
           mb' \in MbObject
    PROVE  MbRing' /\ MbChannel!Send(value)
  <1> DEFINE o == mb.out_offset  e == mb.entry
  <1>1. /\ e # MbSize /\ mb.in_offset = (o + e) % MbSize /\ value \in Words
        /\ mb'.entry = e + 1 /\ mb'.out_offset = o /\ UNCHANGED mail
        /\ mb'.in_offset = (IF mb.in_offset + 1 >= MbSize THEN 0 ELSE mb.in_offset + 1)
        /\ mb'.msg_pool = SlotWritten(mb.msg_pool, mb.in_offset, value)
    BY DEF SlotWritten, MbRing, MbObject, rt_mb_send_wait, Advance, Words
  <1>2. /\ IsRing(MbSize, Words, mb.msg_pool, o, e)
        /\ RingOf(mb) = RingEntries(mb.msg_pool, MbSize, o, e) /\ Len(RingOf(mb)) = e
        /\ RingOf(mb') = RingEntries(mb'.msg_pool, MbSize, mb'.out_offset, mb'.entry)
    BY RingOfLemma DEF MbRing
  <1> HIDE DEF o, e
  <1>3. /\ RingEntries(SlotWritten(mb.msg_pool, (o + e) % MbSize, value), MbSize, o, e + 1) =
                Append(RingEntries(mb.msg_pool, MbSize, o, e), value)
        /\ (o + (e + 1)) % MbSize =
                IF ((o + e) % MbSize) + 1 >= MbSize THEN 0 ELSE ((o + e) % MbSize) + 1
    BY <1>1, <1>2, RingAppend
  <1>4. RingOf(mb') = Append(RingOf(mb), value)
    BY <1>1, <1>2, <1>3
  <1>5. e < MbSize
    BY <1>1, <1>2 DEF IsRing
  <1>6. MbRing'
    BY <1>1, <1>3 DEF MbRing
  <1> QED BY <1>1, <1>2, <1>4, <1>5, <1>6 DEF MbChannel!Send

LEMMA RingUrgentStep ==
    ASSUME MbRing, NEW t \in Threads, NEW value \in Mails, rt_mb_urgent(t, value),
           mb' \in MbObject
    PROVE  MbRing' /\ MbChannel!Urgent(value)
  <1> DEFINE o == mb.out_offset  e == mb.entry
             b == IF o > 0 THEN o - 1 ELSE MbSize - 1
  <1>1. /\ e # MbSize /\ mb.in_offset = (o + e) % MbSize /\ value \in Words
        /\ mb'.entry = e + 1 /\ mb'.out_offset = b /\ UNCHANGED mail
        /\ mb'.in_offset = mb.in_offset
        /\ mb'.msg_pool = SlotWritten(mb.msg_pool, b, value)
    BY DEF SlotWritten, MbRing, MbObject, rt_mb_urgent, Words
  <1>2. /\ IsRing(MbSize, Words, mb.msg_pool, o, e)
        /\ RingOf(mb) = RingEntries(mb.msg_pool, MbSize, o, e) /\ Len(RingOf(mb)) = e
        /\ RingOf(mb') = RingEntries(mb'.msg_pool, MbSize, mb'.out_offset, mb'.entry)
    BY RingOfLemma DEF MbRing
  <1>3. b = IF o > 0 THEN o - 1 ELSE MbSize - 1
    OBVIOUS
  <1> HIDE DEF o, e, b
  <1>4. /\ RingEntries(SlotWritten(mb.msg_pool, b, value), MbSize, b, e + 1) =
                <<value>> \o RingEntries(mb.msg_pool, MbSize, o, e)
        /\ (b + (e + 1)) % MbSize = (o + e) % MbSize
    BY <1>1, <1>2, <1>3, RingPushFront
  <1>5. RingOf(mb') = <<value>> \o RingOf(mb)
    BY <1>1, <1>2, <1>4
  <1>6. e < MbSize
    BY <1>1, <1>2 DEF IsRing
  <1>7. MbRing'
    BY <1>1, <1>4 DEF MbRing
  <1> QED BY <1>1, <1>2, <1>5, <1>6, <1>7 DEF MbChannel!Urgent

LEMMA RingRecvStep ==
    ASSUME MbRing, NEW t \in Threads, rt_mb_recv(t), mb' \in MbObject
    PROVE  MbRing' /\ MbChannel!Receive
  <1> DEFINE o == mb.out_offset  e == mb.entry
             a == IF o + 1 >= MbSize THEN 0 ELSE o + 1
  <1>1. /\ e # 0 /\ mb.in_offset = (o + e) % MbSize
        /\ mb'.entry = e - 1 /\ mb'.out_offset = a /\ mail' = mb.msg_pool[o]
        /\ mb'.in_offset = mb.in_offset /\ mb'.msg_pool = mb.msg_pool
    BY DEF MbRing, MbObject, rt_mb_recv, Advance
  <1>2. /\ IsRing(MbSize, Words, mb.msg_pool, o, e)
        /\ RingOf(mb) = RingEntries(mb.msg_pool, MbSize, o, e)
        /\ RingOf(mb') = RingEntries(mb'.msg_pool, MbSize, mb'.out_offset, mb'.entry)
    BY RingOfLemma DEF MbRing
  <1>3. a = IF o + 1 >= MbSize THEN 0 ELSE o + 1
    OBVIOUS
  <1> HIDE DEF o, e, a
  <1>4. /\ RingEntries(mb.msg_pool, MbSize, a, e - 1) = Tail(RingEntries(mb.msg_pool, MbSize, o, e))
        /\ RingEntries(mb.msg_pool, MbSize, o, e) # <<>>
        /\ Head(RingEntries(mb.msg_pool, MbSize, o, e)) = mb.msg_pool[o]
        /\ (a + (e - 1)) % MbSize = (o + e) % MbSize
    BY <1>1, <1>2, <1>3, RingTail
  <1>5. RingOf(mb') = Tail(RingOf(mb)) /\ RingOf(mb) # <<>> /\ mail' = Head(RingOf(mb))
    BY <1>1, <1>2, <1>4
  <1>6. MbRing'
    BY <1>1, <1>4 DEF MbRing
  <1> QED BY <1>5, <1>6 DEF MbChannel!Receive

(* The ring is emptied, or gone. *)
LEMMA RingClearStep ==
    ASSUME MbRing, rt_mb_control \/ rt_mb_delete \/ rt_mb_init, mb' \in MbObject
    PROVE  MbRing' /\ (MbChannel!Clear \/ UNCHANGED MbChannel!vars)
  <1>1. CASE rt_mb_control \/ rt_mb_init
    <2>1. mb'.entry = 0 /\ mb'.in_offset = 0 /\ mb'.out_offset = 0 /\ mail' = NoMail
      <3>1. CASE rt_mb_control
        BY <3>1 DEF rt_mb_control, MbRing, MbObject
      <3>2. CASE rt_mb_init
        BY <3>2 DEF rt_mb_init, Emptied
      <3> QED BY <1>1, <3>1, <3>2
    <2>2. RingOf(mb') \in Seq(Words) /\ Len(RingOf(mb')) = 0
      BY <2>1, RingOfLemma
    <2>3. RingOf(mb') = <<>>
      BY <2>2
    <2>4. (0 + 0) % MbSize = 0
      BY MbSizeAssumption, FirstSlotLemma
    <2> QED BY <2>1, <2>3, <2>4 DEF MbRing, MbChannel!Clear
  <1>2. CASE rt_mb_delete
    <2>1. /\ mb'.entry = mb.entry /\ mb'.in_offset = mb.in_offset /\ UNCHANGED mail
          /\ mb'.out_offset = mb.out_offset /\ mb'.msg_pool = mb.msg_pool
      BY <1>2 DEF rt_mb_delete, MbRing, MbObject
    <2> QED BY <2>1 DEF MbRing, MbChannel!vars, RingOf
  <1> QED BY <1>1, <1>2

LEMMA MbChannelNext ==
    MbIInv /\ MbIInv' /\ MbRing /\ [MbNext]_<<waiters, mbVars>>
        => MbRing' /\ [MbChannel!Next]_(MbChannel!vars)
  <1> SUFFICES ASSUME MbIInv, MbIInv', MbRing, [MbNext]_<<waiters, mbVars>>
               PROVE  MbRing' /\ [MbChannel!Next]_(MbChannel!vars)
    OBVIOUS
  <1>1. mb' \in MbObject
    BY DEF MbIInv
  <1>2. ASSUME UNCHANGED mbVars PROVE MbRing' /\ UNCHANGED MbChannel!vars
    BY <1>2 DEF mbVars, MbRing, MbChannel!vars, RingOf
  <1>3. CASE \E t \in Threads : MbThread(t)
    <2> PICK t \in Threads : MbThread(t)
      BY <1>3
    <2>1. ASSUME NEW value \in Mails, rt_mb_send_wait(t, value)
          PROVE  MbRing' /\ [MbChannel!Next]_(MbChannel!vars)
      BY <1>1, <2>1, RingSendStep DEF MbChannel!Next
    <2>2. ASSUME NEW value \in Mails, rt_mb_urgent(t, value)
          PROVE  MbRing' /\ [MbChannel!Next]_(MbChannel!vars)
      BY <1>1, <2>2, RingUrgentStep DEF MbChannel!Next
    <2>3. CASE rt_mb_recv(t)
      BY <1>1, <2>3, RingRecvStep DEF MbChannel!Next
    <2>4. ASSUME NEW ticks \in BOOLEAN, MbSendSuspends(t, ticks) \/ MbRecvSuspends(t, ticks)
          PROVE  UNCHANGED mbVars
      BY <2>4 DEF MbSendSuspends, MbRecvSuspends
    <2>5. CASE MbSendGivesUp(t) \/ MbRecvGivesUp(t)
      BY <1>2, <2>5 DEF MbSendGivesUp, MbRecvGivesUp
    <2> QED BY <1>2, <2>1, <2>2, <2>3, <2>4, <2>5 DEF MbThread
  <1>4. CASE rt_mb_control \/ rt_mb_delete \/ rt_mb_init
    BY <1>1, <1>4, RingClearStep DEF MbChannel!Next
  <1>5. CASE UNCHANGED <<waiters, mbVars>>
    BY <1>2, <1>5
  <1> QED BY <1>3, <1>4, <1>5 DEF MbNext

(* Every mail comes out once, in the order the mails went in, urgent ones    *)
(* first, for a mailbox of any size and any number of threads: the mailbox  *)
(* implements Channel.                                                     *)
THEOREM MailboxIsChannel == MbSpec => MbImplementsChannel
  <1>1. MbInit => MbIInv
    BY MbInitLemma
  <1>2. MbInit => MbRing /\ MbChannel!Init
    <2> SUFFICES ASSUME MbInit PROVE MbRing /\ MbChannel!Init
      OBVIOUS
    <2>1. mb \in MbObject
      BY <1>1 DEF MbIInv
    <2>2. mb.entry = 0 /\ mb.in_offset = 0 /\ mb.out_offset = 0 /\ mail = NoMail
      BY DEF MbInit, MbStored, Emptied
    <2>3. RingOf(mb) = <<>>
      <3>1. RingOf(mb) \in Seq(Words) /\ Len(RingOf(mb)) = 0
        BY <2>1, <2>2, RingOfLemma
      <3> QED BY <3>1
    <2>4. (0 + 0) % MbSize = 0
      BY MbSizeAssumption, FirstSlotLemma
    <2> QED BY <2>1, <2>2, <2>3, <2>4 DEF MbRing, MbChannel!Init
  <1>3. MbIInv /\ [MbNext]_<<waiters, mbVars>> => MbIInv'
    BY MbNextLemma
  <1>4. MbIInv /\ MbIInv' /\ MbRing /\ [MbNext]_<<waiters, mbVars>>
            => MbRing' /\ [MbChannel!Next]_(MbChannel!vars)
    BY MbChannelNext
  <1> QED BY <1>1, <1>2, <1>3, <1>4, PTL DEF MbSpec, MbImplementsChannel, MbChannel!Spec

-----------------------------------------------------------------------------
(* The data queue *)

(* Equal indices are an empty queue or a full one, and the two flags say     *)
(* which.                                                                  *)
DqFlags(box) ==
    /\ ~(box.is_empty /\ box.is_full)
    /\ box.get_index = box.put_index <=> box.is_empty \/ box.is_full

(* A queue that is not initialised has nobody inside.                      *)
DqIInv ==
    /\ Queued /\ dq \in DqObject /\ popped \in Items \cup {NoItem}
    /\ DqFlags(dq) /\ DqServed
    /\ ~dq.magic => \A t \in Threads : pc[t] = "run"

DqItems == Items \cup {NoItem}

LEMMA DqLenLemma ==
    ASSUME NEW box \in DqObject, DqFlags(box)
    PROVE  /\ rt_data_queue_len(box) \in 0 .. DqSize
           /\ box.put_index = (box.get_index + rt_data_queue_len(box)) % DqSize
           /\ box.is_empty <=> rt_data_queue_len(box) = 0
           /\ box.is_full <=> rt_data_queue_len(box) = DqSize
  <1> DEFINE n == DqSize  g == box.get_index  p == box.put_index
             e == rt_data_queue_len(box)
  <1>1. /\ n \in Nat \ {0} /\ g \in 0 .. n - 1 /\ p \in 0 .. n - 1
        /\ box.is_empty \in BOOLEAN /\ box.is_full \in BOOLEAN
    BY DqSizeAssumption DEF DqObject
  <1>2. e = IF box.is_empty THEN 0 ELSE IF p > g THEN p - g ELSE n + p - g
    BY DEF rt_data_queue_len
  <1>3. ~(box.is_empty /\ box.is_full) /\ (g = p <=> box.is_empty \/ box.is_full)
    BY DEF DqFlags
  <1> HIDE DEF n, g, p, e
  <1>4. e \in 0 .. n
    BY <1>1, <1>2
  <1>5. box.is_empty <=> e = 0
    BY <1>1, <1>2
  <1>6. box.is_full <=> e = n
    BY <1>1, <1>2, <1>3
  <1>7. (g + e) % n = IF g + e < n THEN g + e ELSE g + e - n
    BY <1>1, <1>4, SlotLemma
  <1>8. p = (g + e) % n
    BY <1>1, <1>2, <1>3, <1>7
  <1> QED BY <1>4, <1>5, <1>6, <1>8 DEF n, g, p, e

(* One item more, one item less. *)
LEMMA DqPushData ==
    ASSUME dq \in DqObject, DqFlags(dq), NEW t \in Threads, NEW item \in Items,
           rt_data_queue_push(t, item)
    PROVE  /\ dq' \in DqObject /\ DqFlags(dq') /\ dq'.magic = dq.magic
           /\ rt_data_queue_len(dq) # DqSize /\ ~dq'.is_empty
           /\ rt_data_queue_len(dq') = rt_data_queue_len(dq) + 1
  <1> DEFINE n == DqSize  g == dq.get_index  p == dq.put_index  f == Following(p)
  <1>1. /\ n \in Nat \ {0} /\ g \in 0 .. n - 1 /\ p \in 0 .. n - 1
        /\ dq.is_empty \in BOOLEAN /\ ~dq.is_full /\ (g = p <=> dq.is_empty)
    BY DqSizeAssumption DEF DqObject, DqFlags, rt_data_queue_push
  <1>2. f = IF p + 1 = n THEN 0 ELSE p + 1
    BY DEF Following
  <1> HIDE DEF f
  <1>3. /\ dq'.get_index = g /\ dq'.put_index = f /\ ~dq'.is_empty
        /\ dq'.is_full = (f = g) /\ dq'.magic = dq.magic
    BY DEF DqObject, rt_data_queue_push, f
  <1>4. f \in 0 .. n - 1
    BY <1>1, <1>2
  <1>5. dq' \in DqObject
    <2>1. [dq.queue EXCEPT ![p] = item] \in [0 .. n - 1 -> DqItems]
      BY <1>1 DEF DqObject, DqItems
    <2>2. (f = g) \in BOOLEAN
      OBVIOUS
    <2>3. dq' = [dq EXCEPT !.queue = [@ EXCEPT ![p] = item], !.put_index = f,
                           !.is_empty = FALSE, !.is_full = (f = g)]
      BY DEF rt_data_queue_push, DqObject, f
    <2> QED BY <1>4, <2>1, <2>2, <2>3 DEF DqObject, DqItems
  <1>6. DqFlags(dq')
    BY <1>3, <1>4 DEF DqFlags
  <1>7. rt_data_queue_len(dq') = rt_data_queue_len(dq) + 1
    <2>1. rt_data_queue_len(dq) = IF dq.is_empty THEN 0 ELSE IF p > g THEN p - g ELSE n + p - g
      BY DEF rt_data_queue_len
    <2>2. rt_data_queue_len(dq') = IF f > g THEN f - g ELSE n + f - g
      BY <1>3 DEF rt_data_queue_len
    <2> HIDE DEF g, p, n
    <2> QED BY <1>1, <1>2, <2>1, <2>2
  <1>8. rt_data_queue_len(dq) # DqSize
    BY <1>1, DqLenLemma
  <1> QED BY <1>3, <1>5, <1>6, <1>7, <1>8

LEMMA DqPopData ==
    ASSUME dq \in DqObject, DqFlags(dq), NEW t \in Threads, rt_data_queue_pop(t)
    PROVE  /\ dq' = Drained /\ dq' \in DqObject /\ DqFlags(dq') /\ dq'.magic = dq.magic
           /\ dq'.resetting = dq.resetting /\ popped' \in DqItems
           /\ rt_data_queue_len(dq) # 0
           /\ rt_data_queue_len(dq') = rt_data_queue_len(dq) - 1
  <1> DEFINE n == DqSize  g == dq.get_index  p == dq.put_index  f == Following(g)
  <1>1. /\ n \in Nat \ {0} /\ g \in 0 .. n - 1 /\ p \in 0 .. n - 1
        /\ dq.is_full \in BOOLEAN /\ ~dq.is_empty /\ (g = p <=> dq.is_full)
    BY DqSizeAssumption DEF DqObject, DqFlags, rt_data_queue_pop
  <1>2. f = IF g + 1 = n THEN 0 ELSE g + 1
    BY DEF Following
  <1>3. dq' = Drained /\ popped' = dq.queue[g]
    BY DEF rt_data_queue_pop
  <1> HIDE DEF f
  <1>4. dq' = [dq EXCEPT !.get_index = f, !.is_full = FALSE, !.is_empty = (f = p)]
    BY <1>3 DEF Drained, DqObject, f
  <1>5. f \in 0 .. n - 1
    BY <1>1, <1>2
  <1>6. (f = p) \in BOOLEAN
    OBVIOUS
  <1>7. /\ dq' \in DqObject /\ dq'.get_index = f /\ dq'.put_index = p
        /\ dq'.is_empty = (f = p) /\ ~dq'.is_full /\ dq'.magic = dq.magic
        /\ dq'.resetting = dq.resetting
    BY <1>4, <1>5, <1>6 DEF DqObject
  <1>8. DqFlags(dq')
    BY <1>7 DEF DqFlags
  <1>9. rt_data_queue_len(dq') = rt_data_queue_len(dq) - 1
    <2>1. rt_data_queue_len(dq) = IF p > g THEN p - g ELSE n + p - g
      BY <1>1 DEF rt_data_queue_len
    <2>2. rt_data_queue_len(dq') = IF f = p THEN 0 ELSE IF p > f THEN p - f ELSE n + p - f
      BY <1>7 DEF rt_data_queue_len
    <2> HIDE DEF g, p, n
    <2> QED BY <1>1, <1>2, <2>1, <2>2
  <1>10. popped' \in DqItems
    BY <1>1, <1>3 DEF DqObject, DqItems
  <1>11. rt_data_queue_len(dq) # 0
    BY <1>1, DqLenLemma
  <1> QED BY <1>3, <1>7, <1>8, <1>9, <1>10, <1>11

LEMMA DqServedLemma ==
    ASSUME ServedNext("recv", rt_data_queue_len(dq')),
           dq'.is_empty /\ ~dq'.resetting => ServedNext("send", 1)
    PROVE  DqServed'
  <1>1. rt_data_queue_len(dq)' = rt_data_queue_len(dq')
    BY DEF rt_data_queue_len
  <1> QED BY <1>1 DEF DqServed, Served, ServedNext, Resumed, rt_list_isempty

LEMMA DqInitLemma == DqInit => DqIInv
  <1> SUFFICES ASSUME DqInit PROVE DqIInv
    OBVIOUS
  <1>1. 0 \in 0 .. DqSize - 1 /\ [i \in 0 .. DqSize - 1 |-> NoItem] \in [0 .. DqSize - 1 -> DqItems]
    BY DqSizeAssumption DEF DqItems
  <1>2. /\ dq \in DqObject /\ popped \in Items \cup {NoItem} /\ dq.magic /\ DqFlags(dq)
    BY <1>1 DEF DqInit, DqStored, EmptyQueue, DqObject, DqItems, DqFlags
  <1>3. Queued /\ list["recv"] = <<>> /\ list["send"] = <<>>
    BY QueuedInitLemma, SidesLemma DEF DqInit, WaitersInit
  <1> QED BY <1>2, <1>3 DEF DqIInv, DqServed, Served, rt_list_isempty

LEMMA DqPushStep ==
    ASSUME DqIInv, NEW t \in Threads, NEW item \in Items, rt_data_queue_push(t, item)
    PROVE  DqIInv'
  <1>1. /\ pc[t] \in {"run", "sendAgain"} /\ dq.magic /\ UNCHANGED popped
        /\ ResumeFirst("recv", t, "run")
    BY SidesLemma DEF rt_data_queue_push, Tests
  <1>2. /\ dq' \in DqObject /\ DqFlags(dq') /\ dq'.magic /\ ~dq'.is_empty
        /\ rt_data_queue_len(dq') = rt_data_queue_len(dq) + 1
        /\ rt_data_queue_len(dq) \in Nat
    <2>1. dq \in DqObject /\ DqFlags(dq)
      BY DEF DqIInv
    <2>2. rt_data_queue_len(dq) \in Nat
      BY <2>1, DqLenLemma, DqSizeAssumption
    <2> QED BY <1>1, <2>1, <2>2, DqPushData
  <1>3. /\ pc[t] \notin Sides /\ pc[t] # Again("recv") /\ "recv" \in Sides
        /\ "run" \in (PCs \cup {"run"}) \ Sides
    BY <1>1, SidesLemma
  <1>4. Served("recv", rt_data_queue_len(dq))
    BY <1>1 DEF DqIInv, DqServed
  <1>5. Queued' /\ ServedNext("recv", rt_data_queue_len(dq'))
    BY <1>1, <1>2, <1>3, <1>4, ResumeFirstLemma, ServedResumes DEF DqIInv
  <1>6. DqServed'
    BY <1>2, <1>5, DqServedLemma
  <1> QED BY <1>1, <1>2, <1>5, <1>6 DEF DqIInv, DqFlags

(* A pop that leaves nothing wakes a pusher, whatever the low water mark. *)
LEMMA DqPopStep ==
    ASSUME DqIInv, NEW t \in Threads, rt_data_queue_pop(t)
    PROVE  DqIInv'
  <1>1. pc[t] \in {"run", "recvAgain"} /\ dq.magic
    BY SidesLemma DEF rt_data_queue_pop, Tests
  <1>2. /\ dq' = Drained /\ dq' \in DqObject /\ DqFlags(dq') /\ dq'.magic
        /\ popped' \in Items \cup {NoItem}
        /\ rt_data_queue_len(dq') = rt_data_queue_len(dq) - 1
        /\ rt_data_queue_len(dq) \in Nat /\ rt_data_queue_len(dq) > 0
        /\ dq'.is_empty => rt_data_queue_len(dq') = 0
    <2>1. dq \in DqObject /\ DqFlags(dq)
      BY DEF DqIInv
    <2>2. /\ dq' = Drained /\ dq' \in DqObject /\ DqFlags(dq') /\ dq'.magic = dq.magic
          /\ popped' \in Items \cup {NoItem} /\ rt_data_queue_len(dq) # 0
          /\ rt_data_queue_len(dq') = rt_data_queue_len(dq) - 1
      BY <2>1, DqPopData DEF DqItems
    <2>3. rt_data_queue_len(dq) \in Nat
      BY <2>1, DqLenLemma, DqSizeAssumption
    <2>4. dq'.is_empty => rt_data_queue_len(dq') = 0
      BY <2>2, DqLenLemma
    <2> QED BY <1>1, <2>2, <2>3, <2>4
  <1>3. /\ pc[t] \notin Sides /\ pc[t] # Again("send") /\ "send" \in Sides
        /\ "recv" \in Sides \ {"send"} /\ "run" \in (PCs \cup {"run"}) \ Sides
    BY <1>1, SidesLemma
  <1>4. Served("recv", rt_data_queue_len(dq))
    BY <1>1 DEF DqIInv, DqServed
  <1>5. IF rt_data_queue_len(dq') <= Lwm THEN ResumeFirst("send", t, "run") ELSE Goto(t, "run")
    BY <1>2 DEF rt_data_queue_pop
  <1>6. /\ Queued' /\ UNCHANGED forgot /\ list'["recv"] = list["recv"]
        /\ Resumed("recv") \ {t} \subseteq Resumed("recv")'
    <2>1. CASE rt_data_queue_len(dq') <= Lwm
      BY <1>3, <1>5, <2>1, ResumeFirstLemma DEF DqIInv
    <2>2. CASE ~(rt_data_queue_len(dq') <= Lwm)
      <3>1. /\ UNCHANGED <<list, forgot>> /\ pc' = [pc EXCEPT ![t] = "run"]
            /\ timed' = [timed EXCEPT ![t] = FALSE] /\ DOMAIN list' = Sides
        BY <1>5, <2>2 DEF Goto, DqIInv, Queued, WaitersTypeOK
      <3> QED BY <1>3, <3>1, MoveLemma DEF DqIInv
    <2> QED BY <2>1, <2>2
  <1>7. ServedNext("recv", rt_data_queue_len(dq'))
    BY <1>2, <1>4, <1>6, ServedTakes
  <1>8. ASSUME dq'.is_empty PROVE ServedNext("send", 1)
    <2>1. ResumeFirst("send", t, "run")
      BY <1>2, <1>5, <1>8, DqSizeAssumption
    <2>2. Served("send", 0) /\ 0 \in Nat /\ 0 + 1 = 1
      BY NothingThere
    <2>3. ServedNext("send", 0 + 1)
      BY <1>3, <2>1, <2>2, ServedResumes DEF DqIInv
    <2> QED BY <2>2, <2>3
  <1>9. DqServed'
    BY <1>7, <1>8, DqServedLemma
  <1> QED BY <1>2, <1>6, <1>9 DEF DqIInv, DqFlags

(* A pusher waits only while the queue is full, so nothing is asked of it;   *)
(* and a popper only while it is empty.                                    *)
LEMMA DqSuspendStep ==
    ASSUME DqIInv, NEW t \in Threads, NEW ticks \in BOOLEAN,
           DqPushSuspends(t, ticks) \/ DqPopSuspends(t, ticks)
    PROVE  DqIInv'
  <1>1. PICK side \in Sides, other \in Sides :
            /\ other # side /\ Tests(t, side) /\ dq.magic /\ UNCHANGED dqVars
            /\ Suspend(t, side, rt_list_insert_before(list[side], t), ticks)
            /\ side = "recv" => dq.is_empty
            /\ side = "send" => dq.is_full
    BY SidesLemma DEF DqPushSuspends, DqPopSuspends
  <1> DEFINE new == rt_list_insert_before(list[side], t)
  <1>2. list[side] \in Seq(Threads) /\ NoDup(list[side])
    BY <1>1 DEF DqIInv, Queued, WaitersTypeOK
  <1>3. /\ new \in Seq(Threads) /\ Linked(new) = Linked(list[side]) \cup {t}
        /\ t \notin Linked(list[side]) => NoDup(new)
    <2>1. new \in Seq(Threads)
      BY <1>2, InsertBeforeLemma
    <2>2. Linked(new) = Linked(list[side]) \cup {t}
      BY <1>2, InsertBeforeLemma
    <2>3. t \notin Linked(list[side]) => NoDup(new)
      BY <1>2, InsertBeforeLemma
    <2> QED BY <2>1, <2>2, <2>3
  <1> HIDE DEF new
  <1>4. Suspend(t, side, new, ticks)
    BY <1>1 DEF new
  <1>5. /\ Queued' /\ UNCHANGED forgot
        /\ list'[other] = list[other] /\ Resumed(other) \subseteq Resumed(other)'
    BY <1>1, <1>3, <1>4, JoinLemma DEF DqIInv
  <1>6. /\ dq' = dq /\ popped' = popped /\ rt_data_queue_len(dq) \in Nat
        /\ dq.is_empty => rt_data_queue_len(dq) = 0 /\ ~dq.is_full
        /\ Served("recv", rt_data_queue_len(dq))
        /\ dq.is_empty /\ ~dq.resetting => Served("send", 1)
    BY <1>1, DqLenLemma, DqSizeAssumption DEF dqVars, DqIInv, DqServed, DqFlags
  <1>7. /\ ServedNext("recv", rt_data_queue_len(dq))
        /\ dq.is_empty /\ ~dq.resetting => ServedNext("send", 1)
    <2>1. CASE side = "recv"
      <3>1. other = "send" /\ rt_data_queue_len(dq) = 0 /\ 1 \in Nat
        BY <1>1, <1>6, <2>1, SidesLemma
      <3>2. ServedNext("recv", rt_data_queue_len(dq))
        BY <3>1, NothingThere
      <3>3. ASSUME Served("send", 1) PROVE ServedNext("send", 1)
        BY <1>5, <3>1, <3>3, ServedStays
      <3> QED BY <1>6, <3>2, <3>3
    <2>2. CASE side = "send"
      <3>1. other = "recv" /\ ~dq.is_empty
        BY <1>1, <1>6, <2>2, SidesLemma
      <3> QED BY <1>5, <1>6, <3>1, ServedStays
    <2> QED BY <2>1, <2>2, SidesLemma
  <1>8. DqServed'
    BY <1>6, <1>7, DqServedLemma
  <1> QED BY <1>1, <1>5, <1>6, <1>8 DEF DqIInv, DqFlags

LEMMA DqWithoutStep ==
    ASSUME DqIInv, NEW t \in Threads, _thread_timeout(t) \/ rt_thread_delete(t), UNCHANGED dqVars
    PROVE  DqIInv'
  <1>1. dq.magic
    BY SidesLemma DEF DqIInv, _thread_timeout, rt_thread_delete
  <1>2. /\ dq' = dq /\ popped' = popped /\ rt_data_queue_len(dq) \in Nat
        /\ Served("recv", rt_data_queue_len(dq))
        /\ dq.is_empty /\ ~dq.resetting => Served("send", 1)
    BY <1>1, DqLenLemma, DqSizeAssumption DEF dqVars, DqIInv, DqServed
  <1>3. Queued' /\ ServedNext("recv", rt_data_queue_len(dq))
    BY <1>2, ServedWithout, SidesLemma DEF DqIInv
  <1>4. ASSUME Served("send", 1) PROVE ServedNext("send", 1)
    <2>1. 1 \in Nat
      OBVIOUS
    <2> QED BY <1>4, <2>1, ServedWithout, SidesLemma DEF DqIInv
  <1>5. DqServed'
    BY <1>2, <1>3, <1>4, DqServedLemma
  <1> QED BY <1>1, <1>2, <1>3, <1>5 DEF DqIInv, DqFlags

LEMMA DqResetStep ==
    ASSUME DqIInv, rt_data_queue_reset \/ rt_data_queue_deinit
    PROVE  DqIInv'
  <1>1. UNCHANGED waiters /\ dq.magic
    BY DEF rt_data_queue_reset, rt_data_queue_deinit
  <1>2. Queued' /\ pc' = pc
    BY <1>1 DEF waiters, DqIInv, Queued, WaitersTypeOK
  <1>3. CASE rt_data_queue_reset
    <2>1. 0 \in 0 .. DqSize - 1
      BY DqSizeAssumption
    <2>2. /\ dq' \in DqObject /\ popped' \in Items \cup {NoItem} /\ dq'.is_empty
          /\ dq'.resetting /\ DqFlags(dq') /\ dq'.magic = dq.magic
      BY <1>3, <2>1 DEF rt_data_queue_reset, DqIInv, DqObject, DqFlags
    <2>3. rt_data_queue_len(dq') = 0
      BY <2>2 DEF rt_data_queue_len
    <2>4. DqServed'
      BY <2>2, <2>3, NothingThere, DqServedLemma
    <2> QED BY <1>1, <1>2, <2>2, <2>4 DEF DqIInv, DqFlags
  <1>4. CASE rt_data_queue_deinit
    <2>1. /\ dq' \in DqObject /\ popped' = popped /\ ~dq'.magic /\ DqFlags(dq')
          /\ \A t \in Threads : pc[t] = "run"
      BY <1>4 DEF rt_data_queue_deinit, DqIInv, DqObject, DqFlags
    <2> QED BY <1>2, <2>1 DEF DqIInv, DqFlags, DqServed
  <1> QED BY <1>3, <1>4

(* When the reset ends nobody waits. *)
LEMMA DqTestsStep ==
    ASSUME DqIInv, ResetTests
    PROVE  DqIInv'
  <1>1. /\ UNCHANGED waiters /\ popped' = popped
        /\ \/ \E side \in Sides : dq' = [dq EXCEPT !.found = side]
           \/ /\ dq' = [dq EXCEPT !.resetting = FALSE]
              /\ list["recv"] = <<>> /\ list["send"] = <<>>
        /\ dq.resetting
    BY DEF ResetTests, rt_list_isempty
  <1>2. Queued' /\ pc' = pc /\ list' = list
    BY <1>1 DEF waiters, DqIInv, Queued, WaitersTypeOK
  <1>3. /\ dq' \in DqObject /\ dq'.magic = dq.magic /\ DqFlags(dq')
        /\ rt_data_queue_len(dq') = rt_data_queue_len(dq)
    BY <1>1 DEF DqIInv, DqObject, DqFlags, rt_data_queue_len
  <1>4. CASE dq'.resetting
    <2>1. dq.magic => Served("recv", rt_data_queue_len(dq)) /\ rt_data_queue_len(dq) \in Nat
      BY DqLenLemma, DqSizeAssumption DEF DqIInv, DqServed
    <2>2. forgot' = forgot /\ Resumed("recv")' = Resumed("recv")
      BY <1>1 DEF waiters, Resumed
    <2>3. dq.magic => ServedNext("recv", rt_data_queue_len(dq'))
      BY <1>2, <1>3, <2>1, <2>2, ServedStays
    <2>4. dq.magic => DqServed'
      BY <1>3, <1>4, <2>3, DqServedLemma
    <2> QED BY <1>1, <1>2, <1>3, <2>4 DEF DqIInv, DqServed
  <1>5. CASE ~dq'.resetting
    <2>1. list["recv"] = <<>> /\ list["send"] = <<>>
      BY <1>1, <1>5 DEF DqIInv, DqObject
    <2>2. ServedNext("recv", rt_data_queue_len(dq')) /\ ServedNext("send", 1)
      BY <1>2, <2>1 DEF ServedNext
    <2> QED BY <1>1, <1>2, <1>3, <2>2, DqServedLemma DEF DqIInv, DqFlags
  <1> QED BY <1>4, <1>5

(* While the queue is reset somebody may wait for room that is there. *)
LEMMA DqWakesStep ==
    ASSUME DqIInv, ResetWakes
    PROVE  DqIInv'
  <1> DEFINE side == dq.found
  <1> DEFINE x == Head(list[side])
  <1>1. /\ Leave(x) /\ dq' = [dq EXCEPT !.found = "none"] /\ popped' = popped
        /\ forgot' = forgot /\ dq.resetting
    BY DEF ResetWakes
  <1>2. side \in Sides /\ list[side] \in Seq(Threads) /\ list[side] # <<>>
    BY SidesLemma DEF DqIInv, DqObject, Queued, ResetWakes, rt_list_isempty
  <1>3. x \in Threads /\ x \in Linked(list[side])
    BY <1>2 DEF Linked
  <1>4. pc[x] = side
    BY <1>2, <1>3 DEF DqIInv, Queued, WaitersTypeOK
  <1>5. pc[x] \in {"recv", "send"}
    BY <1>2, <1>4, SidesLemma
  <1>6. /\ dq' \in DqObject /\ dq'.magic = dq.magic /\ DqFlags(dq') /\ dq'.resetting
        /\ rt_data_queue_len(dq') = rt_data_queue_len(dq)
    BY <1>1 DEF DqIInv, DqObject, DqFlags, rt_data_queue_len
  <1> HIDE DEF side, x
  <1>7. dq.magic
    BY <1>3, <1>5 DEF DqIInv
  <1>8. /\ Queued' /\ (list["recv"] = <<>> => list'["recv"] = <<>>)
        /\ Resumed("recv") \subseteq Resumed("recv")'
    <2>1. forgot' \in BOOLEAN
      BY <1>1 DEF DqIInv, Queued, WaitersTypeOK
    <2>2. pc[x] # Again("recv") /\ "recv" \in Sides
      BY <1>5, SidesLemma
    <2> QED BY <1>1, <1>3, <2>1, <2>2, LeaveLemma DEF DqIInv
  <1>9. Served("recv", rt_data_queue_len(dq)) /\ rt_data_queue_len(dq) \in Nat
    BY <1>7, DqLenLemma, DqSizeAssumption DEF DqIInv, DqServed
  <1>10. ServedNext("recv", rt_data_queue_len(dq'))
    BY <1>1, <1>6, <1>8, <1>9, ServedStays
  <1> QED BY <1>1, <1>6, <1>7, <1>8, <1>10, DqServedLemma DEF DqIInv, DqFlags

LEMMA DqAgainStep ==
    ASSUME DqIInv, rt_data_queue_init
    PROVE  DqIInv'
  <1>1. /\ \A t \in Threads : pc[t] = "run"
        /\ UNCHANGED waiters /\ dq' = EmptyQueue /\ popped' = NoItem
    BY DEF DqIInv, rt_data_queue_init
  <1>2. UNCHANGED <<list, pc, timed, forgot>>
    BY <1>1 DEF waiters
  <1>3. /\ 0 \in 0 .. DqSize - 1
        /\ [i \in 0 .. DqSize - 1 |-> NoItem] \in [0 .. DqSize - 1 -> DqItems]
    BY DqSizeAssumption DEF DqItems
  <1>4. Queued' /\ dq' \in DqObject /\ dq'.magic /\ DqFlags(dq')
    BY <1>1, <1>2, <1>3 DEF DqIInv, EmptyQueue, DqObject, DqItems, DqFlags, Queued, WaitersTypeOK
  <1>5. Linked(list["recv"]) = {} /\ Linked(list["send"]) = {}
    BY <1>1, SidesLemma DEF DqIInv, Queued, WaitersTypeOK
  <1>6. list["recv"] = <<>> /\ list["send"] = <<>>
    BY <1>5, EmptyLemma, SidesLemma DEF DqIInv, Queued
  <1>7. ServedNext("recv", rt_data_queue_len(dq')) /\ ServedNext("send", 1)
    BY <1>2, <1>6 DEF ServedNext
  <1> QED BY <1>1, <1>4, <1>7, DqServedLemma DEF DqIInv, DqFlags

LEMMA DqNextLemma == DqIInv /\ [DqNext]_<<waiters, dqVars>> => DqIInv'
  <1> SUFFICES ASSUME DqIInv, [DqNext]_<<waiters, dqVars>> PROVE DqIInv'
    OBVIOUS
  <1>1. CASE UNCHANGED <<waiters, dqVars>>
    BY <1>1 DEF waiters, dqVars, DqIInv, DqFlags, Queued, WaitersTypeOK, DqServed, Served,
                rt_list_isempty, rt_data_queue_len
  <1>2. CASE DqNext
    BY <1>2, DqPushStep, DqPopStep, DqSuspendStep, DqWithoutStep, DqResetStep, DqTestsStep,
       DqWakesStep, DqAgainStep DEF DqNext, DqThread
  <1> QED BY <1>1, <1>2

(* Nobody waits for an item that is in the queue, and an empty queue never   *)
(* leaves all its pushers asleep, for every low water mark and size.        *)
THEOREM DataQueueServes == DqSpec => [](DqTypeOK /\ DqServed)
  <1>1. DqInit => DqIInv
    BY DqInitLemma
  <1>2. DqIInv /\ [DqNext]_<<waiters, dqVars>> => DqIInv'
    BY DqNextLemma
  <1>3. DqIInv => DqTypeOK /\ DqServed
    BY DEF DqIInv, DqTypeOK, Queued
  <1> QED BY <1>1, <1>2, <1>3, PTL DEF DqSpec

LEMMA ItemsOfLemma ==
    ASSUME NEW box \in DqObject, DqFlags(box)
    PROVE  /\ IsRing(DqSize, DqItems, box.queue, box.get_index, rt_data_queue_len(box))
           /\ ItemsOf(box) = RingEntries(box.queue, DqSize, box.get_index, rt_data_queue_len(box))
           /\ ItemsOf(box) \in Seq(DqItems) /\ Len(ItemsOf(box)) = rt_data_queue_len(box)
  <1>1. rt_data_queue_len(box) \in 0 .. DqSize
    BY DqLenLemma
  <1>2. IsRing(DqSize, DqItems, box.queue, box.get_index, rt_data_queue_len(box))
    BY <1>1, DqSizeAssumption DEF DqObject, IsRing, DqItems
  <1>3. ItemsOf(box) = RingEntries(box.queue, DqSize, box.get_index, rt_data_queue_len(box))
    BY DEF RingEntries, ItemsOf
  <1> QED BY <1>2, <1>3, RingLemma

LEMMA ItemsPushStep ==
    ASSUME DqIInv, NEW t \in Threads, NEW item \in Items, rt_data_queue_push(t, item)
    PROVE  DqChannel!Send(item)
  <1> DEFINE g == dq.get_index  e == rt_data_queue_len(dq)
  <1>1. dq \in DqObject /\ DqFlags(dq) /\ dq' \in DqObject /\ DqFlags(dq')
        /\ rt_data_queue_len(dq') = e + 1 /\ e # DqSize
    BY DqPushData DEF DqIInv
  <1>2. dq.put_index = (g + e) % DqSize
    BY <1>1, DqLenLemma
  <1>3. /\ item \in DqItems /\ dq'.get_index = g /\ UNCHANGED popped
        /\ dq'.queue = SlotWritten(dq.queue, dq.put_index, item)
    BY <1>1 DEF DqObject, rt_data_queue_push, DqItems, SlotWritten
  <1>4. /\ IsRing(DqSize, DqItems, dq.queue, g, e)
        /\ ItemsOf(dq) = RingEntries(dq.queue, DqSize, g, e) /\ Len(ItemsOf(dq)) = e
        /\ ItemsOf(dq') = RingEntries(dq'.queue, DqSize, dq'.get_index, rt_data_queue_len(dq'))
    BY <1>1, ItemsOfLemma
  <1> HIDE DEF g, e
  <1>5. RingEntries(SlotWritten(dq.queue, (g + e) % DqSize, item), DqSize, g, e + 1) =
            Append(RingEntries(dq.queue, DqSize, g, e), item)
    BY <1>1, <1>3, <1>4, RingAppend
  <1>6. ItemsOf(dq') = Append(ItemsOf(dq), item)
    BY <1>1, <1>2, <1>3, <1>4, <1>5
  <1>7. e < DqSize
    BY <1>1, <1>4 DEF IsRing
  <1>8. ItemsOf(dq)' = ItemsOf(dq')
    BY DEF ItemsOf, rt_data_queue_len
  <1> QED BY <1>3, <1>4, <1>6, <1>7, <1>8 DEF DqChannel!Send

LEMMA ItemsPopStep ==
    ASSUME DqIInv, NEW t \in Threads, rt_data_queue_pop(t)
    PROVE  DqChannel!Receive
  <1> DEFINE g == dq.get_index  e == rt_data_queue_len(dq)
             a == IF g + 1 >= DqSize THEN 0 ELSE g + 1
  <1>1. dq \in DqObject /\ DqFlags(dq) /\ dq' \in DqObject /\ DqFlags(dq')
        /\ rt_data_queue_len(dq') = e - 1 /\ e # 0 /\ dq' = Drained
    BY DqPopData DEF DqIInv
  <1>2. /\ dq'.get_index = Following(g) /\ dq'.queue = dq.queue /\ popped' = dq.queue[g]
    BY <1>1 DEF DqObject, rt_data_queue_pop, Drained
  <1>3. Following(g) = a
    BY <1>1, DqSizeAssumption DEF Following, DqObject
  <1>4. a = IF g + 1 >= DqSize THEN 0 ELSE g + 1
    OBVIOUS
  <1>5. /\ IsRing(DqSize, DqItems, dq.queue, g, e)
        /\ ItemsOf(dq) = RingEntries(dq.queue, DqSize, g, e)
        /\ ItemsOf(dq') = RingEntries(dq'.queue, DqSize, dq'.get_index, rt_data_queue_len(dq'))
    BY <1>1, ItemsOfLemma
  <1> HIDE DEF g, e, a
  <1>6. /\ RingEntries(dq.queue, DqSize, a, e - 1) = Tail(RingEntries(dq.queue, DqSize, g, e))
        /\ RingEntries(dq.queue, DqSize, g, e) # <<>>
        /\ Head(RingEntries(dq.queue, DqSize, g, e)) = dq.queue[g]
    BY <1>1, <1>4, <1>5, RingTail
  <1>7. ItemsOf(dq') = Tail(ItemsOf(dq)) /\ ItemsOf(dq) # <<>> /\ popped' = Head(ItemsOf(dq))
    BY <1>1, <1>2, <1>3, <1>5, <1>6
  <1>8. ItemsOf(dq)' = ItemsOf(dq')
    BY DEF ItemsOf, rt_data_queue_len
  <1> QED BY <1>7, <1>8 DEF DqChannel!Receive

(* The other steps leave the items alone, or none. *)
LEMMA ItemsStay ==
    ASSUME dq'.is_empty = dq.is_empty, dq'.put_index = dq.put_index,
           dq'.get_index = dq.get_index, dq'.queue = dq.queue, popped' = popped
    PROVE  UNCHANGED DqChannel!vars
  BY DEF DqChannel!vars, ItemsOf, rt_data_queue_len

LEMMA ItemsGone ==
    ASSUME DqIInv', dq'.is_empty, popped' = NoItem
    PROVE  DqChannel!Clear
  <1>1. dq' \in DqObject /\ DqFlags(dq')
    BY DEF DqIInv, DqFlags
  <1>2. ItemsOf(dq') \in Seq(DqItems) /\ Len(ItemsOf(dq')) = 0
    BY <1>1, ItemsOfLemma, DqLenLemma
  <1>3. ItemsOf(dq') = <<>>
    BY <1>2
  <1>4. ItemsOf(dq)' = ItemsOf(dq')
    BY DEF ItemsOf, rt_data_queue_len
  <1> QED BY <1>3, <1>4 DEF DqChannel!Clear

LEMMA DqChannelNext ==
    DqIInv /\ DqIInv' /\ [DqNext]_<<waiters, dqVars>> => [DqChannel!Next]_(DqChannel!vars)
  <1> SUFFICES ASSUME DqIInv, DqIInv', [DqNext]_<<waiters, dqVars>>
               PROVE  [DqChannel!Next]_(DqChannel!vars)
    OBVIOUS
  <1>1. ASSUME UNCHANGED dqVars PROVE UNCHANGED DqChannel!vars
    BY <1>1, ItemsStay DEF dqVars
  <1>2. CASE \E t \in Threads : DqThread(t)
    <2> PICK t \in Threads : DqThread(t)
      BY <1>2
    <2>1. ASSUME NEW item \in Items, rt_data_queue_push(t, item) PROVE DqChannel!Next
      BY <2>1, ItemsPushStep DEF DqChannel!Next
    <2>2. CASE rt_data_queue_pop(t)
      BY <2>2, ItemsPopStep DEF DqChannel!Next
    <2>3. ASSUME NEW ticks \in BOOLEAN, DqPushSuspends(t, ticks) \/ DqPopSuspends(t, ticks)
          PROVE  UNCHANGED dqVars
      BY <2>3 DEF DqPushSuspends, DqPopSuspends
    <2> QED BY <1>1, <2>1, <2>2, <2>3 DEF DqThread
  <1>3. CASE rt_data_queue_reset
    BY <1>3, ItemsGone DEF rt_data_queue_reset, DqIInv, DqObject, DqChannel!Next
  <1>4. CASE rt_data_queue_init
    BY <1>4, ItemsGone DEF rt_data_queue_init, EmptyQueue, DqChannel!Next
  <1>5. CASE ResetTests \/ ResetWakes \/ rt_data_queue_deinit
    <2>1. /\ dq'.is_empty = dq.is_empty /\ dq'.put_index = dq.put_index /\ popped' = popped
          /\ dq'.get_index = dq.get_index /\ dq'.queue = dq.queue
      <3>1. CASE ResetTests \/ ResetWakes
        <4>1. /\ popped' = popped
              /\ \/ \E side \in Sides \cup {"none"} : dq' = [dq EXCEPT !.found = side]
                 \/ dq' = [dq EXCEPT !.resetting = FALSE]
          BY <3>1 DEF ResetTests, ResetWakes
        <4> QED BY <4>1 DEF DqIInv, DqObject
      <3>2. CASE rt_data_queue_deinit
        BY <3>2 DEF rt_data_queue_deinit, DqIInv, DqObject
      <3> QED BY <1>5, <3>1, <3>2
    <2> QED BY <2>1, ItemsStay
  <1>6. CASE UNCHANGED <<waiters, dqVars>>
    BY <1>1, <1>6
  <1> QED BY <1>2, <1>3, <1>4, <1>5, <1>6 DEF DqNext

(* Every item comes out once and in the order of the pushes, two flags       *)
(* telling an empty ring from a full one, for a queue of any size: the data *)
(* queue implements Channel.                                               *)
THEOREM DataQueueIsChannel == DqSpec => DqImplementsChannel
  <1>1. DqInit => DqIInv
    BY DqInitLemma
  <1>2. DqInit => DqChannel!Init
    <2> SUFFICES ASSUME DqInit PROVE DqChannel!Init
      OBVIOUS
    <2>1. dq \in DqObject /\ DqFlags(dq)
      BY <1>1 DEF DqIInv
    <2>2. dq.is_empty /\ popped = NoItem
      BY DEF DqInit, DqStored, EmptyQueue
    <2>3. ItemsOf(dq) \in Seq(DqItems) /\ Len(ItemsOf(dq)) = 0
      BY <2>1, <2>2, ItemsOfLemma, DqLenLemma
    <2> QED BY <2>2, <2>3 DEF DqChannel!Init
  <1>3. DqIInv /\ [DqNext]_<<waiters, dqVars>> => DqIInv'
    BY DqNextLemma
  <1>4. DqIInv /\ DqIInv' /\ [DqNext]_<<waiters, dqVars>> => [DqChannel!Next]_(DqChannel!vars)
    BY DqChannelNext
  <1> QED BY <1>1, <1>2, <1>3, <1>4, PTL DEF DqSpec, DqImplementsChannel, DqChannel!Spec
-----------------------------------------------------------------------------
(* The event *)

(* More events than needed do no harm. *)
LEMMA SatisfiedLess ==
    ASSUME NEW want, NEW option, NEW less, NEW set, less \subseteq set,
           Satisfied(want, option, less)
    PROVE  Satisfied(want, option, set)
  BY DEF Satisfied

EvTyped ==
    /\ Queued /\ event \in [set : SUBSET Bits, live : BOOLEAN]
    /\ event_set \in [Threads -> SUBSET Bits] /\ event_info \in [Threads -> Options]
    /\ asked \in [Threads -> SUBSET Bits]

WalkRecord == [set : SUBSET Bits, left : Seq(Threads), woken : SUBSET Threads,
               got : [Threads -> SUBSET Bits]]

(* What holds of a walk that began with set after it has visited i waiters. *)
Visited(set, i, w) ==
    LET q == list["recv"] IN
    /\ w \in WalkRecord /\ w.set \subseteq set
    /\ NoDup(w.left) /\ Linked(w.left) = Linked(q) \ w.woken
    /\ w.woken \subseteq {q[k] : k \in 1 .. i}
    /\ \A t \in Threads \ w.woken : w.got[t] = event_set[t]
    /\ \A k \in 1 .. i : q[k] \notin w.woken =>
            ~Satisfied(event_set[q[k]], event_info[q[k]], w.set)
    /\ \A x \in w.woken : IF event_info[x].all THEN w.got[x] = event_set[x]
                          ELSE w.got[x] # {} /\ w.got[x] \subseteq event_set[x]
    /\ \A x \in w.woken : event_info[x].clear => w.got[x] \cap w.set = {}
    /\ \A k, l \in 1 .. i :
            (k < l /\ q[k] \in w.woken /\ q[l] \in w.woken /\ event_info[q[k]].clear)
                => w.got[q[k]] \cap w.got[q[l]] = {}

LEMMA VisitLemma ==
    ASSUME EvTyped, NEW set, NEW i \in 1 .. Len(list["recv"]), NEW w,
           Visited(set, i - 1, w)
    PROVE  Visited(set, i, Visit(w, list["recv"][i]))
  <1>0. PICK q : q = list["recv"]
    OBVIOUS
  <1>1. q \in Seq(Threads) /\ NoDup(q) /\ i \in 1 .. Len(q) /\ Len(q) \in Nat /\ DOMAIN q = 1 .. Len(q)
    BY <1>0 DEF EvTyped, Queued, WaitersTypeOK, Sides
  <1>2. PICK t \in Threads : t = q[i]
    BY <1>1
  <1>3. PICK v : v = Visit(w, t)
    OBVIOUS
  <1>4. /\ w \in WalkRecord /\ w.set \subseteq set
        /\ NoDup(w.left) /\ Linked(w.left) = Linked(q) \ w.woken
        /\ w.woken \subseteq {q[k] : k \in 1 .. i - 1}
        /\ \A u \in Threads \ w.woken : w.got[u] = event_set[u]
    BY <1>0 DEF Visited
  <1>5. /\ \A k \in 1 .. i - 1 : q[k] \notin w.woken =>
                ~Satisfied(event_set[q[k]], event_info[q[k]], w.set)
        /\ \A x \in w.woken : IF event_info[x].all THEN w.got[x] = event_set[x]
                              ELSE w.got[x] # {} /\ w.got[x] \subseteq event_set[x]
        /\ \A x \in w.woken : event_info[x].clear => w.got[x] \cap w.set = {}
        /\ \A k, l \in 1 .. i - 1 :
                (k < l /\ q[k] \in w.woken /\ q[l] \in w.woken /\ event_info[q[k]].clear)
                    => w.got[q[k]] \cap w.got[q[l]] = {}
    BY <1>0 DEF Visited
  <1>6. /\ w.set \in SUBSET Bits /\ w.left \in Seq(Threads) /\ w.woken \in SUBSET Threads
        /\ w.got \in [Threads -> SUBSET Bits]
    BY <1>4 DEF WalkRecord
  <1>7. 1 .. i = (1 .. i - 1) \cup {i} /\ \A k \in 1 .. i - 1 : k \in 1 .. Len(q) /\ k < i
    BY <1>1
  <1>8. t \notin w.woken
    BY <1>1, <1>2, <1>4, <1>7 DEF NoDup
  <1>9. CASE ~Satisfied(event_set[t], event_info[t], w.set)
    <2>1. v = w
      BY <1>3, <1>9 DEF Visit
    <2>2. w.woken \subseteq {q[k] : k \in 1 .. i}
      BY <1>4, <1>7
    <2>3. \A k \in 1 .. i : q[k] \notin w.woken =>
                ~Satisfied(event_set[q[k]], event_info[q[k]], w.set)
      BY <1>2, <1>5, <1>7, <1>9
    <2>4. ASSUME NEW k \in 1 .. i, NEW l \in 1 .. i, k < l, q[k] \in w.woken, q[l] \in w.woken,
                 event_info[q[k]].clear
          PROVE  w.got[q[k]] \cap w.got[q[l]] = {}
      <3>1. k \in 1 .. i - 1 /\ l \in 1 .. i - 1
        BY <1>2, <1>7, <1>8, <2>4
      <3> QED BY <1>5, <2>4, <3>1
    <2>5. Visited(set, i, w)
      BY <1>0, <1>4, <1>5, <2>2, <2>3, <2>4 DEF Visited
    <2> QED BY <1>0, <1>2, <1>3, <2>1, <2>5
  <1>10. CASE Satisfied(event_set[t], event_info[t], w.set)
    <2>0. PICK got : got = IF event_info[t].all THEN event_set[t] ELSE event_set[t] \cap w.set
      OBVIOUS
    <2>1. v = [set   |-> IF event_info[t].clear THEN w.set \ got ELSE w.set,
               left  |-> rt_list_remove(w.left, t),
               woken |-> w.woken \cup {t},
               got   |-> [w.got EXCEPT ![t] = got]]
      BY <1>3, <1>10, <2>0 DEF Visit
    <2>2. /\ v.set = IF event_info[t].clear THEN w.set \ got ELSE w.set
          /\ v.left = rt_list_remove(w.left, t) /\ v.woken = w.woken \cup {t}
          /\ v.got = [w.got EXCEPT ![t] = got]
          /\ v = [set |-> v.set, left |-> v.left, woken |-> v.woken, got |-> v.got]
      BY <2>1
    <2>3. got \in SUBSET Bits /\ got \subseteq w.set /\ got \subseteq event_set[t]
      BY <1>6, <1>10, <2>0 DEF Satisfied, EvTyped
    <2>4. IF event_info[t].all THEN got = event_set[t] ELSE got # {}
      BY <1>10, <2>0 DEF Satisfied
    <2>5. v.set \subseteq w.set /\ (event_info[t].clear => got \cap v.set = {})
      BY <2>2
    <2>6. /\ v.left \in Seq(Threads) /\ NoDup(v.left) /\ Linked(v.left) = Linked(w.left) \ {t}
      BY <1>4, <1>6, <2>2, RemoveLemma
    <2>7. v \in WalkRecord
      <3>1. v.got \in [Threads -> SUBSET Bits] /\ v.set \in SUBSET Bits /\ v.woken \in SUBSET Threads
        BY <1>6, <2>2, <2>3, <2>5
      <3>2. [set |-> v.set, left |-> v.left, woken |-> v.woken, got |-> v.got] \in WalkRecord
        BY <2>6, <3>1 DEF WalkRecord
      <3> QED BY <2>2, <3>2
    <2>8. Linked(v.left) = Linked(q) \ v.woken
      BY <1>4, <2>2, <2>6
    <2>9. v.woken \subseteq {q[k] : k \in 1 .. i}
      BY <1>2, <1>4, <1>7, <2>2
    <2>10. v.got[t] = got /\ \A u \in Threads : u # t => v.got[u] = w.got[u]
      BY <1>6, <2>2
    <2>11. \A u \in Threads \ v.woken : v.got[u] = event_set[u]
      BY <1>4, <2>2, <2>10
    <2>12. \A k \in 1 .. i : q[k] \notin v.woken =>
                ~Satisfied(event_set[q[k]], event_info[q[k]], v.set)
      <3> SUFFICES ASSUME NEW k \in 1 .. i, q[k] \notin v.woken
                   PROVE  ~Satisfied(event_set[q[k]], event_info[q[k]], v.set)
        OBVIOUS
      <3>1. k \in 1 .. i - 1 /\ q[k] \notin w.woken
        BY <1>2, <1>7, <2>2
      <3>2. ~Satisfied(event_set[q[k]], event_info[q[k]], w.set)
        BY <1>5, <3>1
      <3> QED BY <2>5, <3>2, SatisfiedLess
    <2>13. \A x \in v.woken : IF event_info[x].all THEN v.got[x] = event_set[x]
                              ELSE v.got[x] # {} /\ v.got[x] \subseteq event_set[x]
      BY <1>5, <1>6, <1>8, <2>2, <2>3, <2>4, <2>10
    <2>14. ASSUME NEW x \in v.woken, event_info[x].clear PROVE v.got[x] \cap v.set = {}
      <3>1. CASE x = t
        BY <2>5, <2>10, <2>14, <3>1
      <3>2. CASE x # t
        <4>1. x \in w.woken /\ v.got[x] = w.got[x]
          BY <1>6, <2>2, <2>10, <3>2
        <4> QED BY <1>5, <2>5, <2>14, <4>1
      <3> QED BY <3>1, <3>2
    <2>15. ASSUME NEW k \in 1 .. i, NEW l \in 1 .. i, k < l, q[k] \in v.woken, q[l] \in v.woken,
                  event_info[q[k]].clear
           PROVE  v.got[q[k]] \cap v.got[q[l]] = {}
      <3>1. k \in 1 .. i - 1 /\ q[k] # t
        <4>1. k \in 1 .. i - 1 /\ k \in DOMAIN q /\ k # i
          BY <1>1, <1>7, <2>15
        <4> QED BY <1>1, <1>2, <4>1 DEF NoDup
      <3>2. q[k] \in w.woken /\ v.got[q[k]] = w.got[q[k]]
        BY <1>6, <2>2, <2>10, <2>15, <3>1
      <3>3. CASE l = i
        BY <1>2, <1>5, <2>3, <2>10, <2>15, <3>2, <3>3
      <3>4. CASE l # i
        <4>1. l \in 1 .. i - 1 /\ l \in DOMAIN q
          BY <1>1, <1>7, <3>4
        <4>2. q[l] # t
          BY <1>1, <1>2, <3>4, <4>1 DEF NoDup
        <4>3. q[l] \in w.woken /\ v.got[q[l]] = w.got[q[l]]
          BY <1>6, <2>2, <2>10, <2>15, <4>2
        <4> QED BY <1>5, <2>15, <3>1, <3>2, <4>1, <4>3
      <3> QED BY <3>3, <3>4
    <2>16. v.set \subseteq set
      BY <1>4, <2>5
    <2>17. Visited(set, i, v)
      BY <1>0, <2>6, <2>7, <2>8, <2>9, <2>11, <2>12, <2>13, <2>14, <2>15, <2>16 DEF Visited
    <2> QED BY <1>0, <1>2, <1>3, <2>17
  <1> QED BY <1>9, <1>10

(* What the definition of Walk asks of its function. *)
IsEventWalk(set, n, h) ==
    h = [i \in 0 .. n |-> IF i = 0 THEN WalkStart(set) ELSE Visit(h[i - 1], list["recv"][i])]

LEMMA EventWalkExists ==
    ASSUME NEW set, NEW n \in Nat PROVE \E h : IsEventWalk(set, n, h)
  <1> DEFINE P == {k \in Nat : ~\E h : IsEventWalk(set, k, h)}
  <1>1. SUFFICES ASSUME P # {} PROVE FALSE
    OBVIOUS
  <1>2. PICK k \in P : \A r \in P : k <= r
    <2>1. P \subseteq Nat
      OBVIOUS
    <2> HIDE DEF P
    <2> QED BY <1>1, <2>1, LeastLemma
  <1>3. CASE k = 0
    <2> DEFINE f == [i \in 0 .. 0 |-> WalkStart(set)]
    <2>1. f = [i \in 0 .. 0 |-> IF i = 0 THEN WalkStart(set) ELSE Visit(f[i - 1], list["recv"][i])]
      OBVIOUS
    <2> HIDE DEF f
    <2>2. IsEventWalk(set, 0, f)
      BY <2>1, Zenon DEF IsEventWalk
    <2> QED BY <1>2, <1>3, <2>2
  <1>4. CASE k # 0
    <2>1. k \in Nat /\ k - 1 \in Nat /\ k - 1 \notin P
      BY <1>2, <1>4
    <2>2. PICK h : IsEventWalk(set, k - 1, h)
      BY <2>1
    <2>3. PICK last : last = Visit(h[k - 1], list["recv"][k])
      OBVIOUS
    <2> DEFINE f == [i \in 0 .. k |-> IF i = k THEN last ELSE h[i]]
    <2>4. h = [i \in 0 .. k - 1 |->
                IF i = 0 THEN WalkStart(set) ELSE Visit(h[i - 1], list["recv"][i])]
      BY <2>2 DEF IsEventWalk
    <2>5. \A i \in 0 .. k - 1 :
             h[i] = IF i = 0 THEN WalkStart(set) ELSE Visit(h[i - 1], list["recv"][i])
      BY <2>4, Zenon
    <2>6. ASSUME NEW i \in 0 .. k
          PROVE  f[i] = IF i = 0 THEN WalkStart(set) ELSE Visit(f[i - 1], list["recv"][i])
      <3>1. CASE i = k
        <4>1. f[i] = last /\ f[i - 1] = h[k - 1] /\ i # 0
          BY <1>4, <2>1, <3>1
        <4> HIDE DEF f
        <4> QED BY <2>3, <3>1, <4>1
      <3>2. CASE i # k
        <4>1. i \in 0 .. k - 1 /\ f[i] = h[i]
          BY <2>1, <3>2
        <4>2. i # 0 => f[i - 1] = h[i - 1]
          BY <2>1, <4>1
        <4> HIDE DEF f
        <4> QED BY <2>5, <4>1, <4>2
      <3> QED BY <3>1, <3>2
    <2>7. f = [i \in 0 .. k |-> f[i]]
      OBVIOUS
    <2> HIDE DEF f
    <2>8. f = [i \in 0 .. k |-> IF i = 0 THEN WalkStart(set) ELSE Visit(f[i - 1], list["recv"][i])]
      BY <2>6, <2>7, Zenon
    <2>9. IsEventWalk(set, k, f)
      BY <2>8, Zenon DEF IsEventWalk
    <2> QED BY <1>2, <2>9
  <1> QED BY <1>3, <1>4

LEMMA EventWalkLemma ==
    ASSUME EvTyped, NEW set \in SUBSET Bits
    PROVE  Visited(set, Len(list["recv"]), Walk(set))
  <1>0. PICK n : n = Len(list["recv"])
    OBVIOUS
  <1>1. list["recv"] \in Seq(Threads) /\ NoDup(list["recv"]) /\ n \in Nat
    BY <1>0 DEF EvTyped, Queued, WaitersTypeOK, Sides
  <1>2. PICK g : g = CHOOSE h : IsEventWalk(set, n, h)
    OBVIOUS
  <1>3. IsEventWalk(set, n, g)
    BY <1>1, <1>2, EventWalkExists
  <1>4. Walk(set) = g[n]
    BY <1>0, <1>2, Zenon DEF Walk, IsEventWalk
  <1>5. \A i \in 0 .. n :
           g[i] = IF i = 0 THEN WalkStart(set) ELSE Visit(g[i - 1], list["recv"][i])
    <2>1. g = [i \in 0 .. n |->
                  IF i = 0 THEN WalkStart(set) ELSE Visit(g[i - 1], list["recv"][i])]
      BY <1>3, Zenon DEF IsEventWalk
    <2> QED BY <2>1, Zenon
  <1>6. Visited(set, 0, WalkStart(set))
    <2>1. PICK w : w = WalkStart(set)
      OBVIOUS
    <2>2. /\ w.set = set /\ w.left = list["recv"] /\ w.woken = {} /\ w.got = event_set
          /\ w \in WalkRecord
      BY <1>1, <2>1 DEF WalkStart, WalkRecord, EvTyped
    <2>3. Visited(set, 0, w)
      BY <1>1, <2>2 DEF Visited
    <2> QED BY <2>1, <2>3
  <1> DEFINE P == {k \in 0 .. n : ~Visited(set, k, g[k])}
  <1>7. ASSUME P # {} PROVE FALSE
    <2>1. PICK k \in P : \A r \in P : k <= r
      <3>1. P \subseteq Nat
        OBVIOUS
      <3> HIDE DEF P
      <3> QED BY <1>7, <3>1, LeastLemma
    <2>2. k \in 0 .. n /\ ~Visited(set, k, g[k])
      OBVIOUS
    <2>3. 0 \in 0 .. n
      BY <1>1
    <2>4. g[0] = WalkStart(set)
      BY <1>5, <2>3
    <2>5. k # 0
      BY <1>6, <2>2, <2>4
    <2>6. k \in 1 .. Len(list["recv"]) /\ k - 1 \in 0 .. n /\ ~(k <= k - 1)
      BY <1>0, <1>1, <2>2, <2>5
    <2>7. Visited(set, k - 1, g[k - 1])
      BY <2>1, <2>6
    <2>8. Visited(set, k, Visit(g[k - 1], list["recv"][k]))
      BY <2>6, <2>7, VisitLemma
    <2>9. g[k] = Visit(g[k - 1], list["recv"][k])
      BY <1>5, <2>2, <2>5
    <2> QED BY <2>2, <2>8, <2>9
  <1>8. n \in 0 .. n
    BY <1>1
  <1> QED BY <1>0, <1>4, <1>7, <1>8

(* Nobody waits for nothing, nor for anything but what it asked for. *)
Waits == \A t \in Threads : pc[t] = "recv" => event_set[t] = asked[t] /\ event_set[t] # {}

EvIInv == EvTyped /\ EventServed /\ Waits

LEMMA EvInitLemma == EventInit => EvIInv
  <1> SUFFICES ASSUME EventInit PROVE EvIInv
    OBVIOUS
  <1>1. Queued
    BY QueuedInitLemma DEF EventInit
  <1>2. \A t \in Threads : pc[t] = "run"
    BY DEF EventInit, WaitersInit
  <1>3. EvTyped
    BY <1>1 DEF EvTyped, EventInit, EventStored, NoOption, Options
  <1> QED BY <1>2, <1>3 DEF EvIInv, EventServed, Waits

(* Nobody new waits, and nobody's wait changes: with no more events set than *)
(* before, nobody waits in vain.                                           *)
LEMMA EvFewer ==
    ASSUME EvIInv, EvTyped',
           \A t \in Threads : pc'[t] = "recv" =>
                /\ pc[t] = "recv" /\ event_set'[t] = event_set[t]
                /\ event_info'[t] = event_info[t] /\ asked'[t] = asked[t],
           event'.live =>
                (event'.set \subseteq event.set /\ event.live) \/ event'.set = {}
    PROVE  EvIInv'
  <1>1. Waits'
    BY DEF Waits, EvIInv
  <1>2. ASSUME NEW t \in Threads, event'.live, pc'[t] = "recv"
        PROVE  ~Satisfied(event_set'[t], event_info'[t], event'.set)
    <2>1. /\ pc[t] = "recv" /\ event_set'[t] = event_set[t] /\ event_info'[t] = event_info[t]
          /\ event_set[t] # {} /\ event_set[t] \in SUBSET Bits
      BY <1>2 DEF EvIInv, Waits, EvTyped
    <2>2. CASE event'.set = {}
      BY <2>1, <2>2 DEF Satisfied
    <2>3. CASE event'.set \subseteq event.set /\ event.live
      <3>1. ~Satisfied(event_set[t], event_info[t], event.set)
        BY <2>1, <2>3 DEF EvIInv, EventServed
      <3> QED BY <2>1, <2>3, <3>1, SatisfiedLess
    <2> QED BY <1>2, <2>2, <2>3
  <1> QED BY <1>1, <1>2 DEF EvIInv, EventServed

LEMMA EvForget ==
    ASSUME EvTyped, NEW gone, Forget(gone)
    PROVE  /\ event_set' \in [Threads -> SUBSET Bits] /\ event_info' \in [Threads -> Options]
           /\ asked' \in [Threads -> SUBSET Bits]
           /\ \A t \in Threads \ gone : /\ event_set'[t] = event_set[t]
                                       /\ event_info'[t] = event_info[t]
                                       /\ asked'[t] = asked[t]
  <1>1. NoOption \in Options /\ {} \in SUBSET Bits
    BY DEF NoOption, Options
  <1> QED BY <1>1 DEF Forget, EvTyped

(* A send resumes with their bits the waiters that have what they asked for, *)
(* and nobody who is left behind could have been.                          *)
LEMMA EvSendStep ==
    ASSUME EvIInv, NEW set \in SUBSET Bits, rt_event_send(set)
    PROVE  EvIInv' /\ Delivers
  <1> PICK q : q = list["recv"]
    OBVIOUS
  <1>1. q \in Seq(Threads) /\ NoDup(q) /\ Linked(q) = {t \in Threads : pc[t] = "recv"}
    BY DEF EvIInv, EvTyped, Queued, WaitersTypeOK, Sides
  <1>2. PICK w : w = Walk(event.set \cup set)
    OBVIOUS
  <1>3. /\ event' = [event EXCEPT !.set = w.set] /\ event_set' = w.got
        /\ list' = [list EXCEPT !["recv"] = w.left]
        /\ pc' = [t \in Threads |-> IF t \in w.woken THEN "recvAgain" ELSE pc[t]]
        /\ UNCHANGED <<event_info, asked, timed, forgot>>
    BY <1>2 DEF rt_event_send
  <1>4. event \in [set : SUBSET Bits, live : BOOLEAN] /\ EvTyped
    BY DEF EvIInv, EvTyped
  <1>5. Visited(event.set \cup set, Len(q), w)
    <2>1. event.set \cup set \in SUBSET Bits
      BY <1>4
    <2> QED BY <1>2, <1>4, <2>1, EventWalkLemma
  <1>6. /\ w \in WalkRecord /\ NoDup(w.left) /\ Linked(w.left) = Linked(q) \ w.woken
        /\ w.woken \subseteq {q[k] : k \in 1 .. Len(q)}
        /\ \A t \in Threads \ w.woken : w.got[t] = event_set[t]
    BY <1>5 DEF Visited
  <1>7. /\ \A k \in 1 .. Len(q) : q[k] \notin w.woken =>
                ~Satisfied(event_set[q[k]], event_info[q[k]], w.set)
        /\ \A x \in w.woken : IF event_info[x].all THEN w.got[x] = event_set[x]
                              ELSE w.got[x] # {} /\ w.got[x] \subseteq event_set[x]
        /\ \A x \in w.woken : event_info[x].clear => w.got[x] \cap w.set = {}
        /\ \A k, l \in 1 .. Len(q) :
                (k < l /\ q[k] \in w.woken /\ q[l] \in w.woken /\ event_info[q[k]].clear)
                    => w.got[q[k]] \cap w.got[q[l]] = {}
    BY <1>5 DEF Visited
  <1>8. /\ w.set \in SUBSET Bits /\ w.left \in Seq(Threads) /\ w.woken \in SUBSET Threads
        /\ w.got \in [Threads -> SUBSET Bits]
    BY <1>6 DEF WalkRecord
  <1>9. w.woken \subseteq Linked(q) /\ DOMAIN q = 1 .. Len(q)
    BY <1>1, <1>6 DEF Linked
  <1>10. Queued'
    <2>1. list'["recv"] = w.left /\ list'["send"] = list["send"] /\ DOMAIN list' = Sides
      BY <1>3, <1>4 DEF EvTyped, Queued, WaitersTypeOK, Sides
    <2>2. /\ list["send"] \in Seq(Threads) /\ NoDup(list["send"])
          /\ Linked(list["send"]) = {t \in Threads : pc[t] = "send"}
      BY <1>4 DEF EvTyped, Queued, WaitersTypeOK, Sides
    <2>3. \A t \in Threads : pc'[t] = IF t \in w.woken THEN "recvAgain" ELSE pc[t]
      BY <1>3
    <2>4. \A t \in w.woken : pc[t] = "recv"
      BY <1>1, <1>9
    <2>5. Linked(w.left) = {t \in Threads : pc'[t] = "recv"}
      BY <1>1, <1>6, <2>3
    <2>6. Linked(list["send"]) = {t \in Threads : pc'[t] = "send"}
      BY <2>2, <2>3, <2>4
    <2>7. pc' \in [Threads -> PCs \cup {"run"}]
      BY <1>3, <1>4, SidesLemma DEF EvTyped, Queued, WaitersTypeOK
    <2>8. \A side \in Sides : /\ list'[side] \in Seq(Threads) /\ NoDup(list'[side])
                               /\ Linked(list'[side]) = {t \in Threads : pc'[t] = side}
      BY <1>6, <1>8, <2>1, <2>2, <2>5, <2>6, SidesLemma
    <2> QED BY <1>3, <1>4, <2>1, <2>7, <2>8, QueuedLemma DEF EvTyped, Queued, WaitersTypeOK
  <1>11. EvTyped'
    BY <1>3, <1>4, <1>8, <1>10 DEF EvTyped
  <1>12. event'.set = w.set
    BY <1>3, <1>4
  <1>13. EventServed' /\ Waits'
    <2>1. ASSUME NEW t \in Threads, pc'[t] = "recv"
          PROVE  /\ event_set'[t] = event_set[t] /\ pc[t] = "recv"
                 /\ ~Satisfied(event_set'[t], event_info'[t], event'.set)
      <3>1. t \notin w.woken /\ pc[t] = "recv"
        BY <1>3, <2>1
      <3>2. event_set'[t] = event_set[t]
        BY <1>3, <1>6, <3>1
      <3>3. PICK k \in 1 .. Len(q) : q[k] = t
        BY <1>1, <1>9, <3>1 DEF Linked
      <3>4. ~Satisfied(event_set[t], event_info[t], w.set)
        BY <1>7, <3>1, <3>3
      <3> QED BY <1>3, <1>12, <3>1, <3>2, <3>4
    <2> QED BY <1>3, <2>1 DEF EventServed, Waits, EvIInv
  <1>14. Delivers
    <2>1. Woken \subseteq w.woken
      BY <1>3 DEF Woken
    <2>2. \A x \in w.woken : event_set[x] = asked[x]
      BY <1>1, <1>9 DEF EvIInv, Waits
    <2>3. ASSUME NEW x \in Woken
          PROVE  IF event_info[x].all THEN event_set'[x] = asked[x]
                 ELSE event_set'[x] # {} /\ event_set'[x] \subseteq asked[x]
      BY <1>3, <1>7, <2>1, <2>2
    <2>4. ASSUME NEW x \in Woken, event_info[x].clear PROVE event_set'[x] \cap event'.set = {}
      BY <1>3, <1>7, <1>12, <2>1, <2>4
    <2>5. ASSUME NEW x \in Woken, NEW y \in Woken, event_info[x].clear,
                 Position(q, x) < Position(q, y)
          PROVE  event_set'[x] \cap event_set'[y] = {}
      <3>1. /\ Position(q, x) \in 1 .. Len(q) /\ q[Position(q, x)] = x
            /\ Position(q, y) \in 1 .. Len(q) /\ q[Position(q, y)] = y
        BY <1>1, <1>9, <2>1, PlaceLemma
      <3> QED BY <1>3, <1>7, <2>1, <2>5, <3>1
    <2> QED BY <2>3, <2>4, <2>5 DEF Delivers
  <1> QED BY <1>11, <1>13, <1>14 DEF EvIInv

LEMMA EvRecvStep ==
    ASSUME EvIInv, NEW t \in Threads, NEW set \in SUBSET Bits, NEW option \in Options,
           EventRecv(t, set, option)
    PROVE  EvIInv'
  <1>1. EvTyped /\ event \in [set : SUBSET Bits, live : BOOLEAN]
    BY DEF EvIInv, EvTyped
  <1>2. /\ event.live /\ UNCHANGED <<waiters, event_set, event_info, asked>>
        /\ event' = [event EXCEPT !.set = IF option.clear THEN @ \ set ELSE @]
    BY DEF EventRecv
  <1>3. event' \in [set : SUBSET Bits, live : BOOLEAN] /\ event'.set \subseteq event.set
    BY <1>1, <1>2
  <1>4. EvTyped'
    BY <1>1, <1>2, <1>3 DEF EvTyped, Queued, WaitersTypeOK, waiters
  <1> QED BY <1>2, <1>3, <1>4, EvFewer DEF waiters

LEMMA EvSuspendStep ==
    ASSUME EvIInv, NEW t \in Threads, NEW set \in SUBSET Bits, NEW option \in Options,
           NEW ticks \in BOOLEAN, EventRecvSuspends(t, set, option, ticks)
    PROVE  EvIInv'
  <1> PICK newList : newList = _ipc_list_suspend(list["recv"], t, Flag, Prio)
    OBVIOUS
  <1>1. /\ pc[t] = "run" /\ set # {} /\ ~Satisfied(set, option, event.set)
        /\ event_set' = [event_set EXCEPT ![t] = set]
        /\ event_info' = [event_info EXCEPT ![t] = option]
        /\ asked' = [asked EXCEPT ![t] = set]
        /\ Suspend(t, "recv", newList, ticks) /\ UNCHANGED event
    BY DEF EventRecvSuspends
  <1>2. EvTyped /\ Queued /\ "recv" \in Sides
    BY DEF EvIInv, EvTyped, Sides
  <1>3. /\ newList \in Seq(Threads) /\ Linked(newList) = Linked(list["recv"]) \cup {t}
        /\ t \notin Linked(list["recv"]) => NoDup(newList)
    <2>1. list["recv"] \in Seq(Threads) /\ NoDup(list["recv"])
      BY <1>2 DEF Queued, WaitersTypeOK
    <2> QED BY <2>1, WaitersPrioAssumption, SuspendLemma
  <1>4. Tests(t, "recv")
    BY <1>1 DEF Tests
  <1>5. Queued' /\ pc' = [pc EXCEPT ![t] = "recv"]
    BY <1>1, <1>2, <1>3, <1>4, JoinLemma
  <1>6. EvTyped'
    BY <1>1, <1>2, <1>5 DEF EvTyped
  <1>7. EventServed' /\ Waits'
    BY <1>1, <1>2, <1>5 DEF EventServed, Waits, EvIInv, EvTyped
  <1> QED BY <1>6, <1>7 DEF EvIInv

LEMMA EvReturnStep ==
    ASSUME EvIInv, NEW t \in Threads, EventRecvReturns(t) PROVE EvIInv'
  <1>1. /\ pc[t] = "recvAgain" /\ Goto(t, "run") /\ Forget({t}) /\ UNCHANGED event
    BY DEF EventRecvReturns
  <1>2. EvTyped /\ Queued
    BY DEF EvIInv, EvTyped
  <1>3. /\ pc' = [pc EXCEPT ![t] = "run"] /\ timed' = [timed EXCEPT ![t] = FALSE]
        /\ UNCHANGED <<list, forgot>>
    BY <1>1 DEF Goto
  <1>4. "run" \in (PCs \cup {"run"}) \ Sides /\ pc[t] \notin Sides
    BY <1>1 DEF Sides
  <1>5. DOMAIN list' = Sides /\ \A side \in Sides : list'[side] = list[side]
    BY <1>2, <1>3 DEF Queued, WaitersTypeOK
  <1>6. Queued'
    BY <1>2, <1>3, <1>4, <1>5, MoveLemma
  <1>7. EvTyped'
    BY <1>1, <1>2, <1>6, EvForget DEF EvTyped
  <1>8. \A u \in Threads : pc'[u] = "recv" => u # t /\ pc[u] = "recv"
    BY <1>2, <1>3 DEF Queued, WaitersTypeOK
  <1>9. \A u \in Threads : pc'[u] = "recv" =>
            /\ pc[u] = "recv" /\ event_set'[u] = event_set[u]
            /\ event_info'[u] = event_info[u] /\ asked'[u] = asked[u]
    BY <1>1, <1>2, <1>8, EvForget
  <1> QED BY <1>1, <1>7, <1>9, EvFewer

LEMMA EvGoneStep ==
    ASSUME EvIInv, NEW t \in Threads, EventGone(t) PROVE EvIInv'
  <1>1. _thread_timeout(t) \/ rt_thread_delete(t)
    BY DEF EventGone
  <1>2. EvTyped /\ Queued
    BY DEF EvIInv, EvTyped
  <1>3. Leave(t) /\ forgot' \in BOOLEAN
    BY <1>1, <1>2 DEF _thread_timeout, rt_thread_delete, Queued, WaitersTypeOK
  <1>4. Queued' /\ pc' = [pc EXCEPT ![t] = "run"]
    BY <1>2, <1>3, LeaveLemma
  <1>5. Forget({t}) /\ UNCHANGED event
    BY DEF EventGone
  <1>7. EvTyped'
    BY <1>2, <1>4, <1>5, EvForget DEF EvTyped
  <1>8. \A u \in Threads : pc'[u] = "recv" => u # t /\ pc[u] = "recv"
    BY <1>2, <1>4 DEF Queued, WaitersTypeOK
  <1>9. \A u \in Threads : pc'[u] = "recv" =>
            /\ pc[u] = "recv" /\ event_set'[u] = event_set[u]
            /\ event_info'[u] = event_info[u] /\ asked'[u] = asked[u]
    BY <1>2, <1>5, <1>8, EvForget
  <1> QED BY <1>5, <1>7, <1>9, EvFewer

(* A reset, and the end of the event. *)
LEMMA EvAllStep ==
    ASSUME EvIInv, rt_event_control \/ rt_event_delete PROVE EvIInv'
  <1>1. /\ _ipc_list_resume_all /\ Forget({t \in Threads : pc[t] = "recv"})
        /\ event' = [event EXCEPT !.set = {}] \/ event' = [event EXCEPT !.live = FALSE]
    BY DEF rt_event_control, rt_event_delete
  <1>2. EvTyped /\ Queued
    BY DEF EvIInv, EvTyped
  <1>3. Queued' /\ \A t \in Threads : pc'[t] = IF pc[t] \in Sides THEN "run" ELSE pc[t]
    BY <1>1, <1>2, ResumeAllLemma
  <1>4. \A t \in Threads : pc'[t] # "recv"
    BY <1>3 DEF Sides
  <1>5. event' \in [set : SUBSET Bits, live : BOOLEAN]
    BY <1>1, <1>2 DEF EvTyped
  <1>6. EvTyped'
    BY <1>1, <1>2, <1>3, <1>5, EvForget DEF EvTyped
  <1> QED BY <1>4, <1>6 DEF EvIInv, EventServed, Waits

LEMMA EvAgainStep ==
    ASSUME EvIInv, rt_event_init PROVE EvIInv'
  <1>1. event' = [set |-> {}, live |-> TRUE] /\ UNCHANGED <<waiters, event_set, event_info, asked>>
    BY DEF rt_event_init
  <1>2. EvTyped'
    BY <1>1 DEF EvIInv, EvTyped, Queued, WaitersTypeOK, waiters
  <1> QED BY <1>1, <1>2, EvFewer DEF waiters

(* Only a send resumes anybody to find that it has what it asked for. *)
LEMMA EvNobodyWoken ==
    ASSUME EvIInv, \A t \in Threads : pc[t] = "recv" => pc'[t] # "recvAgain"
    PROVE  Delivers
  BY DEF Delivers, Woken

LEMMA EvDelivers ==
    ASSUME EvIInv, [EventNext]_<<waiters, eventVars>> PROVE [Delivers]_<<waiters, eventVars>>
  <1>0. EvTyped /\ Queued /\ pc \in [Threads -> PCs \cup {"run"}]
    BY DEF EvIInv, EvTyped, Queued, WaitersTypeOK
  <1>1. ASSUME NEW t \in Threads, EventThread(t) PROVE Delivers
    <2>1. ASSUME NEW set \in SUBSET Bits, NEW option \in Options, EventRecv(t, set, option)
          PROVE  Delivers
      BY <2>1, EvNobodyWoken DEF EventRecv, waiters
    <2>2. ASSUME NEW set \in SUBSET Bits, NEW option \in Options, NEW ticks \in BOOLEAN,
                 EventRecvSuspends(t, set, option, ticks)
          PROVE  Delivers
      BY <1>0, <2>2, EvNobodyWoken DEF EventRecvSuspends, Suspend
    <2>3. ASSUME EventRecvReturns(t) PROVE Delivers
      BY <1>0, <2>3, EvNobodyWoken DEF EventRecvReturns, Goto
    <2>4. ASSUME EventGone(t) PROVE Delivers
      <3>1. Leave(t)
        BY <2>4 DEF EventGone, _thread_timeout, rt_thread_delete
      <3> QED BY <1>0, <3>1, EvNobodyWoken DEF Leave
    <2> QED BY <1>1, <2>1, <2>2, <2>3, <2>4 DEF EventThread
  <1>2. ASSUME NEW set \in SUBSET Bits, rt_event_send(set) PROVE Delivers
    BY <1>2, EvSendStep
  <1>3. ASSUME rt_event_control \/ rt_event_delete PROVE Delivers
    <2>1. _ipc_list_resume_all
      BY <1>3 DEF rt_event_control, rt_event_delete
    <2>2. \A t \in Threads : pc'[t] = IF pc[t] \in Sides THEN "run" ELSE pc[t]
      BY <1>0, <2>1, ResumeAllLemma
    <2> QED BY <2>2, EvNobodyWoken DEF Sides
  <1>4. ASSUME rt_event_init PROVE Delivers
    BY <1>4, EvNobodyWoken DEF rt_event_init, waiters
  <1> QED BY <1>1, <1>2, <1>3, <1>4 DEF EventNext

LEMMA EvNextLemma == EvIInv /\ [EventNext]_<<waiters, eventVars>> => EvIInv'
  <1> SUFFICES ASSUME EvIInv, [EventNext]_<<waiters, eventVars>> PROVE EvIInv'
    OBVIOUS
  <1>1. ASSUME NEW t \in Threads, EventThread(t) PROVE EvIInv'
    BY <1>1, EvRecvStep, EvSuspendStep, EvReturnStep, EvGoneStep DEF EventThread
  <1>2. ASSUME NEW set \in SUBSET Bits, rt_event_send(set) PROVE EvIInv'
    BY <1>2, EvSendStep
  <1>3. ASSUME rt_event_init PROVE EvIInv'
    BY <1>3, EvAgainStep
  <1>4. ASSUME UNCHANGED <<waiters, eventVars>> PROVE EvIInv'
    BY <1>4 DEF waiters, eventVars, EvIInv, EvTyped, Queued, WaitersTypeOK, EventServed, Waits
  <1> QED BY <1>1, <1>2, <1>3, <1>4, EvAllStep DEF EventNext

(* Nobody waits for events that are set, however many threads wait for how   *)
(* many bits: rt_event_send looks at every waiter.                          *)
THEOREM EventServes == EventSpec => [](EventTypeOK /\ EventServed)
  <1>1. EvIInv => EventTypeOK /\ EventServed
    BY DEF EvIInv, EvTyped, Queued, EventTypeOK
  <1> QED BY <1>1, EvInitLemma, EvNextLemma, PTL DEF EventSpec

(* rt_event_send gives each thread it resumes what that thread asked for,    *)
(* and a bit that one of them clears to nobody else.                        *)
THEOREM EventsAreDeliveredOnce == EventSpec => DeliveredOnce
  <1>1. EvIInv /\ [EventNext]_<<waiters, eventVars>> => [Delivers]_<<waiters, eventVars>>
    BY EvDelivers
  <1> QED BY <1>1, EvInitLemma, EvNextLemma, PTL DEF EventSpec, DeliveredOnce

-----------------------------------------------------------------------------
(* Chains: blocks linked through pointers, and what Chain finds from one on *)

(* s is what is met from first on, and Null ends it. *)
IsChain(next, first, s) ==
    /\ first = IF s = <<>> THEN Null ELSE s[1]
    /\ \A i \in 1 .. Len(s) : next[s[i]] = IF i = Len(s) THEN Null ELSE s[i + 1]

(* Blocks that are all different are no more than there are. *)
LEMMA ShortLemma ==
    ASSUME NEW n \in Nat, NEW s \in Seq(1 .. n), NoDup(s)
    PROVE  Len(s) <= n /\ Len(s) = Cardinality(Linked(s))
  <1>1. Len(s) \in Nat /\ s \in [1 .. Len(s) -> 1 .. n]
    OBVIOUS
  <1>2. s \in Injection(1 .. Len(s), 1 .. n)
    BY <1>1 DEF NoDup, Injection, IsInjective
  <1>3. /\ IsFiniteSet(1 .. n) /\ Cardinality(1 .. n) = n
        /\ Cardinality(1 .. Len(s)) = Len(s)
    <2>1. 1 \in Int /\ n \in Int /\ Len(s) \in Int
      BY <1>1
    <2>2. /\ IsFiniteSet(1 .. n) /\ Cardinality(1 .. n) = IF 1 > n THEN 0 ELSE n - 1 + 1
          /\ Cardinality(1 .. Len(s)) = IF 1 > Len(s) THEN 0 ELSE Len(s) - 1 + 1
      BY <2>1, FS_Interval
    <2> QED BY <1>1, <2>2
  <1>4. Len(s) <= n
    BY <1>2, <1>3, FS_Injection
  <1>5. s \in Bijection(1 .. Len(s), Linked(s))
    <2>1. s \in Injection(1 .. Len(s), Linked(s))
      BY <1>1 DEF NoDup, Injection, IsInjective, Linked
    <2>2. s \in Surjection(1 .. Len(s), Linked(s))
      BY <1>1 DEF Surjection, Linked
    <2> QED BY <2>1, <2>2 DEF Bijection
  <1>6. Cardinality(Linked(s)) = Len(s)
    BY <1>1, <1>5, FS_CountingElements DEF ExistsBijection
  <1> QED BY <1>4, <1>6

Prefix(s, k) == [i \in 1 .. k |-> s[i]]

(* What the definition of Walked asks of it, and gets if anything does. *)
IsWalk(next, first, h) ==
    h = [n \in {0} \cup DOMAIN next |->
            IF n = 0 THEN (IF first = Null THEN <<>> ELSE <<first>>)
            ELSE Longer(next, n, h[n - 1])]

LEMMA WalkLemma ==
    ASSUME NEW next, NEW first, NEW f, IsWalk(next, first, f)
    PROVE  IsWalk(next, first, Walked(next, first))
  <1> DEFINE g == Walked(next, first)
  <1>1. g = CHOOSE h : IsWalk(next, first, h)
    BY Zenon DEF Walked, IsWalk
  <1> HIDE DEF g
  <1>2. IsWalk(next, first, g)
    BY <1>1, Zenon
  <1> QED BY <1>2 DEF g

(* The walk stops after every block of a chain without a loop: it is found   *)
(* whole.                                                                  *)
LEMMA ChainLemma ==
    ASSUME NEW n \in Nat, NEW next, DOMAIN next = 1 .. n, NEW first,
           NEW s \in Seq(1 .. n), NoDup(s), IsChain(next, first, s)
    PROVE  Chain(next, first) = s
  <1> DEFINE D == {0} \cup DOMAIN next
             Start == IF first = Null THEN <<>> ELSE <<first>>
             f == [k \in D |-> IF k < Len(s) THEN Prefix(s, k + 1) ELSE s]
             g == Walked(next, first)
  <1>1. D = 0 .. n /\ Len(s) \in Nat
    OBVIOUS
  <1>2. Len(s) <= n
    BY ShortLemma
  <1>3. /\ first = IF s = <<>> THEN Null ELSE s[1]
        /\ \A i \in 1 .. Len(s) : next[s[i]] = IF i = Len(s) THEN Null ELSE s[i + 1]
        /\ \A i \in 1 .. Len(s) : s[i] \in 1 .. n
        /\ Null \notin 1 .. n
    BY DEF IsChain, Null
  <1>0. \A k \in D : f[k] = IF k < Len(s) THEN Prefix(s, k + 1) ELSE s
    OBVIOUS
  <1> HIDE DEF f
  <1>4. f[0] = Start
    <2>1. CASE s = <<>>
      BY <1>0, <1>1, <1>3, <2>1
    <2>2. CASE s # <<>>
      <3>1. Len(s) > 0 /\ first = s[1] /\ first # Null
        BY <1>1, <1>3, <2>2
      <3>2. f[0] = Prefix(s, 1)
        BY <1>0, <1>1, <3>1
      <3>3. Prefix(s, 1) = <<s[1]>>
        BY DEF Prefix
      <3> QED BY <3>1, <3>2, <3>3
    <2> QED BY <2>1, <2>2
  <1>5. ASSUME NEW k \in 1 .. n PROVE f[k] = Longer(next, k, f[k - 1])
    <2>1. k \in D /\ k - 1 \in D /\ (k - 1) + 1 = k
      BY <1>1
    <2>2. CASE k - 1 < Len(s)
      <3>1. f[k - 1] = Prefix(s, k) /\ k \in 1 .. Len(s)
        BY <1>0, <1>1, <2>1, <2>2
      <3>2. Len(Prefix(s, k)) = k /\ Prefix(s, k)[k] = s[k]
        BY <3>1 DEF Prefix
      <3>3. CASE k = Len(s)
        <4>1. Prefix(s, k) = s
          BY <3>3 DEF Prefix
        <4>0. f[k] = s
          BY <1>0, <1>1, <2>1, <3>3
        <4>2. next[s[k]] \notin DOMAIN next
          BY <1>3, <3>1, <3>3
        <4> QED BY <3>1, <3>2, <4>0, <4>1, <4>2 DEF Longer
      <3>4. CASE k # Len(s)
        <4>1. k < Len(s) /\ k + 1 \in 1 .. Len(s)
          BY <1>1, <3>1, <3>4
        <4>2. f[k] = Prefix(s, k + 1)
          BY <1>0, <2>1, <4>1
        <4>3. next[s[k]] = s[k + 1] /\ s[k + 1] \in DOMAIN next
          BY <1>3, <3>1, <3>4, <4>1
        <4>4. Prefix(s, k + 1) = Append(Prefix(s, k), s[k + 1])
          BY <3>1, <4>1 DEF Prefix
        <4>5. ~(Len(Prefix(s, k)) < k) /\ next[Prefix(s, k)[k]] = s[k + 1]
          BY <3>2, <4>3
        <4>6. Longer(next, k, Prefix(s, k)) = Append(Prefix(s, k), s[k + 1])
          BY <4>3, <4>5, Zenon DEF Longer
        <4> QED BY <3>1, <4>2, <4>4, <4>6, Zenon
      <3> QED BY <3>3, <3>4
    <2>3. CASE ~(k - 1 < Len(s))
      <3>1. f[k - 1] = s /\ f[k] = s /\ Len(s) < k
        BY <1>0, <1>1, <2>1, <2>3
      <3> QED BY <3>1 DEF Longer
    <2> QED BY <2>2, <2>3
  <1>6. f = [k \in D |-> IF k = 0 THEN Start ELSE Longer(next, k, f[k - 1])]
    <2>1. f = [k \in D |-> f[k]]
      BY DEF f
    <2>2. \A k \in D : f[k] = IF k = 0 THEN Start ELSE Longer(next, k, f[k - 1])
      BY <1>1, <1>4, <1>5
    <2> HIDE DEF D, Start
    <2> QED BY <2>1, <2>2
  <1>7. g = [k \in D |-> IF k = 0 THEN Start ELSE Longer(next, k, g[k - 1])]
    <2>1. IsWalk(next, first, f)
      BY <1>6 DEF IsWalk
    <2> HIDE DEF g
    <2>2. IsWalk(next, first, g)
      BY <2>1, WalkLemma DEF g
    <2> QED BY <2>2 DEF IsWalk
  <1>8. f[n] = s /\ n \in D
    BY <1>0, <1>1, <1>2
  <1> HIDE DEF f, g, Start, D
  <1>9. ASSUME NEW k \in D PROVE f[k] = g[k]
    <2> DEFINE P == {m \in 0 .. n : f[m] # g[m]}
    <2>1. P = {}
      <3> SUFFICES ASSUME P # {} PROVE FALSE
        OBVIOUS
      <3>1. P \subseteq Nat
        OBVIOUS
      <3>2. PICK l \in P : \A r \in P : l <= r
        BY <3>1, LeastLemma
      <3>3. l \in 0 .. n /\ l - 1 \notin P
        BY <3>2
      <3>4. l # 0
        BY <1>1, <1>6, <1>7, <3>2
      <3>5. l - 1 \in 0 .. n
        BY <3>3, <3>4
      <3>6. f[l - 1] = g[l - 1]
        BY <3>3, <3>5
      <3>7. f[l] = Longer(next, l, f[l - 1]) /\ g[l] = Longer(next, l, g[l - 1])
        BY <1>1, <1>6, <1>7, <3>3, <3>4
      <3> QED BY <3>2, <3>6, <3>7
    <2> QED BY <1>1, <2>1
  <1>10. (CHOOSE k \in D : \A m \in D : m <= k) = n
    BY <1>1
  <1>11. Chain(next, first) = g[CHOOSE k \in D : \A m \in D : m <= k]
    BY DEF Chain, g, D
  <1> QED BY <1>8, <1>9, <1>10, <1>11

(* The first block is taken off a chain, whatever is then written into it.  *)
LEMMA ChainTailLemma ==
    ASSUME NEW B, NEW T, NEW next \in [B -> T], NEW first, NEW s \in Seq(B), NoDup(s),
           IsChain(next, first, s), s # <<>>, NEW v
    PROVE  first \in B /\ IsChain([next EXCEPT ![first] = v], next[first], Tail(s))
  <1> DEFINE new == [next EXCEPT ![first] = v]
             r == Tail(s)
  <1>1. /\ Len(s) \in Nat /\ Len(s) > 0 /\ first = s[1] /\ s[1] \in B
        /\ \A i \in 1 .. Len(s) : next[s[i]] = IF i = Len(s) THEN Null ELSE s[i + 1]
    BY DEF IsChain
  <1>2. Len(r) = Len(s) - 1 /\ \A i \in 1 .. Len(s) - 1 : r[i] = s[i + 1]
    OBVIOUS
  <1>0. r \in Seq(B)
    BY <1>1
  <1> HIDE DEF r
  <1> DEFINE l == Len(s)
  <1>9. l \in Nat /\ l > 0
    BY <1>1
  <1>3. r = <<>> <=> Len(s) = 1
    BY <1>0, <1>1, <1>2
  <1>4. next[first] = IF r = <<>> THEN Null ELSE r[1]
    <2>1. next[s[1]] = IF 1 = Len(s) THEN Null ELSE s[1 + 1]
      <3>1. 1 \in 1 .. Len(s)
        BY <1>1
      <3> QED BY <1>1, <3>1
    <2>2. Len(s) # 1 => r[1] = s[1 + 1]
      <3>1. l # 1 => 1 \in 1 .. l - 1
        <4> HIDE DEF l
        <4> QED BY <1>9
      <3> QED BY <1>2, <3>1
    <2> QED BY <1>1, <1>3, <2>1, <2>2
  <1>5. ASSUME NEW i \in 1 .. Len(r) PROVE new[r[i]] = IF i = Len(r) THEN Null ELSE r[i + 1]
    <2>1. /\ i + 1 \in 1 .. Len(s) /\ i \in 1 .. Len(s) - 1 /\ i + 1 # 1 /\ 1 \in DOMAIN s
          /\ i + 1 \in DOMAIN s
      <3>1. i \in 1 .. Len(s) - 1
        BY <1>2
      <3>2. /\ i + 1 \in 1 .. l /\ i \in 1 .. l - 1 /\ i + 1 # 1 /\ 1 \in 1 .. l
        <4>1. i \in 1 .. l - 1
          BY <3>1
        <4> HIDE DEF l
        <4> QED BY <1>9, <4>1
      <3>3. DOMAIN s = 1 .. l
        OBVIOUS
      <3> QED BY <3>2, <3>3
    <2>2. r[i] = s[i + 1] /\ s[i + 1] \in B /\ s[i + 1] # s[1]
      BY <1>2, <2>1 DEF NoDup
    <2>3. new[r[i]] = next[s[i + 1]]
      BY <1>1, <2>2
    <2>4. next[s[i + 1]] = IF i + 1 = Len(s) THEN Null ELSE s[(i + 1) + 1]
      BY <1>1, <2>1
    <2>5. i + 1 = Len(s) <=> i = Len(r)
      BY <1>1, <1>2, <2>1
    <2>6. ASSUME i # Len(r) PROVE r[i + 1] = s[(i + 1) + 1]
      <3>1. i + 1 \in 1 .. Len(s) - 1
        BY <1>1, <1>2, <2>1, <2>6
      <3> QED BY <1>2, <3>1
    <2> HIDE DEF new
    <2> QED BY <2>3, <2>4, <2>5, <2>6
  <1> HIDE DEF new
  <1>6. IsChain(new, next[first], r)
    BY <1>4, <1>5 DEF IsChain
  <1> QED BY <1>1, <1>6 DEF new, r

(* A block that is not on the chain becomes the first. *)
LEMMA ChainConsLemma ==
    ASSUME NEW B, NEW T, NEW next \in [B -> T], NEW first, NEW s \in Seq(B),
           IsChain(next, first, s), NEW b \in B, b \notin Linked(s), b # Null
    PROVE  IsChain([next EXCEPT ![b] = first], b, rt_list_insert_after(s, b))
  <1> DEFINE new == [next EXCEPT ![b] = first]
             r == rt_list_insert_after(s, b)
  <1>1. /\ Len(s) \in Nat /\ first = IF s = <<>> THEN Null ELSE s[1]
        /\ \A i \in 1 .. Len(s) : s[i] \in B /\ s[i] # b
        /\ \A i \in 1 .. Len(s) : next[s[i]] = IF i = Len(s) THEN Null ELSE s[i + 1]
    BY DEF IsChain, Linked
  <1>2. /\ Len(r) = Len(s) + 1 /\ r[1] = b /\ r # <<>>
        /\ \A i \in 2 .. Len(s) + 1 : r[i] = s[i - 1]
    BY <1>1 DEF rt_list_insert_after
  <1>3. new[b] = first /\ \A c \in B : c # b => new[c] = next[c]
    OBVIOUS
  <1> HIDE DEF new, r
  <1>4. ASSUME NEW i \in 1 .. Len(r) PROVE new[r[i]] = IF i = Len(r) THEN Null ELSE r[i + 1]
    <2>1. CASE i = 1
      <3>1. new[r[i]] = first
        BY <1>2, <1>3, <2>1
      <3>2. CASE s = <<>>
        BY <1>1, <1>2, <2>1, <3>1, <3>2
      <3>3. CASE s # <<>>
        <4>1. 2 \in 2 .. Len(s) + 1 /\ 2 - 1 = 1 /\ Len(r) # 1
          BY <1>1, <1>2, <3>3
        <4>2. r[2] = s[1]
          BY <1>2, <4>1
        <4> QED BY <1>1, <2>1, <3>1, <3>3, <4>1, <4>2
      <3> QED BY <3>2, <3>3
    <2>2. CASE i # 1
      <3>1. /\ i \in 2 .. Len(s) + 1 /\ i - 1 \in 1 .. Len(s) /\ (i - 1) + 1 = i
            /\ i - 1 = Len(s) <=> i = Len(r)
        BY <1>1, <1>2, <2>2
      <3>2. new[r[i]] = next[s[i - 1]]
        BY <1>1, <1>2, <1>3, <3>1
      <3>3. next[s[i - 1]] = IF i - 1 = Len(s) THEN Null ELSE s[i]
        BY <1>1, <3>1
      <3>4. ASSUME i # Len(r) PROVE r[i + 1] = s[i]
        <4>1. i + 1 \in 2 .. Len(s) + 1 /\ (i + 1) - 1 = i
          BY <1>1, <1>2, <3>1, <3>4
        <4> QED BY <1>2, <4>1
      <3> QED BY <3>1, <3>2, <3>3, <3>4
    <2> QED BY <2>1, <2>2
  <1>5. IsChain(new, b, r)
    BY <1>2, <1>4 DEF IsChain
  <1> QED BY <1>5 DEF new, r

(* The first block is taken off, and the chain left as it is. *)
LEMMA ChainRestLemma ==
    ASSUME NEW B, NEW T, NEW next \in [B -> T], NEW first, NEW s \in Seq(B), NoDup(s),
           IsChain(next, first, s), s # <<>>
    PROVE  first \in B /\ first = Head(s) /\ IsChain(next, next[first], Tail(s))
  <1>1. [next EXCEPT ![first] = next[first]] = next
    OBVIOUS
  <1>2. first \in B /\ IsChain([next EXCEPT ![first] = next[first]], next[first], Tail(s))
    BY ChainTailLemma
  <1>3. first = Head(s)
    BY DEF IsChain
  <1> QED BY <1>1, <1>2, <1>3

(* Writing into a block that is not on the chain. *)
LEMMA ChainApartLemma ==
    ASSUME NEW B, NEW T, NEW next \in [B -> T], NEW first, NEW s \in Seq(B),
           IsChain(next, first, s), NEW b \in B, b \notin Linked(s), NEW v
    PROVE  IsChain([next EXCEPT ![b] = v], first, s)
  <1>1. \A i \in 1 .. Len(s) : s[i] \in B /\ s[i] # b
    BY DEF Linked
  <1> QED BY <1>1 DEF IsChain

(* A block that leads nowhere becomes the last. *)
LEMMA ChainSnocLemma ==
    ASSUME NEW B, NEW T, NEW next \in [B -> T], NEW first, NEW s \in Seq(B), NoDup(s),
           IsChain(next, first, s), NEW b \in B, b \notin Linked(s), next[b] = Null
    PROVE  /\ s = <<>> => IsChain(next, b, Append(s, b))
           /\ s # <<>> => IsChain([next EXCEPT ![s[Len(s)]] = b], first, Append(s, b))
  <1> DEFINE r == Append(s, b)
             l == Len(s)
  <1>1. /\ l \in Nat /\ \A i \in 1 .. l : s[i] \in B /\ s[i] # b
        /\ \A i, j \in 1 .. l : s[i] = s[j] => i = j
        /\ first = IF s = <<>> THEN Null ELSE s[1]
        /\ \A i \in 1 .. l : next[s[i]] = IF i = l THEN Null ELSE s[i + 1]
    BY DEF IsChain, Linked, NoDup
  <1>2. /\ Len(r) = l + 1 /\ r # <<>> /\ r[l + 1] = b
        /\ \A i \in 1 .. l : r[i] = s[i]
    OBVIOUS
  <1>3. s = <<>> <=> l = 0
    OBVIOUS
  <1> HIDE DEF r, l
  <1>4. CASE s = <<>>
    <2>1. r[1] = b /\ \A i \in 1 .. Len(r) : i = 1 /\ i = Len(r)
      BY <1>1, <1>2, <1>3, <1>4
    <2>2. IsChain(next, b, r)
      BY <1>2, <2>1 DEF IsChain
    <2> QED BY <1>4, <2>2 DEF r
  <1>5. CASE s # <<>>
    <2> DEFINE new == [next EXCEPT ![s[l]] = b]
    <2>1. l > 0 /\ l \in 1 .. l /\ 1 \in 1 .. l
      BY <1>1, <1>3, <1>5
    <2>2. first = r[1]
      BY <1>1, <1>2, <1>5, <2>1
    <2>3. /\ new[s[l]] = b /\ new[b] = Null
          /\ \A i \in 1 .. l : i # l => new[s[i]] = s[i + 1]
      BY <1>1, <2>1
    <2> HIDE DEF new
    <2>4. ASSUME NEW i \in 1 .. l + 1 PROVE new[r[i]] = IF i = l + 1 THEN Null ELSE r[i + 1]
      <3>1. CASE i = l + 1
        BY <1>2, <2>3, <3>1
      <3>2. CASE i = l
        <4>1. i # l + 1
          BY <1>1, <3>2
        <4> QED BY <1>2, <2>1, <2>3, <3>2, <4>1
      <3>3. CASE i # l + 1 /\ i # l
        <4>1. i \in 1 .. l /\ i + 1 \in 1 .. l
          BY <1>1, <3>3
        <4> QED BY <1>2, <2>3, <3>3, <4>1
      <3> QED BY <3>1, <3>2, <3>3
    <2>5. IsChain(new, first, r)
      BY <1>2, <2>2, <2>4 DEF IsChain
    <2> QED BY <1>5, <2>5 DEF r, l, new
  <1> QED BY <1>4, <1>5

(* The blocks of q turned round, those of f behind them. *)
Turned(q, f) == [i \in 1 .. Len(q) + Len(f) |->
                    IF i <= Len(q) THEN q[Len(q) + 1 - i] ELSE f[i - Len(q)]]

LEMMA TurnedLemma ==
    ASSUME NEW B, NEW f \in Seq(B), NEW q \in Seq(B), NoDup(f), NoDup(q),
           Linked(f) \cap Linked(q) = {}
    PROVE  /\ Turned(q, f) \in Seq(B) /\ Len(Turned(q, f)) = Len(q) + Len(f)
           /\ NoDup(Turned(q, f)) /\ Linked(Turned(q, f)) = Linked(f) \cup Linked(q)
  <1> DEFINE r == Turned(q, f)
             k == Len(q)
             l == Len(f)
  <1>1. /\ k \in Nat /\ l \in Nat
        /\ \A i \in 1 .. k : q[i] \in B /\ q[i] \in Linked(q)
        /\ \A i \in 1 .. l : f[i] \in B /\ f[i] \in Linked(f)
        /\ \A i, j \in 1 .. k : q[i] = q[j] => i = j
        /\ \A i, j \in 1 .. l : f[i] = f[j] => i = j
        /\ \A i \in 1 .. k : \A j \in 1 .. l : q[i] # f[j]
    BY DEF Linked, NoDup
  <1>2. r = [i \in 1 .. k + l |-> IF i <= k THEN q[k + 1 - i] ELSE f[i - k]]
    BY DEF Turned
  <1>3. /\ \A x \in Linked(q) : \E i \in 1 .. k : x = q[i]
        /\ \A x \in Linked(f) : \E i \in 1 .. l : x = f[i]
    BY DEF Linked
  <1> HIDE DEF r, k, l
  <1>4. \A i \in 1 .. k + l : IF i <= k THEN k + 1 - i \in 1 .. k ELSE i - k \in 1 .. l
    BY <1>1
  <1>5. \A i \in 1 .. k + l : r[i] = IF i <= k THEN q[k + 1 - i] ELSE f[i - k]
    BY <1>2
  <1>6. r \in [1 .. k + l -> B]
    <2>1. \A i \in 1 .. k + l : (IF i <= k THEN q[k + 1 - i] ELSE f[i - k]) \in B
      BY <1>1, <1>4
    <2> QED BY <1>2, <2>1
  <1>7. k + l \in Nat
    BY <1>1
  <1>8. r \in Seq(B) /\ Len(r) = k + l /\ DOMAIN r = 1 .. k + l
    BY <1>6, <1>7
  <1>9. NoDup(r)
    <2> SUFFICES ASSUME NEW i \in 1 .. k + l, NEW j \in 1 .. k + l, r[i] = r[j] PROVE i = j
      BY <1>8 DEF NoDup
    <2>1. CASE i <= k /\ j <= k
      <3>1. k + 1 - i = k + 1 - j
        BY <1>1, <1>4, <1>5, <2>1
      <3> QED BY <1>1, <3>1
    <2>2. CASE ~(i <= k) /\ ~(j <= k)
      <3>1. i - k = j - k
        BY <1>1, <1>4, <1>5, <2>2
      <3> QED BY <1>1, <3>1
    <2>3. CASE (i <= k) # (j <= k)
      BY <1>1, <1>4, <1>5, <2>3
    <2> QED BY <2>1, <2>2, <2>3
  <1>10. Linked(r) = Linked(f) \cup Linked(q)
    <2>1. ASSUME NEW x \in Linked(q) PROVE x \in Linked(r)
      <3>1. PICK i \in 1 .. k : x = q[i]
        BY <1>3
      <3>2. k + 1 - i \in 1 .. k + l /\ k + 1 - i <= k /\ k + 1 - (k + 1 - i) = i
        BY <1>1
      <3>3. r[k + 1 - i] = x
        BY <1>5, <3>1, <3>2
      <3> QED BY <1>8, <3>2, <3>3 DEF Linked
    <2>2. ASSUME NEW x \in Linked(f) PROVE x \in Linked(r)
      <3>1. PICK i \in 1 .. l : x = f[i]
        BY <1>3
      <3>2. k + i \in 1 .. k + l /\ ~(k + i <= k) /\ (k + i) - k = i
        BY <1>1
      <3>3. r[k + i] = x
        BY <1>5, <3>1, <3>2
      <3> QED BY <1>8, <3>2, <3>3 DEF Linked
    <2>3. ASSUME NEW i \in DOMAIN r PROVE r[i] \in Linked(f) \cup Linked(q)
      BY <1>1, <1>4, <1>5, <1>8
    <2> QED BY <2>1, <2>2, <2>3 DEF Linked
  <1> QED BY <1>8, <1>9, <1>10 DEF r, k, l

(* Every block of the queue is made the first of the free list. *)
LEMMA ChainTurnedLemma ==
    ASSUME NEW B, NEW next, NEW free, NEW head,
           NEW f \in Seq(B), NEW q \in Seq(B), NoDup(q), Linked(f) \cap Linked(q) = {},
           IsChain(next, free, f), IsChain(next, head, q),
           NEW new, \A b \in B : new[b] = IF b \notin Linked(q) THEN next[b]
                                         ELSE IF b = head THEN free
                                         ELSE q[Position(q, b) - 1],
           NEW first, first = IF q = <<>> THEN free ELSE q[Len(q)]
    PROVE  IsChain(new, first, Turned(q, f))
  <1> DEFINE r == Turned(q, f)
             k == Len(q)
             l == Len(f)
  <1>1. /\ k \in Nat /\ l \in Nat /\ (q = <<>> <=> k = 0) /\ (f = <<>> <=> l = 0)
        /\ \A i \in 1 .. k : q[i] \in B /\ q[i] \in Linked(q)
        /\ \A i \in 1 .. l : f[i] \in B /\ f[i] \notin Linked(q)
        /\ \A i, j \in 1 .. k : q[i] = q[j] => i = j
        /\ head = (IF q = <<>> THEN Null ELSE q[1])
        /\ free = (IF f = <<>> THEN Null ELSE f[1])
        /\ \A i \in 1 .. l : next[f[i]] = IF i = l THEN Null ELSE f[i + 1]
        /\ DOMAIN q = 1 .. k
    <2>1. /\ k \in Nat /\ l \in Nat /\ (q = <<>> <=> k = 0) /\ (f = <<>> <=> l = 0)
          /\ DOMAIN q = 1 .. k /\ DOMAIN f = 1 .. l
      OBVIOUS
    <2>2. \A i \in 1 .. k : q[i] \in B /\ q[i] \in Linked(q)
      BY DEF Linked
    <2>3. \A i \in 1 .. l : f[i] \in B /\ f[i] \in Linked(f)
      BY DEF Linked
    <2>4. \A i, j \in 1 .. k : q[i] = q[j] => i = j
      BY <2>1 DEF NoDup
    <2>5. /\ head = (IF q = <<>> THEN Null ELSE q[1])
          /\ free = (IF f = <<>> THEN Null ELSE f[1])
          /\ \A i \in 1 .. l : next[f[i]] = IF i = l THEN Null ELSE f[i + 1]
      BY DEF IsChain
    <2> QED BY <2>1, <2>2, <2>3, <2>4, <2>5
  <1>2. /\ Len(r) = k + l
        /\ \A i \in 1 .. k + l : r[i] = IF i <= k THEN q[k + 1 - i] ELSE f[i - k]
    BY <1>1 DEF Turned
  <1>3. \A i \in 1 .. k : Position(q, q[i]) = i
    BY <1>1 DEF Position
  <1> HIDE DEF r, k, l
  <1>4. (r = <<>>) <=> k + l = 0
    <2>1. DOMAIN r = 1 .. k + l
      BY <1>1 DEF r, k, l, Turned
    <2>2. k + l \in Nat
      BY <1>1
    <2> QED BY <1>2, <2>1, <2>2 DEF r, Turned
  <1>5. \A i \in 1 .. l : new[f[i]] = IF i = l THEN Null ELSE f[i + 1]
    BY <1>1
  <1>6. \A i \in 1 .. k : new[q[i]] = IF i = 1 THEN free ELSE q[i - 1]
    <2> SUFFICES ASSUME NEW i \in 1 .. k PROVE new[q[i]] = IF i = 1 THEN free ELSE q[i - 1]
      OBVIOUS
    <2>1. new[q[i]] = IF q[i] = head THEN free ELSE q[Position(q, q[i]) - 1]
      BY <1>1
    <2>2. 1 \in 1 .. k /\ q # <<>>
      BY <1>1
    <2>3. q[i] = head <=> i = 1
      BY <1>1, <2>2
    <2> QED BY <1>3, <2>1, <2>3
  <1>7. (IF q = <<>> THEN free ELSE q[k]) = IF r = <<>> THEN Null ELSE r[1]
    <2>1. CASE k # 0
      <3>1. 1 \in 1 .. k + l /\ 1 <= k /\ k + 1 - 1 = k
        BY <1>1, <2>1
      <3>2. r[1] = q[k]
        BY <1>2, <3>1
      <3>3. r # <<>> /\ q # <<>>
        BY <1>1, <1>4, <2>1
      <3> QED BY <3>2, <3>3
    <2>2. CASE k = 0 /\ l # 0
      <3>1. 1 \in 1 .. k + l /\ ~(1 <= k) /\ 1 - k = 1
        BY <1>1, <2>2
      <3>2. r[1] = f[1]
        BY <1>2, <3>1
      <3> QED BY <1>1, <1>4, <2>2, <3>2
    <2>3. CASE k = 0 /\ l = 0
      BY <1>1, <1>4, <2>3
    <2> QED BY <2>1, <2>2, <2>3
  <1>8. ASSUME NEW i \in 1 .. k + l PROVE new[r[i]] = IF i = k + l THEN Null ELSE r[i + 1]
    <2>1. CASE i < k
      <3>1. /\ i <= k /\ i + 1 <= k /\ i + 1 \in 1 .. k + l /\ i # k + l
            /\ k + 1 - i \in 1 .. k /\ k + 1 - i # 1 /\ (k + 1 - i) - 1 = k + 1 - (i + 1)
        BY <1>1, <2>1
      <3>2. r[i] = q[k + 1 - i] /\ r[i + 1] = q[k + 1 - (i + 1)]
        BY <1>2, <3>1
      <3>3. new[q[k + 1 - i]] = q[(k + 1 - i) - 1]
        BY <1>6, <3>1
      <3> QED BY <3>1, <3>2, <3>3
    <2>2. CASE i = k
      <3>1. i <= k /\ k + 1 - i = 1 /\ 1 \in 1 .. k
        BY <1>1, <2>2
      <3>2. r[i] = q[1]
        BY <1>2, <3>1
      <3>3. new[r[i]] = free
        BY <1>6, <3>1, <3>2
      <3>4. CASE l = 0
        BY <1>1, <2>2, <3>3, <3>4
      <3>5. CASE l # 0
        <4>1. i + 1 \in 1 .. k + l /\ ~(i + 1 <= k) /\ (i + 1) - k = 1 /\ i # k + l
          BY <1>1, <2>2, <3>5
        <4>2. r[i + 1] = f[1]
          BY <1>2, <4>1
        <4> QED BY <1>1, <3>3, <3>5, <4>1, <4>2
      <3> QED BY <3>4, <3>5
    <2>3. CASE i > k
      <3>1. ~(i <= k) /\ i - k \in 1 .. l /\ (i - k = l <=> i = k + l)
        BY <1>1, <2>3
      <3>2. r[i] = f[i - k]
        BY <1>2, <3>1
      <3>3. new[r[i]] = IF i - k = l THEN Null ELSE f[(i - k) + 1]
        BY <1>5, <3>1, <3>2
      <3>4. ASSUME i # k + l PROVE r[i + 1] = f[(i - k) + 1]
        <4>1. i + 1 \in 1 .. k + l /\ ~(i + 1 <= k) /\ (i + 1) - k = (i - k) + 1
          BY <1>1, <2>3, <3>4
        <4> QED BY <1>2, <4>1
      <3> QED BY <3>1, <3>3, <3>4
    <2> QED BY <1>1, <2>1, <2>2, <2>3
  <1>9. IsChain(new, IF q = <<>> THEN free ELSE q[k], r)
    BY <1>2, <1>7, <1>8 DEF IsChain
  <1> QED BY <1>9 DEF r, k

-----------------------------------------------------------------------------
(* The memory pool *)

(* s are the free blocks, in the order they will be given out. *)
FreeBlocks(box, used, s) ==
    /\ s \in Seq(PoolBlocks) /\ NoDup(s)
    /\ IsChain(box.word, box.block_list, s)
    /\ Linked(s) = PoolBlocks \ used
    /\ box.block_free_count = Len(s)
    /\ \A b \in used : box.word[b] = Pool

MpIInv ==
    /\ Queued /\ mp \in MpObject /\ inUse \subseteq PoolBlocks
    /\ MpServed
    /\ mp.live => \E s : FreeBlocks(mp, inUse, s)
    /\ ~mp.live => inUse = {} /\ \A t \in Threads : pc[t] = "run"

LEMMA MpServedLemma ==
    ASSUME ServedNext("recv", mp'.block_free_count)
    PROVE  MpServed'
  BY DEF MpServed, Served, ServedNext, Resumed, rt_list_isempty

(* A chain of all blocks, as rt_mp_init links them. *)
LEMMA AllFreeLemma ==
    AllFree \in MpObject /\ \E s : FreeBlocks(AllFree, {}, s)
  <1> DEFINE s == [i \in 1 .. PoolSize |-> i]
             w == AllFree.word
  <1>1. /\ PoolSize \in Nat \ {0} /\ 1 \in PoolBlocks
        /\ w = [b \in PoolBlocks |-> IF b = PoolSize THEN Null ELSE b + 1]
        /\ AllFree.block_list = 1 /\ AllFree.block_free_count = PoolSize
    BY MpSizeAssumption DEF AllFree, PoolBlocks
  <1>2. w \in [PoolBlocks -> PoolBlocks \cup {Null, Pool}]
    BY <1>1 DEF PoolBlocks
  <1>3. AllFree \in MpObject
    <2>1. PoolSize \in 0 .. PoolSize
      BY <1>1
    <2> QED BY <1>1, <1>2, <2>1 DEF AllFree, MpObject
  <1>4. /\ s \in Seq(PoolBlocks) /\ Len(s) = PoolSize /\ s # <<>> /\ NoDup(s)
        /\ Linked(s) = PoolBlocks \ {}
    BY <1>1 DEF PoolBlocks, NoDup, Linked
  <1>5. IsChain(w, 1, s)
    <2>1. \A i \in 1 .. PoolSize : s[i] = i
      OBVIOUS
    <2>2. \A i \in 1 .. PoolSize : w[i] = IF i = PoolSize THEN Null ELSE i + 1
      BY <1>1 DEF PoolBlocks
    <2>3. \A i \in 1 .. PoolSize : i # PoolSize => i + 1 \in 1 .. PoolSize
      BY <1>1
    <2> HIDE DEF s, w
    <2> QED BY <1>1, <1>4, <2>1, <2>2, <2>3 DEF IsChain
  <1>6. FreeBlocks(AllFree, {}, s)
    BY <1>1, <1>4, <1>5 DEF FreeBlocks
  <1> QED BY <1>3, <1>6

LEMMA MpInitLemma == MpInit => MpIInv
  <1> SUFFICES ASSUME MpInit PROVE MpIInv
    OBVIOUS
  <1>1. mp = AllFree /\ inUse = {} /\ mp.live
    BY DEF MpInit, MpStored, AllFree
  <1>2. Queued /\ list["recv"] = <<>>
    BY QueuedInitLemma, SidesLemma DEF MpInit, WaitersInit
  <1> QED BY <1>1, <1>2, AllFreeLemma DEF MpIInv, MpServed, Served, rt_list_isempty

(* A free block is given out. *)
LEMMA MpAllocData ==
    ASSUME mp \in MpObject, inUse \subseteq PoolBlocks, NEW s, FreeBlocks(mp, inUse, s),
           NEW t \in Threads, rt_mp_alloc(t)
    PROVE  /\ mp' \in MpObject /\ inUse' \subseteq PoolBlocks
           /\ FreeBlocks(mp', inUse', Tail(s)) /\ mp'.live = mp.live
           /\ mp'.block_free_count = mp.block_free_count - 1
  <1> DEFINE first == mp.block_list
             word == [mp.word EXCEPT ![first] = Pool]
  <1>1. /\ mp' = [mp EXCEPT !.block_free_count = @ - 1, !.block_list = mp.word[first],
                            !.word = word]
        /\ inUse' = inUse \cup {first} /\ mp.block_free_count # 0
    BY DEF rt_mp_alloc, MpObject
  <1>2. /\ s \in Seq(PoolBlocks) /\ NoDup(s) /\ IsChain(mp.word, first, s)
        /\ Linked(s) = PoolBlocks \ inUse /\ mp.block_free_count = Len(s)
        /\ \A b \in inUse : mp.word[b] = Pool
        /\ mp.word \in [PoolBlocks -> PoolBlocks \cup {Null, Pool}]
    BY DEF FreeBlocks, MpObject
  <1>3. s # <<>>
    BY <1>1, <1>2
  <1>4. first \in PoolBlocks /\ IsChain(word, mp.word[first], Tail(s))
    BY <1>2, <1>3, ChainTailLemma
  <1>5. first = Head(s)
    BY <1>2, <1>3 DEF IsChain
  <1>6. /\ Tail(s) \in Seq(PoolBlocks) /\ NoDup(Tail(s))
        /\ Linked(Tail(s)) = Linked(s) \ {first} /\ Len(Tail(s)) = Len(s) - 1
    BY <1>2, <1>3, <1>5, TailLemma
  <1>7. /\ word \in [PoolBlocks -> PoolBlocks \cup {Null, Pool}]
        /\ mp.word[first] \in PoolBlocks \cup {Null}
    <2>1. word \in [PoolBlocks -> PoolBlocks \cup {Null, Pool}]
      BY <1>2
    <2>2. mp.word[first] = IF Tail(s) = <<>> THEN Null ELSE Tail(s)[1]
      BY <1>4 DEF IsChain
    <2>3. Tail(s) # <<>> => Tail(s)[1] \in PoolBlocks
      BY <1>6
    <2> QED BY <2>1, <2>2, <2>3
  <1>8. mp.block_free_count - 1 \in 0 .. PoolSize
    BY <1>1, MpSizeAssumption DEF MpObject
  <1> HIDE DEF word, first
  <1>9. /\ mp' \in MpObject /\ mp'.word = word /\ mp'.block_list = mp.word[first]
        /\ mp'.block_free_count = mp.block_free_count - 1 /\ mp'.live = mp.live
    BY <1>1, <1>7, <1>8 DEF MpObject
  <1>10. \A b \in inUse' : word[b] = Pool
    BY <1>1, <1>2, <1>4 DEF word
  <1> QED BY <1>1, <1>2, <1>4, <1>6, <1>9, <1>10 DEF FreeBlocks

(* A block comes back. *)
LEMMA MpFreeData ==
    ASSUME mp \in MpObject, inUse \subseteq PoolBlocks, NEW s, FreeBlocks(mp, inUse, s),
           NEW t \in Threads, NEW block \in inUse, rt_mp_free(t, block)
    PROVE  /\ mp' \in MpObject /\ inUse' \subseteq PoolBlocks
           /\ FreeBlocks(mp', inUse', rt_list_insert_after(s, block)) /\ mp'.live = mp.live
           /\ mp'.block_free_count = mp.block_free_count + 1
  <1> DEFINE first == mp.block_list
             word == [mp.word EXCEPT ![block] = first]
             r == rt_list_insert_after(s, block)
  <1>1. /\ mp' = [mp EXCEPT !.block_free_count = @ + 1, !.word = word, !.block_list = block]
        /\ inUse' = inUse \ {block}
    BY DEF rt_mp_free, MpObject
  <1>2. /\ s \in Seq(PoolBlocks) /\ NoDup(s) /\ IsChain(mp.word, first, s)
        /\ Linked(s) = PoolBlocks \ inUse /\ mp.block_free_count = Len(s)
        /\ \A b \in inUse : mp.word[b] = Pool
        /\ mp.word \in [PoolBlocks -> PoolBlocks \cup {Null, Pool}]
        /\ first \in PoolBlocks \cup {Null}
    BY DEF FreeBlocks, MpObject
  <1>3. block \in PoolBlocks /\ block \notin Linked(s) /\ block # Null
    BY <1>2 DEF PoolBlocks, Null
  <1>4. IsChain(word, block, r)
    BY <1>2, <1>3, ChainConsLemma
  <1>5. /\ r \in Seq(PoolBlocks) /\ NoDup(r) /\ Linked(r) = Linked(s) \cup {block}
        /\ Len(r) = Len(s) + 1
    <2>1. Len(r) = Len(s) + 1
      BY <1>2 DEF rt_list_insert_after
    <2>4. r \in Seq(PoolBlocks)
      BY <1>2, <1>3, InsertAfterLemma
    <2>5. s \in Seq(PoolBlocks) /\ block \in PoolBlocks /\ NoDup(s) /\ block \notin Linked(s)
      BY <1>2, <1>3
    <2>2. Linked(r) = Linked(s) \cup {block}
      BY ONLY <2>5, InsertAfterLemma
    <2>3. NoDup(r)
      BY ONLY <2>5, InsertAfterLemma
    <2> QED BY <2>1, <2>2, <2>3, <2>4
  <1>6. Len(r) <= PoolSize
    BY <1>5, ShortLemma, MpSizeAssumption DEF PoolBlocks
  <1>7. word \in [PoolBlocks -> PoolBlocks \cup {Null, Pool}]
    BY <1>2
  <1>8. mp.block_free_count + 1 \in 0 .. PoolSize
    BY <1>2, <1>5, <1>6, MpSizeAssumption
  <1> HIDE DEF word, first, r
  <1>9. /\ mp' \in MpObject /\ mp'.word = word /\ mp'.block_list = block
        /\ mp'.block_free_count = mp.block_free_count + 1 /\ mp'.live = mp.live
    BY <1>1, <1>3, <1>7, <1>8 DEF MpObject
  <1>10. \A b \in inUse' : word[b] = Pool
    BY <1>1, <1>2 DEF word
  <1>11. Linked(r) = PoolBlocks \ inUse'
    BY <1>1, <1>2, <1>3, <1>5
  <1> QED BY <1>1, <1>2, <1>4, <1>5, <1>9, <1>10, <1>11 DEF FreeBlocks, r

LEMMA MpAllocStep ==
    ASSUME MpIInv, NEW t \in Threads, rt_mp_alloc(t)
    PROVE  MpIInv'
  <1>1. /\ pc[t] \in {"run", "recvAgain"} /\ mp.live /\ mp.block_free_count # 0
        /\ Goto(t, "run")
    BY SidesLemma DEF rt_mp_alloc, Tests
  <1>2. PICK s : FreeBlocks(mp, inUse, s)
    BY <1>1 DEF MpIInv
  <1>3. /\ mp' \in MpObject /\ inUse' \subseteq PoolBlocks /\ mp'.live
        /\ FreeBlocks(mp', inUse', Tail(s))
        /\ mp'.block_free_count = mp.block_free_count - 1
    BY <1>1, <1>2, MpAllocData DEF MpIInv
  <1>4. /\ pc[t] \notin Sides /\ "recv" \in Sides /\ "run" \in (PCs \cup {"run"}) \ Sides
        /\ UNCHANGED <<list, forgot>> /\ pc' = [pc EXCEPT ![t] = "run"]
        /\ timed' = [timed EXCEPT ![t] = FALSE] /\ DOMAIN list' = Sides
    BY <1>1, SidesLemma DEF Goto, MpIInv, Queued, WaitersTypeOK
  <1>5. Queued' /\ Resumed("recv") \ {t} \subseteq Resumed("recv")'
    BY <1>4, MoveLemma DEF MpIInv
  <1>6. /\ Served("recv", mp.block_free_count)
        /\ mp.block_free_count \in Nat /\ mp.block_free_count > 0
    BY <1>1, MpSizeAssumption DEF MpIInv, MpServed, MpObject
  <1>7. ServedNext("recv", mp'.block_free_count)
    BY <1>3, <1>4, <1>5, <1>6, ServedTakes
  <1>8. MpServed'
    BY <1>7, MpServedLemma
  <1>9. (\E r : FreeBlocks(mp, inUse, r))'
    BY <1>3 DEF FreeBlocks
  <1> QED BY <1>3, <1>5, <1>8, <1>9 DEF MpIInv

LEMMA MpFreeStep ==
    ASSUME MpIInv, NEW t \in Threads, NEW block \in inUse, rt_mp_free(t, block)
    PROVE  MpIInv'
  <1>1. pc[t] = "run" /\ mp.live /\ ResumeFirst("recv", t, "run")
    BY DEF rt_mp_free
  <1>2. PICK s : FreeBlocks(mp, inUse, s)
    BY <1>1 DEF MpIInv
  <1>3. /\ mp' \in MpObject /\ inUse' \subseteq PoolBlocks /\ mp'.live
        /\ FreeBlocks(mp', inUse', rt_list_insert_after(s, block))
        /\ mp'.block_free_count = mp.block_free_count + 1
    BY <1>1, <1>2, MpFreeData DEF MpIInv
  <1>4. /\ pc[t] \notin Sides /\ pc[t] # Again("recv") /\ "recv" \in Sides
        /\ "run" \in (PCs \cup {"run"}) \ Sides
    BY <1>1, SidesLemma
  <1>5. Served("recv", mp.block_free_count) /\ mp.block_free_count \in Nat
    BY <1>1, MpSizeAssumption DEF MpIInv, MpServed, MpObject
  <1>6. Queued' /\ ServedNext("recv", mp'.block_free_count)
    BY <1>1, <1>3, <1>4, <1>5, ResumeFirstLemma, ServedResumes DEF MpIInv
  <1>7. MpServed'
    BY <1>6, MpServedLemma
  <1>8. (\E r : FreeBlocks(mp, inUse, r))'
    BY <1>3 DEF FreeBlocks
  <1> QED BY <1>3, <1>6, <1>7, <1>8 DEF MpIInv

(* The pool is left alone, and live: what is left to show is about waiters. *)
LEMMA MpAlone ==
    ASSUME MpIInv, mp.live, UNCHANGED mpVars, Queued',
           ServedNext("recv", mp.block_free_count)
    PROVE  MpIInv'
  <1>1. mp' = mp /\ inUse' = inUse
    BY DEF mpVars
  <1>2. MpServed'
    BY <1>1, MpServedLemma
  <1> QED BY <1>1, <1>2 DEF MpIInv, FreeBlocks

LEMMA MpSuspendStep ==
    ASSUME MpIInv, NEW t \in Threads, NEW ticks \in BOOLEAN, MpAllocSuspends(t, ticks)
    PROVE  MpIInv'
  <1> DEFINE new == rt_list_insert_after(list["recv"], t)
  <1>1. /\ Tests(t, "recv") /\ mp.live /\ mp.block_free_count = 0 /\ UNCHANGED mpVars
        /\ Suspend(t, "recv", new, ticks)
    BY DEF MpAllocSuspends
  <1>2. "recv" \in Sides /\ list["recv"] \in Seq(Threads) /\ NoDup(list["recv"])
    BY SidesLemma DEF MpIInv, Queued, WaitersTypeOK
  <1>3. /\ new \in Seq(Threads) /\ Linked(new) = Linked(list["recv"]) \cup {t}
        /\ t \notin Linked(list["recv"]) => NoDup(new)
    BY <1>2, InsertAfterLemma
  <1> HIDE DEF new
  <1>4. Queued'
    BY <1>1, <1>2, <1>3, JoinLemma DEF MpIInv
  <1>5. ServedNext("recv", mp.block_free_count)
    BY <1>1, NothingThere
  <1> QED BY <1>1, <1>4, <1>5, MpAlone

LEMMA MpGivesUpStep ==
    ASSUME MpIInv, NEW t \in Threads, MpAllocGivesUp(t)
    PROVE  MpIInv'
  <1>1. /\ mp.block_free_count = 0 /\ pc[t] = "recvAgain" /\ UNCHANGED mpVars
        /\ GivesUp(t, "recv")
    BY SidesLemma DEF MpAllocGivesUp, GivesUp
  <1>2. /\ pc[t] \notin Sides /\ pc[t] # "run" /\ "run" \in (PCs \cup {"run"}) \ Sides
        /\ UNCHANGED <<list, forgot>> /\ pc' = [pc EXCEPT ![t] = "run"]
        /\ timed' = [timed EXCEPT ![t] = FALSE] /\ DOMAIN list' = Sides
    BY <1>1, SidesLemma DEF GivesUp, MpIInv, Queued, WaitersTypeOK
  <1>3. Queued' /\ mp.live
    BY <1>2, MoveLemma DEF MpIInv
  <1>4. ServedNext("recv", mp.block_free_count)
    BY <1>1, NothingThere
  <1> QED BY <1>1, <1>3, <1>4, MpAlone

LEMMA MpWithoutStep ==
    ASSUME MpIInv, NEW t \in Threads, _thread_timeout(t) \/ rt_thread_delete(t), UNCHANGED mpVars
    PROVE  MpIInv'
  <1>1. mp.live
    BY SidesLemma DEF MpIInv, _thread_timeout, rt_thread_delete
  <1>2. mp.block_free_count \in Nat /\ Served("recv", mp.block_free_count) /\ "recv" \in Sides
    BY <1>1, MpSizeAssumption, SidesLemma DEF MpIInv, MpObject, MpServed
  <1>3. Queued' /\ ServedNext("recv", mp.block_free_count)
    BY <1>2, ServedWithout DEF MpIInv
  <1> QED BY <1>1, <1>3, MpAlone

LEMMA MpDeleteStep ==
    ASSUME MpIInv, rt_mp_delete
    PROVE  MpIInv'
  <1>1. /\ Queued' /\ \A t \in Threads : pc'[t] = "run"
    BY ResumeAllLemma DEF MpIInv, rt_mp_delete, NobodyInside
  <1>2. mp' \in MpObject /\ ~mp'.live /\ inUse' = {}
    BY DEF rt_mp_delete, MpIInv, MpObject
  <1> QED BY <1>1, <1>2 DEF MpIInv, MpServed

LEMMA MpAgainStep ==
    ASSUME MpIInv, rt_mp_init
    PROVE  MpIInv'
  <1>1. /\ \A t \in Threads : pc[t] = "run"
        /\ UNCHANGED waiters /\ mp' = AllFree /\ inUse' = {}
    BY DEF MpIInv, rt_mp_init
  <1>2. UNCHANGED <<list, pc, timed, forgot>>
    BY <1>1 DEF waiters
  <1>3. Queued' /\ mp'.live
    BY <1>1, <1>2 DEF MpIInv, AllFree, Queued, WaitersTypeOK
  <1>4. Linked(list["recv"]) = {}
    BY <1>1, SidesLemma DEF MpIInv, Queued, WaitersTypeOK
  <1>5. list["recv"] = <<>>
    BY <1>4, EmptyLemma, SidesLemma DEF MpIInv, Queued
  <1>6. ServedNext("recv", mp'.block_free_count)
    BY <1>2, <1>5 DEF ServedNext
  <1>7. mp' \in MpObject /\ (\E s : FreeBlocks(mp, inUse, s))'
    BY <1>1, AllFreeLemma DEF FreeBlocks
  <1> QED BY <1>1, <1>3, <1>6, <1>7, MpServedLemma DEF MpIInv

LEMMA MpNextLemma == MpIInv /\ [MpNext]_<<waiters, mpVars>> => MpIInv'
  <1> SUFFICES ASSUME MpIInv, [MpNext]_<<waiters, mpVars>> PROVE MpIInv'
    OBVIOUS
  <1>1. CASE UNCHANGED <<waiters, mpVars>>
    BY <1>1 DEF waiters, mpVars, MpIInv, FreeBlocks, Queued, WaitersTypeOK, MpServed, Served,
                rt_list_isempty
  <1>2. CASE MpNext
    BY <1>2, MpAllocStep, MpFreeStep, MpSuspendStep, MpGivesUpStep, MpWithoutStep, MpDeleteStep,
       MpAgainStep DEF MpNext, MpThread
  <1> QED BY <1>1, <1>2

LEMMA MpConservedLemma == MpIInv => PoolConserved
  <1> SUFFICES ASSUME MpIInv, mp.live PROVE PoolConserved
    BY DEF PoolConserved
  <1>1. PICK s : FreeBlocks(mp, inUse, s)
    BY DEF MpIInv
  <1>2. PoolSize \in Nat /\ PoolBlocks = 1 .. PoolSize /\ DOMAIN mp.word = 1 .. PoolSize
    BY MpSizeAssumption DEF MpIInv, MpObject, PoolBlocks
  <1>3. s \in Seq(1 .. PoolSize) /\ NoDup(s) /\ IsChain(mp.word, mp.block_list, s)
    BY <1>1, <1>2 DEF FreeBlocks
  <1>4. Chain(mp.word, mp.block_list) = s
    BY <1>2, <1>3, ChainLemma
  <1> QED BY <1>1, <1>4 DEF PoolConserved, FreeBlocks

(* For a pool of any number of blocks and any number of threads: a block is  *)
(* free or in use and never both, none is lost, the count is that of the    *)
(* chain of free blocks, and the word before a block in use leads to the    *)
(* pool.                                                                   *)
THEOREM BlocksAreConserved == MpSpec => []PoolConserved
  <1>1. MpInit => MpIInv
    BY MpInitLemma
  <1>2. MpIInv /\ [MpNext]_<<waiters, mpVars>> => MpIInv'
    BY MpNextLemma
  <1>3. MpIInv => PoolConserved
    BY MpConservedLemma
  <1> QED BY <1>1, <1>2, <1>3, PTL DEF MpSpec

(* Nobody waits for a block that is free, although the pool hands nothing    *)
(* over and a thread that is faster may take what a woken one came for.     *)
THEOREM MemPoolServes == MpSpec => [](MpTypeOK /\ MpServed)
  <1>1. MpInit => MpIInv
    BY MpInitLemma
  <1>2. MpIInv /\ [MpNext]_<<waiters, mpVars>> => MpIInv'
    BY MpNextLemma
  <1>3. MpIInv => MpTypeOK /\ MpServed
    BY DEF MpIInv, MpTypeOK, Queued
  <1> QED BY <1>1, <1>2, <1>3, PTL DEF MpSpec

-----------------------------------------------------------------------------
(* The message queue *)

(* f are the free blocks of a message queue and q its queued ones, in order. *)
Whole(box, f, q) ==
    /\ f \in Seq(Blocks) /\ NoDup(f) /\ IsChain(box.next, box.free, f)
    /\ q \in Seq(Blocks) /\ NoDup(q) /\ IsChain(box.next, box.head, q)
    /\ Linked(f) \cap Linked(q) = {}
    /\ box.tail = IF q = <<>> THEN Null ELSE q[Len(q)]
    /\ box.entry = Len(q)
    /\ \A b \in Linked(q) : box.data[b] \in Messages

(* Blocks in nobody's list keep what is written in them. *)
Untouched(box, new, inside) ==
    \A c \in Blocks \ inside : new.next[c] = box.next[c] /\ new.data[c] = box.data[c]

LEMMA AppendLemma ==
    ASSUME NEW S, NEW s \in Seq(S), NoDup(s), NEW b \in S, b \notin Linked(s)
    PROVE  /\ Append(s, b) \in Seq(S) /\ NoDup(Append(s, b))
           /\ Linked(Append(s, b)) = Linked(s) \cup {b}
           /\ Append(s, b) # <<>> /\ Len(Append(s, b)) = Len(s) + 1
           /\ Append(s, b)[Len(Append(s, b))] = b
  <1>1. Append(s, b) \in Seq(S)
    OBVIOUS
  <1>2. NoDup(Append(s, b))
    BY InsertBeforeLemma DEF rt_list_insert_before
  <1>3. Linked(Append(s, b)) = Linked(s) \cup {b}
    BY InsertBeforeLemma DEF rt_list_insert_before
  <1>4. Len(Append(s, b)) = Len(s) + 1 /\ Append(s, b)[Len(Append(s, b))] = b
    OBVIOUS
  <1>5. Append(s, b) # <<>>
    BY InsertBeforeLemma DEF rt_list_insert_before
  <1> QED BY <1>1, <1>2, <1>3, <1>4, <1>5

LEMMA PushLemma ==
    ASSUME NEW S, NEW s \in Seq(S), NoDup(s), NEW b \in S, b \notin Linked(s),
           NEW r, r = rt_list_insert_after(s, b)
    PROVE  /\ r \in Seq(S) /\ NoDup(r) /\ Linked(r) = Linked(s) \cup {b}
           /\ r # <<>> /\ Len(r) = Len(s) + 1
           /\ r[Len(r)] = IF s = <<>> THEN b ELSE s[Len(s)]
  <1>1. r \in Seq(S)
    BY InsertAfterLemma
  <1>2. NoDup(r)
    BY InsertAfterLemma
  <1>3. Linked(r) = Linked(s) \cup {b}
    BY InsertAfterLemma
  <1>4. /\ Len(r) = Len(s) + 1 /\ Len(s) \in Nat /\ (s = <<>> <=> Len(s) = 0)
        /\ \A i \in 1 .. Len(s) + 1 : r[i] = IF i = 1 THEN b ELSE s[i - 1]
    BY DEF rt_list_insert_after
  <1>5. r # <<>>
    BY <1>4
  <1>6. r[Len(r)] = IF s = <<>> THEN b ELSE s[Len(s)]
    <2> DEFINE l == Len(s)
    <2>1. l \in Nat /\ l + 1 \in 1 .. l + 1 /\ (l + 1) - 1 = l /\ (l + 1 = 1 <=> l = 0)
      BY <1>4
    <2>2. r[l + 1] = IF l + 1 = 1 THEN b ELSE s[(l + 1) - 1]
      BY <1>4, <2>1
    <2> QED BY <1>4, <2>1, <2>2
  <1> QED BY <1>1, <1>2, <1>3, <1>4, <1>5, <1>6

(* The last of what is left when the first is taken. *)
LEMMA LastOfTail ==
    ASSUME NEW S, NEW s \in Seq(S), NoDup(s), s # <<>>
    PROVE  /\ Len(Tail(s)) = Len(s) - 1 /\ Len(s) \in Nat \ {0}
           /\ (IF s[Len(s)] = Head(s) THEN Null ELSE s[Len(s)])
                = IF Tail(s) = <<>> THEN Null ELSE Tail(s)[Len(Tail(s))]
  <1> DEFINE l == Len(s)
  <1>1. /\ l \in Nat \ {0} /\ Len(Tail(s)) = l - 1 /\ Head(s) = s[1]
        /\ \A i \in 1 .. l - 1 : Tail(s)[i] = s[i + 1]
        /\ \A i, j \in 1 .. l : s[i] = s[j] => i = j
        /\ Tail(s) = <<>> <=> l = 1
    <2>1. \A i, j \in 1 .. l : s[i] = s[j] => i = j
      BY DEF NoDup
    <2>2. Tail(s) \in Seq(S) /\ Len(Tail(s)) = l - 1 /\ l \in Nat \ {0}
      OBVIOUS
    <2>3. Tail(s) = <<>> <=> Len(Tail(s)) = 0
      BY <2>2
    <2> HIDE DEF l
    <2>4. Len(Tail(s)) = 0 <=> l = 1
      BY <2>2
    <2>5. Head(s) = s[1] /\ \A i \in 1 .. l - 1 : Tail(s)[i] = s[i + 1]
      BY DEF l
    <2> QED BY <2>1, <2>2, <2>3, <2>4, <2>5
  <1>2. CASE l = 1
    BY <1>1, <1>2
  <1>3. CASE l # 1
    <2> HIDE DEF l
    <2>1. l \in 1 .. l /\ 1 \in 1 .. l /\ l - 1 \in 1 .. l - 1 /\ (l - 1) + 1 = l
      BY <1>1, <1>3
    <2>2. s[l] # s[1] /\ Tail(s)[l - 1] = s[l]
      BY <1>1, <1>3, <2>1
    <2> QED BY <1>1, <1>3, <2>2 DEF l
  <1> QED BY <1>2, <1>3

(* What the steps do to the object: b is a thread's block. *)
Copied(box, b, v, m) == [box EXCEPT !.next = [@ EXCEPT ![b] = v],
                                    !.data = [@ EXCEPT ![b] = m]]

AddedLast(box, b) == [box EXCEPT !.next = IF box.tail # Null
                                          THEN [@ EXCEPT ![box.tail] = b] ELSE @,
                                 !.tail = b,
                                 !.head = IF @ = Null THEN b ELSE @,
                                 !.entry = @ + 1]

AddedFirst(box, b) == [box EXCEPT !.next = [@ EXCEPT ![b] = box.head],
                                  !.head = b,
                                  !.tail = IF @ = Null THEN b ELSE @,
                                  !.entry = @ + 1]

Shortened(box) == [box EXCEPT !.head = box.next[box.head],
                              !.tail = IF @ = box.head THEN Null ELSE @,
                              !.entry = @ - 1]

Freed(box, b) == [box EXCEPT !.next = [@ EXCEPT ![b] = box.free], !.free = b]

(* Room for the block that is linked. *)
LEMMA EntryLemma ==
    ASSUME NEW r \in Seq(Blocks), NoDup(r)
    PROVE  Len(r) \in 0 .. MaxMsgs
  <1>1. Len(r) <= MaxMsgs
    BY ShortLemma, MqMaxMsgsAssumption DEF Blocks
  <1> QED BY <1>1, MqMaxMsgsAssumption

LEMMA WholeFacts ==
    ASSUME NEW box \in MqObject
    PROVE  /\ box.next \in [Blocks -> Blocks \cup {Null}]
           /\ box.data \in [Blocks -> Messages \cup {NoMessage}]
           /\ box.head \in Blocks \cup {Null} /\ box.tail \in Blocks \cup {Null}
           /\ box.free \in Blocks \cup {Null} /\ box.entry \in 0 .. MaxMsgs
           /\ box.live \in BOOLEAN /\ Null \notin Blocks
  BY DEF MqObject, Null, Blocks

(* A block is taken off the free list. *)
LEMMA WholeTake ==
    ASSUME NEW box \in MqObject, NEW f, NEW q, Whole(box, f, q), box.free # Null,
           NEW new, new = [box EXCEPT !.free = box.next[box.free]]
    PROVE  /\ new \in MqObject /\ new.live = box.live
           /\ f # <<>> /\ box.free = Head(f) /\ box.free \in Blocks
           /\ Whole(new, Tail(f), q)
           /\ Linked(Tail(f)) = Linked(f) \ {box.free} /\ box.free \in Linked(f)
           /\ Untouched(box, new, {}) /\ Len(Tail(f)) = Len(f) - 1 /\ Len(f) \in Nat \ {0}
  <1>1. f # <<>> /\ f \in Seq(Blocks) /\ NoDup(f) /\ IsChain(box.next, box.free, f)
    BY DEF Whole, IsChain
  <1>2. /\ box.free \in Blocks /\ box.free = Head(f)
        /\ IsChain(box.next, box.next[box.free], Tail(f))
    BY <1>1, WholeFacts, ChainRestLemma
  <1>3. Tail(f) \in Seq(Blocks) /\ NoDup(Tail(f)) /\ Linked(Tail(f)) = Linked(f) \ {box.free}
    BY <1>1, <1>2, TailLemma
  <1>4. box.free \in Linked(f)
    BY <1>1, <1>2, EmptyLemma
  <1>5. box.next[box.free] \in Blocks \cup {Null}
    BY <1>2, WholeFacts
  <1>6. /\ new \in MqObject /\ new.live = box.live /\ new.next = box.next
        /\ new.data = box.data /\ new.head = box.head /\ new.tail = box.tail
        /\ new.entry = box.entry /\ new.free = box.next[box.free]
    BY <1>5 DEF MqObject
  <1>7. Whole(new, Tail(f), q)
    BY <1>2, <1>3, <1>6 DEF Whole
  <1>8. Len(Tail(f)) = Len(f) - 1 /\ Len(f) \in Nat \ {0}
    BY <1>1
  <1> QED BY <1>1, <1>2, <1>3, <1>4, <1>6, <1>7, <1>8 DEF Untouched

(* Somebody writes into a block in its hand. *)
LEMMA WholeCopy ==
    ASSUME NEW box \in MqObject, NEW f, NEW q, Whole(box, f, q),
           NEW b \in Blocks, b \notin Linked(f) \cup Linked(q),
           NEW v \in Blocks \cup {Null}, NEW m \in Messages,
           NEW new, new = Copied(box, b, v, m)
    PROVE  /\ new \in MqObject /\ new.live = box.live /\ Whole(new, f, q)
           /\ new.next[b] = v /\ new.data[b] = m /\ Untouched(box, new, {b})
  <1> DEFINE next == [box.next EXCEPT ![b] = v]
             data == [box.data EXCEPT ![b] = m]
  <1>1. /\ box.next \in [Blocks -> Blocks \cup {Null}]
        /\ box.data \in [Blocks -> Messages \cup {NoMessage}]
    BY WholeFacts
  <1>2. IsChain(next, box.free, f) /\ IsChain(next, box.head, q)
    BY <1>1, ChainApartLemma DEF Whole
  <1>3. /\ next \in [Blocks -> Blocks \cup {Null}] /\ next[b] = v
        /\ data \in [Blocks -> Messages \cup {NoMessage}] /\ data[b] = m
        /\ \A c \in Blocks \ {b} : next[c] = box.next[c] /\ data[c] = box.data[c]
    BY <1>1
  <1>4. new = [box EXCEPT !.next = next, !.data = data]
    BY DEF MqObject, Copied
  <1> HIDE DEF next, data
  <1>5. /\ new \in MqObject /\ new.live = box.live /\ new.next = next
        /\ new.data = data /\ new.head = box.head /\ new.tail = box.tail
        /\ new.entry = box.entry /\ new.free = box.free
    BY <1>3, <1>4 DEF MqObject
  <1>6. \A c \in Linked(q) : new.data[c] \in Messages
    <2>1. \A c \in Linked(q) : c \in Blocks \ {b} /\ box.data[c] \in Messages
      BY EmptyLemma DEF Whole
    <2> QED BY <1>3, <1>5, <2>1
  <1>7. Whole(new, f, q)
    BY <1>2, <1>5, <1>6 DEF Whole
  <1> QED BY <1>3, <1>5, <1>7 DEF Untouched

(* A block with a message is linked behind the others. *)
LEMMA WholeLast ==
    ASSUME NEW box \in MqObject, NEW f, NEW q, Whole(box, f, q),
           NEW b \in Blocks, b \notin Linked(f) \cup Linked(q),
           box.next[b] = Null, box.data[b] \in Messages,
           NEW new, new = AddedLast(box, b)
    PROVE  /\ new \in MqObject /\ new.live = box.live /\ Whole(new, f, Append(q, b))
           /\ Untouched(box, new, Linked(q)) /\ new.data = box.data
  <1> DEFINE next == IF box.tail # Null THEN [box.next EXCEPT ![box.tail] = b] ELSE box.next
             r == Append(q, b)
             head == IF box.head = Null THEN b ELSE box.head
  <1>1. /\ box.next \in [Blocks -> Blocks \cup {Null}] /\ Null \notin Blocks
        /\ q \in Seq(Blocks) /\ NoDup(q) /\ IsChain(box.next, box.head, q)
        /\ f \in Seq(Blocks) /\ IsChain(box.next, box.free, f)
        /\ Linked(f) \cap Linked(q) = {} /\ box.entry = Len(q)
        /\ box.tail = IF q = <<>> THEN Null ELSE q[Len(q)]
        /\ \A c \in Linked(q) : box.data[c] \in Messages
    BY WholeFacts DEF Whole
  <1>2. /\ r \in Seq(Blocks) /\ NoDup(r) /\ Linked(r) = Linked(q) \cup {b} /\ r # <<>>
        /\ Len(r) = Len(q) + 1 /\ r[Len(r)] = b
    BY <1>1, AppendLemma
  <1>3. Len(r) \in 0 .. MaxMsgs
    BY <1>2, EntryLemma
  <1>4. q = <<>> => box.head = Null /\ box.tail = Null
    BY <1>1 DEF IsChain
  <1>5. q # <<>> => /\ box.head \in Blocks /\ box.tail \in Blocks /\ box.tail \in Linked(q)
                    /\ box.tail = q[Len(q)]
    <2> SUFFICES ASSUME q # <<>>
                 PROVE  /\ box.head \in Blocks /\ box.tail \in Blocks /\ box.tail \in Linked(q)
                        /\ box.tail = q[Len(q)]
      OBVIOUS
    <2>1. Len(q) \in 1 .. Len(q) /\ 1 \in 1 .. Len(q) /\ DOMAIN q = 1 .. Len(q)
      BY <1>1
    <2>2. q[Len(q)] \in Linked(q) /\ q[Len(q)] \in Blocks
      BY <1>1, <2>1 DEF Linked
    <2>3. IsChain(box.next, box.head, q) /\ q \in Seq(Blocks) /\ q # <<>>
      BY <1>1
    <2>4. box.head \in Blocks
      BY <1>1, <2>3, ChainRestLemma
    <2> QED BY <1>1, <2>2, <2>4
  <1>6. IsChain(next, head, r)
    <2>1. CASE q = <<>>
      BY <1>1, <1>4, <2>1, ChainSnocLemma
    <2>2. CASE q # <<>>
      <3>1. IsChain([box.next EXCEPT ![q[Len(q)]] = b], box.head, Append(q, b))
        BY <1>1, <2>2, ChainSnocLemma
      <3>2. next = [box.next EXCEPT ![q[Len(q)]] = b] /\ head = box.head
        BY <1>1, <1>5, <2>2
      <3> QED BY <3>1, <3>2
    <2> QED BY <2>1, <2>2
  <1>7. IsChain(next, box.free, f)
    <2>1. CASE q = <<>>
      BY <1>1, <1>4, <2>1
    <2>2. CASE q # <<>>
      <3>1. box.tail \notin Linked(f) /\ box.tail # Null
        BY <1>1, <1>5, <2>2
      <3> QED BY <1>1, <1>5, <2>2, <3>1, ChainApartLemma
    <2> QED BY <2>1, <2>2
  <1>8. /\ next \in [Blocks -> Blocks \cup {Null}]
        /\ \A c \in Blocks \ Linked(q) : next[c] = box.next[c]
    <2>1. CASE q = <<>>
      BY <1>1, <1>4, <2>1
    <2>2. CASE q # <<>>
      BY <1>1, <1>5, <2>2
    <2> QED BY <2>1, <2>2
  <1>9. head \in Blocks
    BY WholeFacts
  <1>10. new = [box EXCEPT !.next = next, !.tail = b, !.head = head, !.entry = Len(r)]
    BY <1>1, <1>2 DEF MqObject, AddedLast
  <1> HIDE DEF next, head, r
  <1>11. /\ new \in MqObject /\ new.live = box.live /\ new.next = next
         /\ new.data = box.data /\ new.head = head /\ new.tail = b
         /\ new.entry = Len(r) /\ new.free = box.free
    BY <1>3, <1>8, <1>9, <1>10 DEF MqObject
  <1>12. Linked(f) \cap Linked(r) = {} /\ NoDup(f)
    BY <1>1, <1>2 DEF Whole
  <1>13. \A c \in Linked(r) : new.data[c] \in Messages
    BY <1>1, <1>2, <1>11
  <1>14. Whole(new, f, r)
    BY <1>1, <1>2, <1>6, <1>7, <1>11, <1>12, <1>13 DEF Whole
  <1> QED BY <1>8, <1>11, <1>14 DEF Untouched, r

(* A block with a message is linked before the others. *)
LEMMA WholeFirst ==
    ASSUME NEW box \in MqObject, NEW f, NEW q, Whole(box, f, q),
           NEW b \in Blocks, b \notin Linked(f) \cup Linked(q), box.data[b] \in Messages,
           NEW new, new = AddedFirst(box, b)
    PROVE  /\ new \in MqObject /\ new.live = box.live
           /\ Whole(new, f, rt_list_insert_after(q, b))
           /\ Untouched(box, new, {b}) /\ new.data = box.data
  <1> DEFINE next == [box.next EXCEPT ![b] = box.head]
             r == rt_list_insert_after(q, b)
             tail == IF box.tail = Null THEN b ELSE box.tail
  <1>1. /\ box.next \in [Blocks -> Blocks \cup {Null}] /\ Null \notin Blocks
        /\ box.head \in Blocks \cup {Null} /\ box.tail \in Blocks \cup {Null}
        /\ q \in Seq(Blocks) /\ NoDup(q) /\ IsChain(box.next, box.head, q)
        /\ f \in Seq(Blocks) /\ NoDup(f) /\ IsChain(box.next, box.free, f)
        /\ Linked(f) \cap Linked(q) = {} /\ box.entry = Len(q)
        /\ box.tail = IF q = <<>> THEN Null ELSE q[Len(q)]
        /\ \A c \in Linked(q) : box.data[c] \in Messages
    BY WholeFacts DEF Whole
  <1>2. /\ r \in Seq(Blocks) /\ NoDup(r) /\ Linked(r) = Linked(q) \cup {b} /\ r # <<>>
        /\ Len(r) = Len(q) + 1 /\ r[Len(r)] = IF q = <<>> THEN b ELSE q[Len(q)]
    BY <1>1, PushLemma
  <1>3. Len(r) \in 0 .. MaxMsgs
    BY <1>2, EntryLemma
  <1>4. IsChain(next, b, r)
    BY <1>1, ChainConsLemma
  <1>5. IsChain(next, box.free, f)
    BY <1>1, ChainApartLemma
  <1>6. /\ next \in [Blocks -> Blocks \cup {Null}]
        /\ \A c \in Blocks \ {b} : next[c] = box.next[c]
    BY <1>1
  <1>7. tail \in Blocks /\ tail = r[Len(r)]
    <2>1. q # <<>> => q[Len(q)] \in Blocks
      BY <1>1
    <2> QED BY <1>1, <1>2, <2>1
  <1>8. new = [box EXCEPT !.next = next, !.head = b, !.tail = tail, !.entry = Len(r)]
    BY <1>1, <1>2 DEF MqObject, AddedFirst
  <1> HIDE DEF next, tail, r
  <1>9. /\ new \in MqObject /\ new.live = box.live /\ new.next = next
        /\ new.data = box.data /\ new.head = b /\ new.tail = tail
        /\ new.entry = Len(r) /\ new.free = box.free
    BY <1>3, <1>6, <1>7, <1>8 DEF MqObject
  <1>10. Linked(f) \cap Linked(r) = {}
    BY <1>1, <1>2
  <1>11. \A c \in Linked(r) : new.data[c] \in Messages
    BY <1>1, <1>2, <1>9
  <1>12. Whole(new, f, r)
    BY <1>1, <1>2, <1>4, <1>5, <1>7, <1>9, <1>10, <1>11 DEF Whole
  <1> QED BY <1>6, <1>9, <1>12 DEF Untouched, r

(* The first message is unlinked. *)
LEMMA WholeRecv ==
    ASSUME NEW box \in MqObject, NEW f, NEW q, Whole(box, f, q), box.entry # 0,
           NEW new, new = Shortened(box)
    PROVE  /\ new \in MqObject /\ new.live = box.live /\ Whole(new, f, Tail(q))
           /\ q # <<>> /\ box.head = Head(q) /\ box.head \in Blocks /\ box.head \in Linked(q)
           /\ Linked(Tail(q)) = Linked(q) \ {box.head}
           /\ Len(Tail(q)) = Len(q) - 1 /\ Len(q) \in Nat \ {0}
           /\ Untouched(box, new, {}) /\ new.data = box.data
           /\ box.data[box.head] \in Messages
  <1> DEFINE tail == IF box.tail = box.head THEN Null ELSE box.tail
  <1>1. /\ box.next \in [Blocks -> Blocks \cup {Null}] /\ Null \notin Blocks
        /\ box.tail \in Blocks \cup {Null} /\ box.entry \in 0 .. MaxMsgs
        /\ q \in Seq(Blocks) /\ NoDup(q) /\ IsChain(box.next, box.head, q)
        /\ Linked(f) \cap Linked(q) = {} /\ box.entry = Len(q)
        /\ box.tail = IF q = <<>> THEN Null ELSE q[Len(q)]
        /\ \A c \in Linked(q) : box.data[c] \in Messages
    BY WholeFacts DEF Whole
  <1>2. q # <<>>
    BY <1>1
  <1>3. /\ box.head \in Blocks /\ box.head = Head(q)
        /\ IsChain(box.next, box.next[box.head], Tail(q))
    BY <1>1, <1>2, ChainRestLemma
  <1>4. Tail(q) \in Seq(Blocks) /\ NoDup(Tail(q)) /\ Linked(Tail(q)) = Linked(q) \ {box.head}
    BY <1>1, <1>2, <1>3, TailLemma
  <1>5. box.head \in Linked(q)
    BY <1>1, <1>2, <1>3, EmptyLemma
  <1>6. /\ Len(Tail(q)) = Len(q) - 1 /\ Len(q) \in Nat \ {0}
        /\ tail = IF Tail(q) = <<>> THEN Null ELSE Tail(q)[Len(Tail(q))]
    BY <1>1, <1>2, <1>3, LastOfTail
  <1>7. box.next[box.head] \in Blocks \cup {Null} /\ tail \in Blocks \cup {Null}
    BY <1>1, <1>3
  <1>8. Len(Tail(q)) \in 0 .. MaxMsgs
    BY <1>4, EntryLemma
  <1>9. new = [box EXCEPT !.head = box.next[box.head], !.tail = tail, !.entry = Len(Tail(q))]
    BY <1>1, <1>6 DEF MqObject, Shortened
  <1> HIDE DEF tail
  <1>10. /\ new \in MqObject /\ new.live = box.live /\ new.next = box.next
         /\ new.data = box.data /\ new.head = box.next[box.head] /\ new.tail = tail
         /\ new.entry = Len(Tail(q)) /\ new.free = box.free
    BY <1>7, <1>8, <1>9 DEF MqObject
  <1>11. Whole(new, f, Tail(q))
    BY <1>1, <1>3, <1>4, <1>6, <1>10 DEF Whole
  <1> QED BY <1>1, <1>2, <1>3, <1>4, <1>5, <1>6, <1>10, <1>11 DEF Untouched

(* A block comes back to the free list. *)
LEMMA WholeFree ==
    ASSUME NEW box \in MqObject, NEW f, NEW q, Whole(box, f, q),
           NEW b \in Blocks, b \notin Linked(f) \cup Linked(q),
           NEW new, new = Freed(box, b)
    PROVE  /\ new \in MqObject /\ new.live = box.live
           /\ Whole(new, rt_list_insert_after(f, b), q)
           /\ Untouched(box, new, {b}) /\ new.data = box.data
           /\ Linked(rt_list_insert_after(f, b)) = Linked(f) \cup {b}
           /\ Len(rt_list_insert_after(f, b)) = Len(f) + 1 /\ Len(f) \in Nat
  <1> DEFINE next == [box.next EXCEPT ![b] = box.free]
             r == rt_list_insert_after(f, b)
  <1>1. /\ box.next \in [Blocks -> Blocks \cup {Null}] /\ Null \notin Blocks
        /\ box.free \in Blocks \cup {Null}
        /\ q \in Seq(Blocks) /\ NoDup(q) /\ IsChain(box.next, box.head, q)
        /\ f \in Seq(Blocks) /\ NoDup(f) /\ IsChain(box.next, box.free, f)
        /\ Linked(f) \cap Linked(q) = {}
    BY WholeFacts DEF Whole
  <1>2. /\ r \in Seq(Blocks) /\ NoDup(r) /\ Linked(r) = Linked(f) \cup {b}
        /\ Len(r) = Len(f) + 1 /\ Len(f) \in Nat
    BY <1>1, PushLemma
  <1>3. IsChain(next, b, r)
    BY <1>1, ChainConsLemma
  <1>4. IsChain(next, box.head, q)
    BY <1>1, ChainApartLemma
  <1>5. /\ next \in [Blocks -> Blocks \cup {Null}]
        /\ \A c \in Blocks \ {b} : next[c] = box.next[c]
    BY <1>1
  <1>6. new = [box EXCEPT !.next = next, !.free = b]
    BY DEF MqObject, Freed
  <1> HIDE DEF next, r
  <1>7. /\ new \in MqObject /\ new.live = box.live /\ new.next = next
        /\ new.data = box.data /\ new.head = box.head /\ new.tail = box.tail
        /\ new.entry = box.entry /\ new.free = b
    BY <1>5, <1>6 DEF MqObject
  <1>8. Linked(r) \cap Linked(q) = {}
    BY <1>1, <1>2
  <1>9. Whole(new, r, q)
    BY <1>1, <1>2, <1>3, <1>4, <1>7, <1>8 DEF Whole
  <1> QED BY <1>2, <1>5, <1>7, <1>9 DEF Untouched, r

(* What Chain finds. *)
LEMMA WholeChains ==
    ASSUME NEW box \in MqObject, NEW f, NEW q, Whole(box, f, q)
    PROVE  Chain(box.next, box.free) = f /\ Chain(box.next, box.head) = q
  <1>1. MaxMsgs \in Nat /\ Blocks = 1 .. MaxMsgs /\ DOMAIN box.next = 1 .. MaxMsgs
    BY MqMaxMsgsAssumption, WholeFacts DEF Blocks
  <1>2. /\ f \in Seq(1 .. MaxMsgs) /\ NoDup(f) /\ IsChain(box.next, box.free, f)
        /\ q \in Seq(1 .. MaxMsgs) /\ NoDup(q) /\ IsChain(box.next, box.head, q)
    BY <1>1 DEF Whole
  <1> QED BY <1>1, <1>2, ChainLemma

(* The reset puts the queued blocks before the free ones, the last first. *)
LEMMA WholeReversed ==
    ASSUME NEW box \in MqObject, NEW f, NEW q, Whole(box, f, q),
           NEW new, new = Reversed(box)
    PROVE  /\ new \in MqObject /\ new.live = box.live /\ Whole(new, Turned(q, f), <<>>)
           /\ Linked(Turned(q, f)) = Linked(f) \cup Linked(q)
           /\ Untouched(box, new, Linked(q)) /\ new.data = box.data
  <1> DEFINE next == [b \in Blocks |-> IF b \notin Linked(q) THEN box.next[b]
                                       ELSE IF b = box.head THEN box.free
                                       ELSE q[Position(q, b) - 1]]
             free == IF q = <<>> THEN box.free ELSE q[Len(q)]
             r == Turned(q, f)
  <1>1. /\ box.next \in [Blocks -> Blocks \cup {Null}] /\ Null \notin Blocks
        /\ box.free \in Blocks \cup {Null}
        /\ q \in Seq(Blocks) /\ NoDup(q) /\ IsChain(box.next, box.head, q)
        /\ f \in Seq(Blocks) /\ NoDup(f) /\ IsChain(box.next, box.free, f)
        /\ Linked(f) \cap Linked(q) = {}
        /\ box.tail = IF q = <<>> THEN Null ELSE q[Len(q)]
    BY WholeFacts DEF Whole
  <1>2. /\ r \in Seq(Blocks) /\ NoDup(r) /\ Linked(r) = Linked(f) \cup Linked(q)
    BY <1>1, TurnedLemma
  <1>3. IsChain(next, free, r)
    <2>1. \A b \in Blocks : next[b] = IF b \notin Linked(q) THEN box.next[b]
                                      ELSE IF b = box.head THEN box.free
                                      ELSE q[Position(q, b) - 1]
      OBVIOUS
    <2>2. free = IF q = <<>> THEN box.free ELSE q[Len(q)]
      OBVIOUS
    <2> HIDE DEF next, free, r
    <2>3. IsChain(next, free, Turned(q, f))
      BY <1>1, <2>1, <2>2, ChainTurnedLemma
    <2> QED BY <2>3 DEF r
  <1>4. DOMAIN q = 1 .. Len(q) /\ Len(q) \in Nat /\ \A i \in 1 .. Len(q) : q[i] \in Blocks
    BY <1>1
  <1>5. next \in [Blocks -> Blocks \cup {Null}]
    <2> SUFFICES ASSUME NEW b \in Linked(q), b # box.head
                 PROVE  q[Position(q, b) - 1] \in Blocks
      BY <1>1
    <2>1. \E i \in DOMAIN q : q[i] = b
      BY DEF Linked
    <2>2. Position(q, b) \in DOMAIN q /\ q[Position(q, b)] = b
      BY <2>1 DEF Position
    <2>3. q # <<>> /\ box.head = q[1]
      <3>1. q # <<>>
        BY <1>1, EmptyLemma
      <3> QED BY <1>1, <3>1 DEF IsChain
    <2> DEFINE i == Position(q, b)
    <2>4. i \in 1 .. Len(q) /\ i # 1
      BY <1>4, <2>2, <2>3
    <2> HIDE DEF i
    <2>5. i - 1 \in 1 .. Len(q)
      BY <1>4, <2>4
    <2>6. q[i - 1] \in Blocks
      BY <1>4, <2>5
    <2> QED BY <2>6 DEF i
  <1>6. \A c \in Blocks \ Linked(q) : next[c] = box.next[c]
    OBVIOUS
  <1>7. free \in Blocks \cup {Null}
    <2>1. q # <<>> => q[Len(q)] \in Blocks
      BY <1>1
    <2> QED BY <1>1, <2>1
  <1>8. (IF box.tail \in Linked(q) THEN Null ELSE box.tail) = Null
    <2>1. q # <<>> => q[Len(q)] \in Linked(q)
      <3> SUFFICES ASSUME q # <<>> PROVE q[Len(q)] \in Linked(q)
        OBVIOUS
      <3>1. Len(q) \in DOMAIN q
        BY <1>4
      <3> QED BY <3>1 DEF Linked
    <2> QED BY <1>1, <2>1
  <1>9. new = [box EXCEPT !.next = next, !.free = free, !.head = Null, !.tail = Null, !.entry = 0]
    BY <1>8, WholeChains DEF Reversed, MqObject
  <1>10. 0 \in 0 .. MaxMsgs
    BY MqMaxMsgsAssumption
  <1> HIDE DEF next, free, r
  <1>11. /\ new \in MqObject /\ new.live = box.live /\ new.next = next
         /\ new.data = box.data /\ new.head = Null /\ new.tail = Null
         /\ new.entry = 0 /\ new.free = free
    BY <1>5, <1>7, <1>9, <1>10 DEF MqObject
  <1>12. /\ <<>> \in Seq(Blocks) /\ NoDup(<<>>) /\ Linked(<<>>) = {} /\ Len(<<>>) = 0
         /\ IsChain(next, Null, <<>>)
    BY DEF NoDup, Linked, IsChain
  <1>13. Whole(new, r, <<>>)
    BY <1>2, <1>3, <1>11, <1>12 DEF Whole
  <1> QED BY <1>2, <1>6, <1>11, <1>13 DEF Untouched, r

(* The blocks as rt_mq_init chains them. *)
AllBlocks == [i \in 1 .. MaxMsgs |-> MaxMsgs + 1 - i]

LEMMA WholeInitialised ==
    /\ Initialised \in MqObject /\ Initialised.live /\ Whole(Initialised, AllBlocks, <<>>)
    /\ Linked(AllBlocks) = Blocks
  <1> DEFINE next == [b \in Blocks |-> b - 1]
             data == [b \in Blocks |-> NoMessage]
             s == AllBlocks
             k == MaxMsgs
  <1>1. k \in Nat \ {0} /\ Blocks = 1 .. k /\ k \in Blocks /\ 0 \in 0 .. k
    BY MqMaxMsgsAssumption DEF Blocks
  <1>2. /\ Initialised.next = next /\ Initialised.data = data /\ Initialised.free = k
        /\ Initialised.head = Null /\ Initialised.tail = Null /\ Initialised.entry = 0
        /\ Initialised.live = TRUE
    BY DEF Initialised
  <1>3. next \in [Blocks -> Blocks \cup {Null}] /\ data \in [Blocks -> Messages \cup {NoMessage}]
    BY <1>1 DEF Null
  <1>4. Initialised \in MqObject
    BY <1>1, <1>3 DEF Initialised, MqObject, Null
  <1>5. \A i \in 1 .. k : s[i] = k + 1 - i
    BY DEF AllBlocks
  <1>6. s \in [1 .. k -> Blocks]
    BY <1>1 DEF AllBlocks
  <1>7. s \in Seq(Blocks) /\ Len(s) = k /\ DOMAIN s = 1 .. k
    BY <1>1, <1>6
  <1> HIDE DEF s, k, next, data
  <1>8. NoDup(s)
    BY <1>1, <1>5, <1>7 DEF NoDup
  <1>9. Linked(s) = Blocks
    <2>1. ASSUME NEW b \in Blocks PROVE b \in Linked(s)
      <3>1. k + 1 - b \in 1 .. k /\ k + 1 - (k + 1 - b) = b
        BY <1>1
      <3>2. s[k + 1 - b] = b
        BY <1>5, <3>1
      <3> QED BY <1>7, <3>1, <3>2 DEF Linked
    <2> QED BY <1>7, <2>1, EmptyLemma
  <1>10. IsChain(next, k, s)
    <2>1. 1 \in 1 .. k /\ s # <<>>
      BY <1>1, <1>7
    <2>2. s[1] = k
      BY <1>1, <1>5, <2>1
    <2>3. \A b \in Blocks : next[b] = b - 1
      BY DEF next
    <2>4. ASSUME NEW i \in 1 .. k PROVE next[s[i]] = IF i = k THEN Null ELSE s[i + 1]
      <3>1. s[i] = k + 1 - i /\ k + 1 - i \in Blocks
        BY <1>1, <1>5
      <3>0. next[s[i]] = s[i] - 1
        BY <2>3, <3>1
      <3>2. next[s[i]] = (k + 1 - i) - 1
        BY <3>0, <3>1
      <3>3. CASE i = k
        BY <1>1, <3>2, <3>3 DEF Null
      <3>4. CASE i # k
        <4>1. i + 1 \in 1 .. k /\ (k + 1 - i) - 1 = k + 1 - (i + 1)
          BY <1>1, <3>4
        <4> QED BY <1>5, <3>2, <3>4, <4>1
      <3> QED BY <3>3, <3>4
    <2> QED BY <1>7, <2>1, <2>2, <2>4 DEF IsChain
  <1>11. /\ <<>> \in Seq(Blocks) /\ NoDup(<<>>) /\ Linked(<<>>) = {} /\ Len(<<>>) = 0
         /\ IsChain(next, Null, <<>>)
    BY DEF NoDup, Linked, IsChain
  <1>12. Whole(Initialised, s, <<>>)
    BY <1>2, <1>7, <1>8, <1>10, <1>11 DEF Whole
  <1> QED BY <1>2, <1>4, <1>9, <1>12 DEF s

(* Every block is in the object, in one thread's hand, or gone.            *)
Places(inside, hand, gone) ==
    /\ inside \subseteq Blocks /\ gone \subseteq Blocks /\ inside \cap gone = {}
    /\ \A t \in Threads : hand[t] \in Blocks \cup {Null}
    /\ \A t \in Threads : hand[t] # Null => hand[t] \notin inside \cup gone
    /\ \A t, u \in Threads : hand[t] # Null /\ hand[t] = hand[u] => t = u
    /\ \A b \in Blocks : b \in inside \cup gone \/ \E t \in Threads : hand[t] = b

LEMMA PlacesOut ==
    ASSUME NEW inside, NEW hand, NEW gone, Places(inside, hand, gone),
           NEW t \in Threads, hand[t] = Null, NEW b \in inside,
           NEW new, new[t] = b, \A u \in Threads \ {t} : new[u] = hand[u],
           NEW rest, rest = inside \ {b}
    PROVE  Places(rest, new, gone)
  <1>1. b \in Blocks /\ Null \notin Blocks
    <2>1. Null \notin Blocks
      BY DEF Null, Blocks
    <2> QED BY <2>1 DEF Places
  <1>2. \A u \in Threads \ {t} : hand[u] # b
    BY <1>1 DEF Places
  <1>3. \A c \in Blocks : c \in rest \cup gone \/ \E u \in Threads : new[u] = c
    <2> SUFFICES ASSUME NEW c \in Blocks, c \notin rest \cup gone
                 PROVE  \E u \in Threads : new[u] = c
      OBVIOUS
    <2>1. CASE c = b
      BY <2>1
    <2>2. CASE c # b
      <3>1. PICK u \in Threads : hand[u] = c
        BY <2>2 DEF Places
      <3>2. u # t
        BY <1>1, <3>1
      <3> QED BY <3>1, <3>2
    <2> QED BY <2>1, <2>2
  <1>4. \A u, v \in Threads : new[u] # Null /\ new[u] = new[v] => u = v
    BY <1>2 DEF Places
  <1>5. \A u \in Threads : new[u] # Null => new[u] \notin rest \cup gone
    BY <1>1 DEF Places
  <1>6. \A u \in Threads : new[u] \in Blocks \cup {Null}
    BY <1>1 DEF Places
  <1> QED BY <1>3, <1>4, <1>5, <1>6 DEF Places

LEMMA PlacesIn ==
    ASSUME NEW inside, NEW hand, NEW gone, Places(inside, hand, gone),
           NEW t \in Threads, hand[t] # Null,
           NEW new, new[t] = Null, \A u \in Threads \ {t} : new[u] = hand[u],
           NEW more, more = inside \cup {hand[t]}
    PROVE  Places(more, new, gone)
  <1>1. hand[t] \in Blocks /\ hand[t] \notin inside \cup gone /\ Null \notin Blocks
    BY DEF Places, Null, Blocks
  <1>2. \A u \in Threads \ {t} : hand[u] # hand[t]
    BY DEF Places
  <1>3. \A c \in Blocks : c \in more \cup gone \/ \E u \in Threads : new[u] = c
    <2> SUFFICES ASSUME NEW c \in Blocks, c \notin more \cup gone
                 PROVE  \E u \in Threads : new[u] = c
      OBVIOUS
    <2>1. PICK u \in Threads : hand[u] = c
      BY DEF Places
    <2> QED BY <2>1
  <1>4. \A u, v \in Threads : new[u] # Null /\ new[u] = new[v] => u = v
    BY DEF Places
  <1>5. \A u \in Threads : new[u] # Null => new[u] \notin more \cup gone
    BY <1>2 DEF Places
  <1>6. \A u \in Threads : new[u] \in Blocks \cup {Null}
    BY DEF Places
  <1> QED BY <1>1, <1>3, <1>4, <1>5, <1>6 DEF Places

LEMMA PlacesLost ==
    ASSUME NEW inside, NEW hand, NEW gone, Places(inside, hand, gone),
           NEW t \in Threads,
           NEW new, new[t] = Null, \A u \in Threads \ {t} : new[u] = hand[u],
           NEW more, more = gone \cup ({hand[t]} \ {Null})
    PROVE  Places(inside, new, more)
  <1>1. /\ hand[t] # Null => hand[t] \in Blocks /\ hand[t] \notin inside \cup gone
        /\ Null \notin Blocks
    BY DEF Places, Null, Blocks
  <1>2. \A u \in Threads \ {t} : hand[u] # Null => hand[u] # hand[t]
    BY DEF Places
  <1>3. \A c \in Blocks : c \in inside \cup more \/ \E u \in Threads : new[u] = c
    <2> SUFFICES ASSUME NEW c \in Blocks, c \notin inside \cup more
                 PROVE  \E u \in Threads : new[u] = c
      OBVIOUS
    <2>1. PICK u \in Threads : hand[u] = c
      BY DEF Places
    <2>2. u # t
      BY <1>1, <2>1
    <2> QED BY <2>1, <2>2
  <1>4. \A u, v \in Threads : new[u] # Null /\ new[u] = new[v] => u = v
    BY DEF Places
  <1>5. \A u \in Threads : new[u] # Null => new[u] \notin inside \cup more
    BY <1>2 DEF Places
  <1>6. \A u \in Threads : new[u] \in Blocks \cup {Null}
    BY DEF Places
  <1> QED BY <1>1, <1>3, <1>4, <1>5, <1>6 DEF Places

-----------------------------------------------------------------------------
(* The points at which a thread has a block in its hand. *)
Handling == {"sendCopy", "urgentCopy", "sendLink", "urgentLink", "recvCopy", "recvFree"}

(* block is what a thread at that point has in its hand, message what it     *)
(* expects in it.                                                          *)
HandOK(box, at, block, message) ==
    /\ block # Null <=> at \in Handling
    /\ at = "sendLink" => box.next[block] = Null
    /\ at \in {"sendLink", "urgentLink"} => message \in Messages
    /\ message # NoMessage => block # Null /\ box.data[block] = message

MqTyped ==
    /\ mq \in MqObject
    /\ msg \in [Threads -> Blocks \cup {Null}]
    /\ carried \in [Threads -> Messages \cup {NoMessage}]
    /\ received \in Messages \cup {NoMessage}
    /\ lost \subseteq Blocks

InHand == \A t \in Threads : HandOK(mq, pc[t], msg[t], carried[t])

(* The free blocks and the queue. *)
Holds(f, q) == Whole(mq, f, q) /\ Places(Linked(f) \cup Linked(q), msg, lost)

MqIInv ==
    /\ Queued /\ MqTyped /\ InHand
    /\ \E f, q : /\ Holds(f, q)
                 /\ mq.live => Served("recv", Len(q)) /\ Served("send", Len(f))
    /\ ~mq.live => \A t \in Threads : pc[t] = "run"

(* A step that is not about the block in u's hand. *)
Moves(u) == pc'[u] = pc[u] \/ (pc[u] \notin Handling /\ pc'[u] \notin Handling)

LEMMA HandlingLemma ==
    /\ Handling \subseteq PCs \ Sides /\ "run" \notin Handling
    /\ \A side \in Sides : Again(side) \notin Handling /\ side \notin Handling
  BY SidesLemma DEF Handling, PCs, Sides

(* What the steps of a thread t leave of the others.                         *)
LEMMA OthersMove ==
    ASSUME Queued, NEW t \in Threads
    PROVE  /\ \A next : Goto(t, next) => \A u \in Threads \ {t} : Moves(u)
           /\ \A side \in Sides : ResumeFirst(side, t, "run") =>
                    \A u \in Threads \ {t} : Moves(u)
           /\ \A side, new, ticks : Suspend(t, side, new, ticks) =>
                    \A u \in Threads \ {t} : Moves(u)
           /\ \A side : GivesUp(t, side) => \A u \in Threads \ {t} : Moves(u)
           /\ Leave(t) => \A u \in Threads \ {t} : Moves(u)
           /\ _ipc_list_resume_all => \A u \in Threads : Moves(u)
  <1>1. pc \in [Threads -> PCs \cup {"run"}]
    BY DEF Queued, WaitersTypeOK
  <1>2. ASSUME NEW side \in Sides, ResumeFirst(side, t, "run"), NEW u \in Threads \ {t}
        PROVE  Moves(u)
    <2>1. First(side) \subseteq {v \in Threads : pc[v] = side}
      <3>1. list[side] # <<>> => Head(list[side]) \in Linked(list[side])
        BY EmptyLemma DEF Queued
      <3> QED BY <3>1 DEF First, rt_list_isempty, Queued, WaitersTypeOK
    <2>2. pc'[u] = IF u \in First(side) THEN Again(side) ELSE pc[u]
      BY <1>2 DEF ResumeFirst
    <2> QED BY <2>1, <2>2, HandlingLemma DEF Moves
  <1>3. ASSUME _ipc_list_resume_all, NEW u \in Threads PROVE Moves(u)
    BY <1>3, HandlingLemma DEF _ipc_list_resume_all, Moves
  <1>4. ASSUME NEW next, Goto(t, next), NEW u \in Threads \ {t} PROVE Moves(u)
    BY <1>1, <1>4 DEF Goto, Moves
  <1>5. ASSUME NEW side, NEW new, NEW ticks, Suspend(t, side, new, ticks), NEW u \in Threads \ {t}
        PROVE  Moves(u)
    BY <1>1, <1>5 DEF Suspend, Moves
  <1>6. ASSUME NEW side, GivesUp(t, side), NEW u \in Threads \ {t} PROVE Moves(u)
    BY <1>1, <1>6 DEF GivesUp, Moves
  <1>7. ASSUME Leave(t), NEW u \in Threads \ {t} PROVE Moves(u)
    BY <1>1, <1>7 DEF Leave, Moves
  <1> QED BY <1>2, <1>3, <1>4, <1>5, <1>6, <1>7

LEMMA HandStays ==
    ASSUME NEW box, NEW new, NEW inside, Untouched(box, new, inside),
           NEW at, NEW block, NEW message, HandOK(box, at, block, message),
           block # Null => block \in Blocks \ inside,
           NEW next, next = at \/ (at \notin Handling /\ next \notin Handling)
    PROVE  HandOK(new, next, block, message)
  BY DEF HandOK, Untouched, Handling

(* Enough for MqIInv' after a step of t. *)
LEMMA MqEnough ==
    ASSUME MqIInv, NEW t \in Threads, Queued', MqTyped', mq'.live,
           \A u \in Threads \ {t} : msg'[u] = msg[u] /\ carried'[u] = carried[u] /\ Moves(u),
           HandOK(mq', pc'[t], msg'[t], carried'[t]),
           NEW inside, Untouched(mq, mq', inside),
           \A u \in Threads \ {t} : msg[u] # Null => msg[u] \notin inside,
           NEW f, NEW q, Holds(f, q)',
           ServedNext("recv", Len(q)), ServedNext("send", Len(f))
    PROVE  MqIInv'
  <1>1. ASSUME NEW u \in Threads \ {t} PROVE HandOK(mq', pc'[u], msg'[u], carried'[u])
    <2>1. HandOK(mq, pc[u], msg[u], carried[u])
      BY DEF MqIInv, InHand
    <2>2. msg[u] # Null => msg[u] \in Blocks \ inside
      BY DEF MqIInv, MqTyped
    <2>3. HandOK(mq', pc'[u], msg[u], carried[u])
      BY <2>1, <2>2, HandStays DEF Moves
    <2> QED BY <2>3
  <1>2. InHand'
    BY <1>1 DEF InHand
  <1>3. Served("recv", Len(q))' /\ Served("send", Len(f))'
    BY DEF Served, ServedNext, Resumed, rt_list_isempty
  <1> QED BY <1>2, <1>3 DEF MqIInv

-----------------------------------------------------------------------------
(* The steps, first what they do to the blocks. *)

LEMMA TakeData ==
    ASSUME MqTyped, NEW f, NEW q, Holds(f, q), NEW t \in Threads, msg[t] = Null,
           NEW next, TakeBlock(t, next)
    PROVE  /\ MqTyped' /\ Holds(Tail(f), q)' /\ mq'.live = mq.live
           /\ Untouched(mq, mq', {}) /\ mq'.data = mq.data /\ received' = received
           /\ msg'[t] # Null /\ carried' = carried
           /\ \A u \in Threads \ {t} : msg'[u] = msg[u]
           /\ Len(f) \in Nat \ {0} /\ Len(Tail(f)) = Len(f) - 1
  <1>1. /\ mq \in MqObject /\ mq.free # Null /\ mq' = [mq EXCEPT !.free = mq.next[mq.free]]
        /\ msg' = [msg EXCEPT ![t] = mq.free] /\ msg \in [Threads -> Blocks \cup {Null}]
        /\ carried' = carried /\ received' = received /\ lost' = lost
    BY DEF TakeBlock, MqTyped
  <1>2. Whole(mq, f, q) /\ Places(Linked(f) \cup Linked(q), msg, lost)
    BY DEF Holds
  <1> DEFINE b == mq.free
  <1>3. /\ mq' \in MqObject /\ mq'.live = mq.live /\ b \in Blocks
        /\ Whole(mq', Tail(f), q) /\ Linked(Tail(f)) = Linked(f) \ {b} /\ b \in Linked(f)
        /\ Untouched(mq, mq', {}) /\ Len(Tail(f)) = Len(f) - 1 /\ Len(f) \in Nat \ {0}
    BY <1>1, <1>2, WholeTake
  <1>4. mq'.data = mq.data
    BY <1>1 DEF MqObject
  <1> HIDE DEF b
  <1>5. msg'[t] = b /\ \A u \in Threads \ {t} : msg'[u] = msg[u]
    BY <1>1 DEF b
  <1>6. b \notin Linked(q)
    BY <1>2, <1>3 DEF Whole
  <1>7. b \in Linked(f) \cup Linked(q)
    BY <1>3
  <1>8. Linked(Tail(f)) \cup Linked(q) = (Linked(f) \cup Linked(q)) \ {b}
    BY <1>3, <1>6
  <1>9. Places(Linked(Tail(f)) \cup Linked(q), msg', lost)
    BY <1>2, <1>5, <1>7, <1>8, PlacesOut
  <1>10. MqTyped'
    BY <1>1, <1>3 DEF MqTyped, b
  <1> QED BY <1>1, <1>3, <1>4, <1>5, <1>9, <1>10 DEF Holds, b

LEMMA HeldBlock ==
    ASSUME MqTyped, InHand, NEW f, NEW q, Holds(f, q), NEW t \in Threads, pc[t] \in Handling
    PROVE  /\ msg[t] \in Blocks /\ msg[t] # Null /\ msg[t] \notin Linked(f) \cup Linked(q)
           /\ \A u \in Threads \ {t} : msg[u] # msg[t]
           /\ \A u \in Threads : msg[u] # Null => msg[u] \notin Linked(f) \cup Linked(q)
  <1>1. msg[t] # Null /\ msg[t] \in Blocks \cup {Null}
    BY DEF InHand, HandOK, MqTyped
  <1>2. Places(Linked(f) \cup Linked(q), msg, lost)
    BY DEF Holds
  <1> QED BY <1>1, <1>2 DEF Places

LEMMA CopyData ==
    ASSUME MqTyped, InHand, NEW f, NEW q, Holds(f, q), NEW t \in Threads, NEW m \in Messages,
           CopyIn(t, m)
    PROVE  /\ MqTyped' /\ Holds(f, q)' /\ mq'.live = mq.live /\ received' = received
           /\ Untouched(mq, mq', {msg[t]}) /\ mq'.data[msg[t]] = m
           /\ pc[t] = "sendCopy" => mq'.next[msg[t]] = Null
           /\ msg' = msg /\ carried'[t] = m
           /\ \A u \in Threads \ {t} : carried'[u] = carried[u]
           /\ \A b \in Linked(q) : mq'.data[b] = mq.data[b]
  <1> DEFINE b == msg[t]
             v == IF pc[t] = "sendCopy" THEN Null ELSE mq.next[b]
  <1>0. pc[t] \in Handling
    BY DEF CopyIn, Handling
  <1>1. /\ mq \in MqObject /\ msg' = msg /\ received' = received /\ lost' = lost
        /\ carried' = [carried EXCEPT ![t] = m]
        /\ mq' = Copied(mq, b, v, m)
    BY DEF CopyIn, MqTyped, MqObject, Copied
  <1>2. Whole(mq, f, q) /\ Places(Linked(f) \cup Linked(q), msg, lost)
    BY DEF Holds
  <1>3. b \in Blocks /\ b \notin Linked(f) \cup Linked(q)
    BY <1>0, HeldBlock
  <1>4. v \in Blocks \cup {Null}
    BY <1>1, <1>3, WholeFacts
  <1>5. /\ mq' \in MqObject /\ mq'.live = mq.live /\ Whole(mq', f, q)
        /\ mq'.next[b] = v /\ mq'.data[b] = m /\ Untouched(mq, mq', {b})
    <2> HIDE DEF b, v
    <2> QED BY <1>1, <1>2, <1>3, <1>4, WholeCopy
  <1>6. carried' \in [Threads -> Messages \cup {NoMessage}] /\ carried'[t] = m
        /\ \A u \in Threads \ {t} : carried'[u] = carried[u]
    BY <1>1 DEF MqTyped
  <1>7. MqTyped'
    BY <1>1, <1>5, <1>6 DEF MqTyped
  <1>8. \A c \in Linked(q) : c \in Blocks \ {b}
    BY <1>2, <1>3, EmptyLemma DEF Whole
  <1>9. Holds(f, q)'
    BY <1>1, <1>2, <1>5 DEF Holds
  <1> QED BY <1>1, <1>5, <1>6, <1>7, <1>8, <1>9 DEF Untouched

(* t puts the block in its hand into the object. *)
LEMMA DropData ==
    ASSUME MqTyped, NEW inside, Places(inside, msg, lost), NEW t \in Threads, msg[t] # Null,
           DropBlock(t), lost' = lost, NEW more, more = inside \cup {msg[t]}
    PROVE  /\ Places(more, msg', lost')
           /\ msg' \in [Threads -> Blocks \cup {Null}]
           /\ carried' \in [Threads -> Messages \cup {NoMessage}]
           /\ msg'[t] = Null /\ carried'[t] = NoMessage
           /\ \A u \in Threads \ {t} : msg'[u] = msg[u] /\ carried'[u] = carried[u]
  <1>1. /\ msg' = [msg EXCEPT ![t] = Null] /\ carried' = [carried EXCEPT ![t] = NoMessage]
        /\ msg \in [Threads -> Blocks \cup {Null}]
        /\ carried \in [Threads -> Messages \cup {NoMessage}]
    BY DEF DropBlock, MqTyped
  <1>2. /\ msg'[t] = Null /\ carried'[t] = NoMessage
        /\ \A u \in Threads \ {t} : msg'[u] = msg[u] /\ carried'[u] = carried[u]
        /\ msg' \in [Threads -> Blocks \cup {Null}]
        /\ carried' \in [Threads -> Messages \cup {NoMessage}]
    BY <1>1
  <1>3. Places(more, msg', lost)
    BY <1>2, PlacesIn
  <1> QED BY <1>2, <1>3

LEMMA LinkData ==
    ASSUME MqTyped, InHand, NEW f, NEW q, Holds(f, q), NEW t \in Threads,
           LinkLast(t) \/ LinkFirst(t),
           NEW r, r = IF pc[t] = "sendLink" THEN Append(q, msg[t])
                      ELSE rt_list_insert_after(q, msg[t])
    PROVE  /\ MqTyped' /\ Holds(f, r)' /\ mq'.live = mq.live /\ received' = received
           /\ mq'.data = mq.data /\ carried[t] \in Messages /\ mq.data[msg[t]] = carried[t]
           /\ Untouched(mq, mq', Linked(q) \cup {msg[t]})
           /\ msg'[t] = Null /\ carried'[t] = NoMessage
           /\ \A u \in Threads \ {t} : msg'[u] = msg[u] /\ carried'[u] = carried[u]
           /\ Len(r) = Len(q) + 1 /\ Len(q) \in Nat /\ Len(q) < MaxMsgs
  <1> DEFINE b == msg[t]
  <1>0. /\ pc[t] \in {"sendLink", "urgentLink"} /\ pc[t] \in Handling
        /\ LinkLast(t) => pc[t] = "sendLink"
        /\ LinkFirst(t) => pc[t] = "urgentLink"
    BY DEF LinkLast, LinkFirst, Handling
  <1>1. /\ mq \in MqObject /\ received' = received /\ lost' = lost /\ DropBlock(t)
    BY DEF LinkLast, LinkFirst, MqTyped
  <1>2. Whole(mq, f, q) /\ Places(Linked(f) \cup Linked(q), msg, lost)
    BY DEF Holds
  <1>3. b \in Blocks /\ b # Null /\ b \notin Linked(f) \cup Linked(q)
    BY <1>0, HeldBlock
  <1>4. /\ carried[t] \in Messages /\ mq.data[b] = carried[t]
        /\ pc[t] = "sendLink" => mq.next[b] = Null
    BY <1>0, MqMessagesAssumption DEF InHand, HandOK
  <1>5. /\ q \in Seq(Blocks) /\ NoDup(q) /\ b \notin Linked(q)
    BY <1>2, <1>3 DEF Whole
  <1>6. r \in Seq(Blocks) /\ NoDup(r) /\ Linked(r) = Linked(q) \cup {b} /\ Len(r) = Len(q) + 1
    <2>1. CASE pc[t] = "sendLink"
      BY <1>3, <1>5, <2>1, AppendLemma
    <2>2. CASE pc[t] # "sendLink"
      BY <1>3, <1>5, <2>2, PushLemma
    <2> QED BY <2>1, <2>2
  <1>7. /\ mq' \in MqObject /\ mq'.live = mq.live /\ Whole(mq', f, r)
        /\ Untouched(mq, mq', Linked(q) \cup {b}) /\ mq'.data = mq.data
    <2>1. CASE LinkLast(t)
      <3>1. /\ r = Append(q, b)
            /\ mq' = AddedLast(mq, b)
        BY <1>0, <2>1 DEF LinkLast, AddedLast
      <3>2. /\ mq' \in MqObject /\ mq'.live = mq.live /\ Whole(mq', f, Append(q, b))
            /\ Untouched(mq, mq', Linked(q)) /\ mq'.data = mq.data
        <4>1. mq.next[b] = Null /\ mq.data[b] \in Messages
          BY <1>0, <1>4, <2>1
        <4> HIDE DEF b
        <4> QED BY <1>1, <1>2, <1>3, <3>1, <4>1, WholeLast
      <3> QED BY <3>1, <3>2 DEF Untouched
    <2>2. CASE LinkFirst(t)
      <3>1. /\ r = rt_list_insert_after(q, b)
            /\ mq' = AddedFirst(mq, b)
        BY <1>0, <1>1, <2>2 DEF LinkFirst, AddedFirst, MqObject
      <3>2. /\ mq' \in MqObject /\ mq'.live = mq.live
            /\ Whole(mq', f, rt_list_insert_after(q, b))
            /\ Untouched(mq, mq', {b}) /\ mq'.data = mq.data
        <4>1. mq.data[b] \in Messages
          BY <1>4
        <4> HIDE DEF b
        <4> QED BY <1>1, <1>2, <1>3, <3>1, <4>1, WholeFirst
      <3> QED BY <3>1, <3>2 DEF Untouched
    <2> QED BY <2>1, <2>2
  <1>8. Len(q) \in Nat /\ Len(q) < MaxMsgs
    <2>1. Len(r) \in 0 .. MaxMsgs
      BY <1>6, EntryLemma
    <2>2. Len(q) \in Nat
      BY <1>5
    <2> QED BY <1>6, <2>1, <2>2, MqMaxMsgsAssumption
  <1>9. Linked(f) \cup Linked(r) = (Linked(f) \cup Linked(q)) \cup {b}
    BY <1>6
  <1> HIDE DEF b
  <1>10. /\ Places(Linked(f) \cup Linked(r), msg', lost')
         /\ msg' \in [Threads -> Blocks \cup {Null}]
         /\ carried' \in [Threads -> Messages \cup {NoMessage}]
         /\ msg'[t] = Null /\ carried'[t] = NoMessage
         /\ \A u \in Threads \ {t} : msg'[u] = msg[u] /\ carried'[u] = carried[u]
    BY <1>1, <1>2, <1>3, <1>9, DropData DEF b
  <1>11. MqTyped'
    BY <1>1, <1>7, <1>10 DEF MqTyped
  <1>12. Holds(f, r)'
    BY <1>7, <1>10 DEF Holds
  <1> QED BY <1>1, <1>4, <1>6, <1>7, <1>8, <1>10, <1>11, <1>12 DEF b

LEMMA RecvData ==
    ASSUME MqTyped, NEW f, NEW q, Holds(f, q), NEW t \in Threads, msg[t] = Null, rt_mq_recv(t)
    PROVE  /\ MqTyped' /\ Holds(f, Tail(q))' /\ mq'.live = mq.live
           /\ Untouched(mq, mq', {}) /\ mq'.data = mq.data
           /\ q # <<>> /\ received' = mq.data[Head(q)]
           /\ msg'[t] # Null /\ carried'[t] = mq.data[msg'[t]]
           /\ \A u \in Threads \ {t} : msg'[u] = msg[u] /\ carried'[u] = carried[u]
           /\ Len(q) \in Nat \ {0} /\ Len(Tail(q)) = Len(q) - 1
  <1> DEFINE b == mq.head
  <1>1. /\ mq \in MqObject /\ mq.entry # 0 /\ mq' = Shortened(mq)
        /\ msg' = [msg EXCEPT ![t] = b] /\ carried' = [carried EXCEPT ![t] = mq.data[b]]
        /\ received' = mq.data[b] /\ lost' = lost
        /\ msg \in [Threads -> Blocks \cup {Null}]
        /\ carried \in [Threads -> Messages \cup {NoMessage}]
    BY DEF rt_mq_recv, MqTyped, Unlinked, Shortened
  <1>2. Whole(mq, f, q) /\ Places(Linked(f) \cup Linked(q), msg, lost)
    BY DEF Holds
  <1> HIDE DEF b
  <1>3. /\ mq' \in MqObject /\ mq'.live = mq.live /\ Whole(mq', f, Tail(q))
        /\ q # <<>> /\ b = Head(q) /\ b \in Blocks /\ b \in Linked(q)
        /\ Linked(Tail(q)) = Linked(q) \ {b}
        /\ Len(Tail(q)) = Len(q) - 1 /\ Len(q) \in Nat \ {0}
        /\ Untouched(mq, mq', {}) /\ mq'.data = mq.data /\ mq.data[b] \in Messages
    BY <1>1, <1>2, WholeRecv DEF b
  <1>4. /\ msg'[t] = b /\ carried'[t] = mq.data[b] /\ Null \notin Blocks
        /\ \A u \in Threads \ {t} : msg'[u] = msg[u] /\ carried'[u] = carried[u]
        /\ msg' \in [Threads -> Blocks \cup {Null}]
        /\ carried' \in [Threads -> Messages \cup {NoMessage}]
    <2>1. Null \notin Blocks
      BY DEF Null, Blocks
    <2> QED BY <1>1, <1>3, <2>1
  <1>5. b \notin Linked(f)
    BY <1>2, <1>3 DEF Whole
  <1>6. b \in Linked(f) \cup Linked(q)
    BY <1>3
  <1>7. Linked(f) \cup Linked(Tail(q)) = (Linked(f) \cup Linked(q)) \ {b}
    BY <1>3, <1>5
  <1>8. Places(Linked(f) \cup Linked(Tail(q)), msg', lost)
    BY <1>2, <1>4, <1>6, <1>7, PlacesOut
  <1>9. MqTyped'
    BY <1>1, <1>3, <1>4 DEF MqTyped
  <1>10. Holds(f, Tail(q))'
    BY <1>1, <1>3, <1>8 DEF Holds
  <1> QED BY <1>1, <1>3, <1>4, <1>9, <1>10

LEMMA FreeData ==
    ASSUME MqTyped, InHand, NEW f, NEW q, Holds(f, q), NEW t \in Threads, FreeBlock(t),
           NEW r, r = rt_list_insert_after(f, msg[t])
    PROVE  /\ MqTyped' /\ Holds(r, q)' /\ mq'.live = mq.live /\ received' = received
           /\ mq'.data = mq.data /\ Untouched(mq, mq', {msg[t]})
           /\ msg'[t] = Null /\ carried'[t] = NoMessage
           /\ \A u \in Threads \ {t} : msg'[u] = msg[u] /\ carried'[u] = carried[u]
           /\ Len(r) = Len(f) + 1 /\ Len(f) \in Nat
  <1> DEFINE b == msg[t]
  <1>0. pc[t] \in Handling
    BY DEF FreeBlock, Handling
  <1>1. /\ mq \in MqObject /\ received' = received /\ lost' = lost /\ DropBlock(t)
        /\ mq' = Freed(mq, b)
    BY DEF FreeBlock, MqTyped, MqObject, Freed
  <1>2. Whole(mq, f, q) /\ Places(Linked(f) \cup Linked(q), msg, lost)
    BY DEF Holds
  <1>3. b \in Blocks /\ b # Null /\ b \notin Linked(f) \cup Linked(q)
    BY <1>0, HeldBlock
  <1> HIDE DEF b
  <1>4. /\ mq' \in MqObject /\ mq'.live = mq.live
        /\ Whole(mq', rt_list_insert_after(f, b), q)
        /\ Untouched(mq, mq', {b}) /\ mq'.data = mq.data
        /\ Linked(rt_list_insert_after(f, b)) = Linked(f) \cup {b}
        /\ Len(rt_list_insert_after(f, b)) = Len(f) + 1 /\ Len(f) \in Nat
    BY <1>1, <1>2, <1>3, WholeFree
  <1>5. r = rt_list_insert_after(f, b)
    BY DEF b
  <1>6. Linked(r) \cup Linked(q) = (Linked(f) \cup Linked(q)) \cup {b}
    BY <1>4, <1>5
  <1>7. /\ Places(Linked(r) \cup Linked(q), msg', lost')
        /\ msg' \in [Threads -> Blocks \cup {Null}]
        /\ carried' \in [Threads -> Messages \cup {NoMessage}]
        /\ msg'[t] = Null /\ carried'[t] = NoMessage
        /\ \A u \in Threads \ {t} : msg'[u] = msg[u] /\ carried'[u] = carried[u]
    BY <1>1, <1>2, <1>3, <1>6, DropData DEF b
  <1>8. MqTyped'
    BY <1>1, <1>4, <1>7 DEF MqTyped
  <1>9. Holds(r, q)'
    BY <1>4, <1>5, <1>7 DEF Holds
  <1> QED BY <1>1, <1>4, <1>5, <1>7, <1>8, <1>9 DEF b

-----------------------------------------------------------------------------
(* ... then what they do to the waiters. *)

(* t goes on or is out of the call, having found what it came for or not.    *)
LEMMA GoesStep ==
    ASSUME Queued, NEW t \in Threads, pc[t] \notin Sides,
           NEW next \in (PCs \cup {"run"}) \ Sides, Goto(t, next)
    PROVE  /\ Queued' /\ pc'[t] = next
           /\ \A side \in Sides : /\ list'[side] = list[side]
                                  /\ Resumed(side) \ {t} \subseteq Resumed(side)'
                                  /\ pc[t] # Again(side) => Resumed(side) \subseteq Resumed(side)'
           /\ forgot => forgot'
  <1>1. /\ UNCHANGED <<list, forgot>> /\ pc' = [pc EXCEPT ![t] = next]
        /\ timed' = [timed EXCEPT ![t] = FALSE] /\ DOMAIN list' = Sides
    BY DEF Goto, Queued, WaitersTypeOK
  <1>2. pc'[t] = next
    BY <1>1 DEF Queued, WaitersTypeOK
  <1>3. /\ Queued'
        /\ \A side \in Sides : Resumed(side) \ {t} \subseteq Resumed(side)'
        /\ \A side \in Sides : pc[t] # Again(side) => Resumed(side) \subseteq Resumed(side)'
    BY <1>1, MoveLemma
  <1> QED BY <1>1, <1>2, <1>3

(* Both sides are served when t takes one thing that is for side.           *)
LEMMA GoesServed ==
    ASSUME Queued, NEW t \in Threads, NEW side \in Sides, NEW other \in Sides \ {side},
           Tests(t, side), NEW next \in (PCs \cup {"run"}) \ Sides, Goto(t, next),
           NEW n \in Nat, n > 0, NEW m \in Nat, Served(side, n), Served(other, m)
    PROVE  Queued' /\ pc'[t] = next /\ ServedNext(side, n - 1) /\ ServedNext(other, m)
  <1>1. pc[t] \notin Sides /\ pc[t] # Again(other)
    BY SidesLemma DEF Tests
  <1>2. /\ Queued' /\ pc'[t] = next
        /\ \A s \in Sides : /\ list'[s] = list[s]
                            /\ Resumed(s) \ {t} \subseteq Resumed(s)'
                            /\ pc[t] # Again(s) => Resumed(s) \subseteq Resumed(s)'
        /\ forgot => forgot'
    BY <1>1, GoesStep
  <1>3. ServedNext(side, n - 1)
    BY <1>2, ServedTakes
  <1>4. ServedNext(other, m)
    BY <1>1, <1>2, ServedStays
  <1> QED BY <1>2, <1>3, <1>4

(* ... and when t, on its way out, adds a thing for side. *)
LEMMA AddsServed ==
    ASSUME Queued, NEW t \in Threads, NEW side \in Sides, NEW other \in Sides \ {side},
           pc[t] \in Handling, ResumeFirst(side, t, "run"),
           NEW n \in Nat, NEW m \in Nat, Served(side, n), Served(other, m)
    PROVE  Queued' /\ pc'[t] = "run" /\ ServedNext(side, n + 1) /\ ServedNext(other, m)
  <1>1. /\ pc[t] \notin Sides /\ pc[t] # Again(side) /\ pc[t] # Again(other)
        /\ "run" \in (PCs \cup {"run"}) \ Sides
    BY HandlingLemma, SidesLemma
  <1>2. /\ Queued' /\ UNCHANGED forgot /\ list'[other] = list[other]
        /\ Resumed(other) \subseteq Resumed(other)'
    BY <1>1, ResumeFirstLemma
  <1>3. ServedNext(side, n + 1)
    BY <1>1, ServedResumes
  <1>4. ServedNext(other, m)
    BY <1>2, ServedStays
  <1>5. pc'[t] = "run"
    <2>1. t \notin First(side)
      <3>1. list[side] # <<>> => Head(list[side]) \in Linked(list[side])
        BY EmptyLemma DEF Queued
      <3> QED BY <1>1, <3>1 DEF First, rt_list_isempty, Queued, WaitersTypeOK
    <2> QED BY <2>1 DEF ResumeFirst
  <1> QED BY <1>2, <1>3, <1>4, <1>5

-----------------------------------------------------------------------------
(* ... and both together. *)

LEMMA MqHolds ==
    ASSUME MqIInv, mq.live
    PROVE  \E f, q : /\ Holds(f, q) /\ Len(f) \in Nat /\ Len(q) \in Nat
                     /\ Served("recv", Len(q)) /\ Served("send", Len(f))
  <1>1. PICK f, q : /\ Holds(f, q) /\ Served("recv", Len(q)) /\ Served("send", Len(f))
    BY DEF MqIInv
  <1>2. Len(f) \in Nat /\ Len(q) \in Nat
    BY <1>1 DEF Holds, Whole
  <1> QED BY <1>1, <1>2

(* Who has no block in his hand expects nothing in it; nobody is inside a    *)
(* call about an object that is gone.                                      *)
LEMMA MqHand ==
    ASSUME MqIInv, NEW t \in Threads
    PROVE  /\ pc[t] \notin Handling => msg[t] = Null /\ carried[t] = NoMessage
           /\ pc[t] # "run" => mq.live
           /\ HandOK(mq, pc[t], msg[t], carried[t])
  BY DEF MqIInv, InHand, HandOK

LEMMA MqTakeStep ==
    ASSUME MqIInv, NEW t \in Threads, rt_mq_send_wait(t) \/ rt_mq_urgent(t)
    PROVE  MqIInv'
  <1>1. Queued /\ MqTyped /\ InHand
    BY DEF MqIInv
  <1>2. PICK next \in {"sendCopy", "urgentCopy"} :
            TakeBlock(t, next) /\ Tests(t, "send") /\ mq.live /\ Goto(t, next)
    BY DEF rt_mq_send_wait, rt_mq_urgent, TakeBlock, Tests
  <1>3. /\ pc[t] \notin Handling /\ next \in Handling /\ next \notin {"sendLink", "urgentLink"}
        /\ "send" \in Sides /\ "recv" \in Sides \ {"send"}
        /\ next \in (PCs \cup {"run"}) \ Sides
    BY <1>2, SidesLemma, HandlingLemma DEF Tests, Handling
  <1>4. PICK f, q : /\ Holds(f, q) /\ Len(f) \in Nat /\ Len(q) \in Nat
                    /\ Served("recv", Len(q)) /\ Served("send", Len(f))
    BY <1>2, MqHolds
  <1>5. mq.live /\ msg[t] = Null
    BY <1>2, <1>3, MqHand
  <1>6. /\ MqTyped' /\ Holds(Tail(f), q)' /\ mq'.live /\ Untouched(mq, mq', {})
        /\ msg'[t] # Null /\ carried' = carried
        /\ \A u \in Threads \ {t} : msg'[u] = msg[u]
        /\ Len(f) \in Nat \ {0} /\ Len(Tail(f)) = Len(f) - 1
    BY <1>1, <1>2, <1>3, <1>4, <1>5, TakeData
  <1>7. Len(f) > 0
    BY <1>4, <1>6
  <1>8. Queued' /\ pc'[t] = next /\ ServedNext("send", Len(f) - 1) /\ ServedNext("recv", Len(q))
    BY <1>1, <1>2, <1>3, <1>4, <1>6, <1>7, GoesServed
  <1>9. HandOK(mq', pc'[t], msg'[t], carried'[t])
    BY <1>3, <1>6, <1>8, MqHand DEF HandOK
  <1>10. \A u \in Threads \ {t} : Moves(u)
    BY <1>2, OthersMove DEF MqIInv
  <1> QED BY <1>4, <1>6, <1>8, <1>9, <1>10, MqEnough DEF MqIInv

LEMMA MqCopyStep ==
    ASSUME MqIInv, NEW t \in Threads, NEW m \in Messages, CopyIn(t, m)
    PROVE  MqIInv'
  <1>1. Queued /\ MqTyped /\ InHand
    BY DEF MqIInv
  <1> DEFINE next == IF pc[t] = "sendCopy" THEN "sendLink" ELSE "urgentLink"
  <1>2. /\ pc[t] \in {"sendCopy", "urgentCopy"} /\ Goto(t, next)
    BY DEF CopyIn
  <1>3. /\ pc[t] \in Handling /\ pc[t] \notin Sides /\ pc[t] # "run"
        /\ next \in Handling /\ next \in (PCs \cup {"run"}) \ Sides
        /\ pc[t] # Again("send") /\ pc[t] # Again("recv")
        /\ "send" \in Sides /\ "recv" \in Sides
        /\ next = "sendLink" => pc[t] = "sendCopy"
    BY <1>2, SidesLemma, HandlingLemma DEF Handling
  <1> HIDE DEF next
  <1>4. PICK f, q : /\ Holds(f, q) /\ Len(f) \in Nat /\ Len(q) \in Nat
                    /\ Served("recv", Len(q)) /\ Served("send", Len(f))
    BY <1>3, MqHand, MqHolds
  <1>5. mq.live
    BY <1>2, <1>3, MqHand
  <1>6. /\ MqTyped' /\ Holds(f, q)' /\ mq'.live /\ Untouched(mq, mq', {msg[t]})
        /\ mq'.data[msg[t]] = m
        /\ pc[t] = "sendCopy" => mq'.next[msg[t]] = Null
        /\ msg' = msg /\ carried'[t] = m
        /\ \A u \in Threads \ {t} : carried'[u] = carried[u]
    BY <1>1, <1>3, <1>4, <1>5, CopyData
  <1>7. /\ msg[t] # Null /\ \A u \in Threads \ {t} : msg[u] # msg[t]
    BY <1>3, <1>4, HeldBlock DEF MqIInv
  <1>8. /\ Queued' /\ pc'[t] = next
        /\ \A side \in Sides : list'[side] = list[side]
        /\ \A side \in Sides : pc[t] # Again(side) => Resumed(side) \subseteq Resumed(side)'
        /\ forgot => forgot'
    BY <1>2, <1>3, GoesStep DEF MqIInv
  <1>9. ServedNext("recv", Len(q)) /\ ServedNext("send", Len(f))
    BY <1>3, <1>4, <1>8, ServedStays
  <1>10. HandOK(mq', pc'[t], msg'[t], carried'[t])
    BY <1>2, <1>3, <1>6, <1>7, <1>8 DEF HandOK
  <1>11. \A u \in Threads \ {t} : Moves(u)
    BY <1>2, OthersMove DEF MqIInv
  <1>12. \A u \in Threads \ {t} : msg[u] # Null => msg[u] \notin {msg[t]}
    BY <1>7
  <1>13. \A u \in Threads \ {t} : msg'[u] = msg[u] /\ carried'[u] = carried[u] /\ Moves(u)
    BY <1>6, <1>11
  <1> QED BY <1>6, <1>8, <1>9, <1>10, <1>12, <1>13, MqEnough

LEMMA MqLinkStep ==
    ASSUME MqIInv, NEW t \in Threads, LinkLast(t) \/ LinkFirst(t)
    PROVE  MqIInv'
  <1>1. Queued /\ MqTyped /\ InHand
    BY DEF MqIInv
  <1>2. /\ pc[t] \in Handling /\ pc[t] # "run" /\ ResumeFirst("recv", t, "run")
        /\ "recv" \in Sides /\ "send" \in Sides \ {"recv"} /\ "run" \notin Handling
    BY SidesLemma DEF LinkLast, LinkFirst, Handling
  <1>3. PICK f, q : /\ Holds(f, q) /\ Len(f) \in Nat /\ Len(q) \in Nat
                    /\ Served("recv", Len(q)) /\ Served("send", Len(f))
    BY <1>2, MqHand, MqHolds
  <1>4. PICK r : r = IF pc[t] = "sendLink" THEN Append(q, msg[t])
                     ELSE rt_list_insert_after(q, msg[t])
    OBVIOUS
  <1>5. mq.live
    BY <1>2, <1>3, MqHand
  <1>6. /\ MqTyped' /\ Holds(f, r)' /\ mq'.live
        /\ Untouched(mq, mq', Linked(q) \cup {msg[t]})
        /\ msg'[t] = Null /\ carried'[t] = NoMessage
        /\ \A u \in Threads \ {t} : msg'[u] = msg[u] /\ carried'[u] = carried[u]
        /\ Len(r) = Len(q) + 1
    BY <1>1, <1>2, <1>3, <1>4, <1>5, LinkData, ZenonT(60)
  <1>7. Queued' /\ pc'[t] = "run" /\ ServedNext("recv", Len(q) + 1) /\ ServedNext("send", Len(f))
    BY <1>2, <1>3, AddsServed DEF MqIInv
  <1>8. HandOK(mq', pc'[t], msg'[t], carried'[t])
    BY <1>2, <1>6, <1>7 DEF HandOK, Handling
  <1>9. \A u \in Threads \ {t} : msg[u] # Null => msg[u] \notin Linked(q) \cup {msg[t]}
    BY <1>2, <1>3, HeldBlock DEF MqIInv
  <1>10. \A u \in Threads \ {t} : msg'[u] = msg[u] /\ carried'[u] = carried[u] /\ Moves(u)
    BY <1>2, <1>6, OthersMove DEF MqIInv
  <1> QED BY <1>6, <1>7, <1>8, <1>9, <1>10, MqEnough

LEMMA MqRecvStep ==
    ASSUME MqIInv, NEW t \in Threads, rt_mq_recv(t)
    PROVE  MqIInv'
  <1>1. Queued /\ MqTyped /\ InHand
    BY DEF MqIInv
  <1>2. Tests(t, "recv") /\ mq.live /\ Goto(t, "recvCopy")
    BY DEF rt_mq_recv
  <1>3. /\ pc[t] \notin Handling /\ "recvCopy" \in Handling
        /\ "recv" \in Sides /\ "send" \in Sides \ {"recv"}
        /\ "recvCopy" \in (PCs \cup {"run"}) \ Sides
    BY <1>2, SidesLemma, HandlingLemma DEF Tests, Handling
  <1>4. PICK f, q : /\ Holds(f, q) /\ Len(f) \in Nat /\ Len(q) \in Nat
                    /\ Served("recv", Len(q)) /\ Served("send", Len(f))
    BY <1>2, MqHolds
  <1>5. mq.live /\ msg[t] = Null
    BY <1>2, <1>3, MqHand
  <1>6. /\ MqTyped' /\ Holds(f, Tail(q))' /\ mq'.live /\ Untouched(mq, mq', {})
        /\ mq'.data = mq.data /\ msg'[t] # Null /\ carried'[t] = mq.data[msg'[t]]
        /\ \A u \in Threads \ {t} : msg'[u] = msg[u] /\ carried'[u] = carried[u]
        /\ Len(q) \in Nat \ {0} /\ Len(Tail(q)) = Len(q) - 1
    BY <1>1, <1>2, <1>3, <1>4, <1>5, RecvData
  <1>7. Len(q) > 0
    BY <1>4, <1>6
  <1>8. Queued' /\ pc'[t] = "recvCopy" /\ ServedNext("recv", Len(q) - 1) /\ ServedNext("send", Len(f))
    BY <1>1, <1>2, <1>3, <1>4, <1>6, <1>7, GoesServed
  <1>9. HandOK(mq', pc'[t], msg'[t], carried'[t])
    BY <1>3, <1>6, <1>8 DEF HandOK
  <1>10. \A u \in Threads \ {t} : msg'[u] = msg[u] /\ carried'[u] = carried[u] /\ Moves(u)
    BY <1>2, <1>6, OthersMove DEF MqIInv
  <1> QED BY <1>6, <1>8, <1>9, <1>10, MqEnough

LEMMA MqFreeStep ==
    ASSUME MqIInv, NEW t \in Threads, FreeBlock(t)
    PROVE  MqIInv'
  <1>1. Queued /\ MqTyped /\ InHand
    BY DEF MqIInv
  <1>2. /\ pc[t] \in Handling /\ pc[t] # "run" /\ ResumeFirst("send", t, "run")
        /\ "send" \in Sides /\ "recv" \in Sides \ {"send"} /\ "run" \notin Handling
    BY SidesLemma DEF FreeBlock, Handling
  <1>3. PICK f, q : /\ Holds(f, q) /\ Len(f) \in Nat /\ Len(q) \in Nat
                    /\ Served("recv", Len(q)) /\ Served("send", Len(f))
    BY <1>2, MqHand, MqHolds
  <1>4. PICK r : r = rt_list_insert_after(f, msg[t])
    OBVIOUS
  <1>5. mq.live
    BY <1>2, <1>3, MqHand
  <1>6. /\ MqTyped' /\ Holds(r, q)' /\ mq'.live /\ Untouched(mq, mq', {msg[t]})
        /\ msg'[t] = Null /\ carried'[t] = NoMessage
        /\ \A u \in Threads \ {t} : msg'[u] = msg[u] /\ carried'[u] = carried[u]
        /\ Len(r) = Len(f) + 1
    BY <1>1, <1>2, <1>3, <1>4, <1>5, FreeData
  <1>7. Queued' /\ pc'[t] = "run" /\ ServedNext("send", Len(f) + 1) /\ ServedNext("recv", Len(q))
    BY <1>2, <1>3, AddsServed DEF MqIInv
  <1>8. HandOK(mq', pc'[t], msg'[t], carried'[t])
    BY <1>2, <1>6, <1>7 DEF HandOK, Handling
  <1>9. \A u \in Threads \ {t} : msg[u] # Null => msg[u] \notin {msg[t]}
    BY <1>2, <1>3, HeldBlock DEF MqIInv
  <1>10. \A u \in Threads \ {t} : msg'[u] = msg[u] /\ carried'[u] = carried[u] /\ Moves(u)
    BY <1>2, <1>6, OthersMove DEF MqIInv
  <1> QED BY <1>6, <1>7, <1>8, <1>9, <1>10, MqEnough

(* The object and what is in the hands are left alone. *)
LEMMA MqAlone ==
    ASSUME MqIInv, NEW t \in Threads, mq.live, UNCHANGED mqVars, Queued',
           HandOK(mq, pc'[t], msg[t], carried[t]), \A u \in Threads \ {t} : Moves(u),
           NEW f, NEW q, Holds(f, q), ServedNext("recv", Len(q)), ServedNext("send", Len(f))
    PROVE  MqIInv'
  <1>1. UNCHANGED <<mq, msg, carried, received, lost>>
    BY DEF mqVars
  <1>2. MqTyped'
    BY <1>1 DEF MqIInv, MqTyped
  <1>3. Holds(f, q)'
    BY <1>1 DEF Holds
  <1>4. Untouched(mq, mq', {})
    BY <1>1 DEF Untouched
  <1>5. HandOK(mq', pc'[t], msg'[t], carried'[t]) /\ mq'.live
    BY <1>1
  <1>6. \A u \in Threads \ {t} : msg'[u] = msg[u] /\ carried'[u] = carried[u] /\ Moves(u)
    BY <1>1
  <1> QED BY <1>2, <1>3, <1>4, <1>5, <1>6, MqEnough

(* t waits, and there is nothing for it. *)
LEMMA MqSuspendStep ==
    ASSUME MqIInv, NEW t \in Threads, NEW ticks \in BOOLEAN,
           MqSendSuspends(t, ticks) \/ MqRecvSuspends(t, ticks)
    PROVE  MqIInv'
  <1>1. PICK side \in Sides, other \in Sides :
            /\ other # side /\ Tests(t, side) /\ mq.live /\ UNCHANGED mqVars
            /\ Suspend(t, side, _ipc_list_suspend(list[side], t, Flag, Prio), ticks)
            /\ side = "recv" => mq.entry = 0
            /\ side = "send" => mq.free = Null
    BY SidesLemma DEF MqSendSuspends, MqRecvSuspends
  <1>2. PICK f, q : /\ Holds(f, q) /\ Len(f) \in Nat /\ Len(q) \in Nat
                    /\ Served("recv", Len(q)) /\ Served("send", Len(f))
    BY <1>1, MqHolds
  <1>3. PICK new : new = _ipc_list_suspend(list[side], t, Flag, Prio)
    OBVIOUS
  <1>4. list[side] \in Seq(Threads) /\ NoDup(list[side])
    BY <1>1 DEF MqIInv, Queued, WaitersTypeOK
  <1>5. /\ new \in Seq(Threads) /\ Linked(new) = Linked(list[side]) \cup {t}
        /\ t \notin Linked(list[side]) => NoDup(new)
    BY <1>3, <1>4, SuspendLemma, WaitersPrioAssumption
  <1>6. Suspend(t, side, new, ticks) /\ Queued
    BY <1>1, <1>3 DEF MqIInv
  <1>7. /\ Queued' /\ UNCHANGED forgot /\ pc' = [pc EXCEPT ![t] = side]
        /\ list'[other] = list[other] /\ Resumed(other) \subseteq Resumed(other)'
    BY <1>1, <1>5, <1>6, JoinLemma
  <1>8. side = "recv" => Len(q) = 0
    BY <1>1, <1>2 DEF Holds, Whole
  <1>9. side = "send" => Len(f) = 0
    <2> SUFFICES ASSUME side = "send", f # <<>> PROVE FALSE
      BY <1>2
    <2>1. /\ f \in Seq(Blocks) /\ NoDup(f) /\ IsChain(mq.next, mq.free, f)
          /\ mq.next \in [Blocks -> Blocks \cup {Null}] /\ Null \notin Blocks
      BY <1>2, WholeFacts DEF Holds, Whole, MqIInv, MqTyped
    <2>2. mq.free \in Blocks
      BY <2>1, ChainRestLemma
    <2> QED BY <1>1, <2>1, <2>2
  <1>10. ServedNext("recv", Len(q)) /\ ServedNext("send", Len(f))
    <2>1. CASE side = "recv"
      <3>1. other = "send"
        BY <1>1, <2>1, SidesLemma
      <3> QED BY <1>2, <1>7, <1>8, <2>1, <3>1, NothingThere, ServedStays
    <2>2. CASE side = "send"
      <3>1. other = "recv"
        BY <1>1, <2>2, SidesLemma
      <3> QED BY <1>2, <1>7, <1>9, <2>2, <3>1, NothingThere, ServedStays
    <2> QED BY <2>1, <2>2, SidesLemma
  <1>11. HandOK(mq, pc'[t], msg[t], carried[t])
    <2>1. pc[t] \notin Handling /\ pc'[t] = side /\ side \notin Handling
      BY <1>1, <1>6, <1>7, HandlingLemma DEF Tests, Queued, WaitersTypeOK
    <2>2. side \notin {"sendLink", "urgentLink"}
      BY <2>1 DEF Handling
    <2> QED BY <2>1, <2>2, MqHand DEF HandOK
  <1>12. \A u \in Threads \ {t} : Moves(u)
    BY <1>6, OthersMove
  <1> QED BY <1>1, <1>2, <1>7, <1>10, <1>11, <1>12, MqAlone

LEMMA MqGivesUpStep ==
    ASSUME MqIInv, NEW t \in Threads, MqSendGivesUp(t) \/ MqRecvGivesUp(t)
    PROVE  MqIInv'
  <1>1. PICK side \in Sides, other \in Sides :
            /\ other # side /\ GivesUp(t, side) /\ UNCHANGED mqVars
            /\ side = "recv" => mq.entry = 0
            /\ side = "send" => mq.free = Null
    BY SidesLemma DEF MqSendGivesUp, MqRecvGivesUp
  <1>2. /\ pc[t] \notin Sides /\ pc[t] # Again(other) /\ pc[t] # "run" /\ pc[t] \notin Handling
        /\ "run" \in (PCs \cup {"run"}) \ Sides /\ Goto(t, "run")
    BY <1>1, SidesLemma, HandlingLemma DEF GivesUp, Goto
  <1>3. mq.live /\ Queued /\ mq \in MqObject
    BY <1>2, MqHand DEF MqIInv, MqTyped
  <1>4. PICK f, q : /\ Holds(f, q) /\ Len(f) \in Nat /\ Len(q) \in Nat
                    /\ Served("recv", Len(q)) /\ Served("send", Len(f))
    BY <1>3, MqHolds
  <1>5. /\ Queued' /\ pc'[t] = "run" /\ list'[other] = list[other]
        /\ Resumed(other) \subseteq Resumed(other)' /\ (forgot => forgot')
    BY <1>1, <1>2, <1>3, GoesStep
  <1>6. side = "recv" => Len(q) = 0
    BY <1>1, <1>4 DEF Holds, Whole
  <1>7. side = "send" => Len(f) = 0
    <2> SUFFICES ASSUME side = "send", f # <<>> PROVE FALSE
      BY <1>4
    <2>1. /\ f \in Seq(Blocks) /\ NoDup(f) /\ IsChain(mq.next, mq.free, f)
          /\ mq.next \in [Blocks -> Blocks \cup {Null}] /\ Null \notin Blocks
      BY <1>3, <1>4, WholeFacts DEF Holds, Whole
    <2>2. mq.free \in Blocks
      BY <2>1, ChainRestLemma
    <2> QED BY <1>1, <2>1, <2>2
  <1>8. ServedNext("recv", Len(q)) /\ ServedNext("send", Len(f))
    <2>1. CASE side = "recv"
      <3>1. other = "send"
        BY <1>1, <2>1, SidesLemma
      <3> QED BY <1>4, <1>5, <1>6, <2>1, <3>1, NothingThere, ServedStays
    <2>2. CASE side = "send"
      <3>1. other = "recv"
        BY <1>1, <2>2, SidesLemma
      <3> QED BY <1>4, <1>5, <1>7, <2>2, <3>1, NothingThere, ServedStays
    <2> QED BY <2>1, <2>2, SidesLemma
  <1>9. HandOK(mq, pc'[t], msg[t], carried[t])
    BY <1>2, <1>5, MqHand DEF HandOK, Handling
  <1>10. \A u \in Threads \ {t} : Moves(u)
    BY <1>1, <1>3, OthersMove
  <1> QED BY <1>1, <1>3, <1>4, <1>5, <1>8, <1>9, <1>10, MqAlone

LEMMA MqOutStep ==
    ASSUME MqIInv, NEW t \in Threads, CopyOut(t)
    PROVE  MqIInv'
  <1>1. pc[t] = "recvCopy" /\ Goto(t, "recvFree") /\ UNCHANGED mqVars
    BY DEF CopyOut
  <1>2. /\ pc[t] \notin Sides /\ pc[t] # "run" /\ "recvFree" \in (PCs \cup {"run"}) \ Sides
        /\ pc[t] # Again("recv") /\ pc[t] # Again("send")
        /\ "recv" \in Sides /\ "send" \in Sides
    BY <1>1, SidesLemma, HandlingLemma DEF Handling
  <1>3. mq.live /\ Queued
    BY <1>2, MqHand DEF MqIInv
  <1>4. PICK f, q : /\ Holds(f, q) /\ Len(f) \in Nat /\ Len(q) \in Nat
                    /\ Served("recv", Len(q)) /\ Served("send", Len(f))
    BY <1>3, MqHolds
  <1>5. /\ Queued' /\ pc'[t] = "recvFree" /\ (forgot => forgot')
        /\ \A side \in Sides : list'[side] = list[side]
        /\ Resumed("recv") \subseteq Resumed("recv")' /\ Resumed("send") \subseteq Resumed("send")'
    BY <1>1, <1>2, <1>3, GoesStep
  <1>6. ServedNext("recv", Len(q)) /\ ServedNext("send", Len(f))
    BY <1>2, <1>4, <1>5, ServedStays
  <1>7. HandOK(mq, pc'[t], msg[t], carried[t])
    BY <1>1, <1>5, MqHand DEF HandOK, Handling
  <1>8. \A u \in Threads \ {t} : Moves(u)
    BY <1>1, <1>3, OthersMove
  <1> QED BY <1>1, <1>3, <1>4, <1>5, <1>6, <1>7, <1>8, MqAlone

LEMMA MqTimeoutStep ==
    ASSUME MqIInv, NEW t \in Threads, _thread_timeout(t), UNCHANGED mqVars
    PROVE  MqIInv'
  <1>1. pc[t] \in Sides /\ pc[t] # "run" /\ pc[t] \notin Handling /\ Leave(t)
    BY SidesLemma, HandlingLemma DEF _thread_timeout
  <1>2. mq.live /\ Queued
    BY <1>1, MqHand DEF MqIInv
  <1>3. PICK f, q : /\ Holds(f, q) /\ Len(f) \in Nat /\ Len(q) \in Nat
                    /\ Served("recv", Len(q)) /\ Served("send", Len(f))
    BY <1>2, MqHolds
  <1>4. Queued' /\ ServedNext("recv", Len(q)) /\ ServedNext("send", Len(f))
    BY <1>2, <1>3, ServedWithout, SidesLemma
  <1>5. pc'[t] = "run"
    BY <1>1, <1>2, LeaveLemma DEF Queued, WaitersTypeOK
  <1>6. HandOK(mq, pc'[t], msg[t], carried[t])
    BY <1>1, <1>5, MqHand DEF HandOK, Handling
  <1>7. \A u \in Threads \ {t} : Moves(u)
    BY <1>1, <1>2, OthersMove
  <1> QED BY <1>2, <1>3, <1>4, <1>6, <1>7, MqAlone

(* The block in the hand of a deleted thread is gone. *)
LEMMA MqDeleteThreadStep ==
    ASSUME MqIInv, NEW t \in Threads, MqThreadDelete(t)
    PROVE  MqIInv'
  <1>1. /\ rt_thread_delete(t) /\ pc[t] # "run" /\ Leave(t)
        /\ lost' = lost \cup ({msg[t]} \ {Null}) /\ mq' = mq /\ received' = received
        /\ msg' = [msg EXCEPT ![t] = Null] /\ carried' = [carried EXCEPT ![t] = NoMessage]
    BY DEF MqThreadDelete, rt_thread_delete, DropBlock
  <1>2. mq.live /\ Queued /\ MqTyped
    BY <1>1, MqHand DEF MqIInv
  <1>3. PICK f, q : /\ Holds(f, q) /\ Len(f) \in Nat /\ Len(q) \in Nat
                    /\ Served("recv", Len(q)) /\ Served("send", Len(f))
    BY <1>2, MqHolds
  <1>4. Queued' /\ ServedNext("recv", Len(q)) /\ ServedNext("send", Len(f))
    BY <1>1, <1>2, <1>3, ServedWithout, SidesLemma
  <1>5. pc'[t] = "run"
    BY <1>1, <1>2, LeaveLemma DEF Queued, WaitersTypeOK
  <1>6. /\ msg'[t] = Null /\ carried'[t] = NoMessage
        /\ \A u \in Threads \ {t} : msg'[u] = msg[u] /\ carried'[u] = carried[u]
    BY <1>1, <1>2 DEF MqTyped
  <1>7. MqTyped'
    BY <1>1, <1>2 DEF MqTyped
  <1>8. Places(Linked(f) \cup Linked(q), msg', lost')
    BY <1>1, <1>3, <1>6, PlacesLost DEF Holds
  <1>9. Holds(f, q)'
    BY <1>1, <1>3, <1>8 DEF Holds
  <1>10. HandOK(mq', pc'[t], msg'[t], carried'[t])
    BY <1>5, <1>6 DEF HandOK, Handling
  <1>11. \A u \in Threads \ {t} : msg'[u] = msg[u] /\ carried'[u] = carried[u] /\ Moves(u)
    BY <1>1, <1>2, <1>6, OthersMove
  <1>12. Untouched(mq, mq', {}) /\ mq'.live
    BY <1>1, <1>2 DEF Untouched
  <1> QED BY <1>4, <1>7, <1>9, <1>10, <1>11, <1>12, MqEnough

(* RT_IPC_CMD_RESET leaves the blocks in the hands where they are. *)
LEMMA MqControlStep ==
    ASSUME MqIInv, rt_mq_control
    PROVE  MqIInv'
  <1>1. /\ mq.live /\ mq' = Reversed(mq) /\ received' = NoMessage /\ _ipc_list_resume_all
        /\ UNCHANGED <<msg, carried, lost>>
    BY DEF rt_mq_control
  <1>2. Queued /\ MqTyped /\ InHand
    BY DEF MqIInv
  <1>3. PICK f, q : Whole(mq, f, q) /\ Places(Linked(f) \cup Linked(q), msg, lost)
    BY DEF MqIInv, Holds
  <1>4. PICK r : r = Turned(q, f)
    OBVIOUS
  <1>5. /\ mq' \in MqObject /\ mq'.live /\ Whole(mq', r, <<>>)
        /\ Linked(r) = Linked(f) \cup Linked(q) /\ Untouched(mq, mq', Linked(q))
    BY <1>1, <1>2, <1>3, <1>4, WholeReversed DEF MqTyped
  <1>6. Linked(r) \cup Linked(<<>>) = Linked(f) \cup Linked(q)
    <2>1. Linked(<<>>) = {}
      BY DEF Linked
    <2> QED BY <1>5, <2>1
  <1>7. Holds(r, <<>>)'
    BY <1>1, <1>3, <1>5, <1>6 DEF Holds
  <1>8. MqTyped'
    BY <1>1, <1>2, <1>5 DEF MqTyped
  <1>9. /\ Queued' /\ list'["recv"] = <<>> /\ list'["send"] = <<>>
    BY <1>1, <1>2, ResumeAllLemma, SidesLemma
  <1>10. Served("recv", Len(<<>>))' /\ Served("send", Len(r))'
    BY <1>9 DEF Served, rt_list_isempty
  <1>11. ASSUME NEW u \in Threads PROVE HandOK(mq', pc'[u], msg'[u], carried'[u])
    <2>1. HandOK(mq, pc[u], msg[u], carried[u])
      BY <1>2 DEF InHand
    <2>2. msg[u] # Null => msg[u] \in Blocks \ Linked(q)
      BY <1>2, <1>3 DEF MqTyped, Places
    <2>3. Moves(u)
      BY <1>1, HandlingLemma DEF Moves, _ipc_list_resume_all
    <2>4. HandOK(mq', pc'[u], msg[u], carried[u])
      BY <1>5, <2>1, <2>2, <2>3, HandStays DEF Moves
    <2> QED BY <1>1, <2>4
  <1>12. InHand'
    BY <1>11 DEF InHand
  <1> QED BY <1>5, <1>7, <1>8, <1>9, <1>10, <1>12 DEF MqIInv

LEMMA MqDeleteStep ==
    ASSUME MqIInv, rt_mq_delete
    PROVE  MqIInv'
  <1>1. /\ mq' = [mq EXCEPT !.live = FALSE] /\ _ipc_list_resume_all /\ NobodyInside
        /\ UNCHANGED <<msg, carried, received, lost>>
    BY DEF rt_mq_delete
  <1>2. Queued /\ MqTyped /\ InHand
    BY DEF MqIInv
  <1>3. /\ mq' \in MqObject /\ ~mq'.live /\ mq'.next = mq.next /\ mq'.data = mq.data
        /\ mq'.head = mq.head /\ mq'.tail = mq.tail /\ mq'.free = mq.free
        /\ mq'.entry = mq.entry
    BY <1>1, <1>2 DEF MqTyped, MqObject
  <1>4. PICK f, q : Whole(mq, f, q) /\ Places(Linked(f) \cup Linked(q), msg, lost)
    BY DEF MqIInv, Holds
  <1>5. Holds(f, q)'
    BY <1>1, <1>3, <1>4 DEF Holds, Whole
  <1>6. MqTyped'
    BY <1>1, <1>2, <1>3 DEF MqTyped
  <1>7. Queued' /\ \A t \in Threads : pc'[t] = "run" /\ pc[t] \notin Handling
    BY <1>1, <1>2, ResumeAllLemma, HandlingLemma DEF NobodyInside
  <1>8. ASSUME NEW u \in Threads PROVE HandOK(mq', pc'[u], msg'[u], carried'[u])
    BY <1>1, <1>7, MqHand, HandlingLemma DEF HandOK
  <1>9. InHand'
    BY <1>8 DEF InHand
  <1> QED BY <1>3, <1>5, <1>6, <1>7, <1>9 DEF MqIInv

(* A new object, and nobody inside. *)
LEMMA MqFresh ==
    ASSUME mq' = Initialised, \A t \in Threads : msg'[t] = Null, lost' = {}
    PROVE  mq' \in MqObject /\ mq'.live /\ Holds(AllBlocks, <<>>)'
  <1>1. Linked(AllBlocks) \cup Linked(<<>>) = Blocks
    BY WholeInitialised DEF Linked
  <1>2. Places(Blocks, msg', lost')
    BY DEF Places
  <1>3. Places(Linked(AllBlocks) \cup Linked(<<>>), msg', lost')
    BY <1>1, <1>2
  <1>4. Whole(mq', AllBlocks, <<>>)
    BY WholeInitialised
  <1> QED BY <1>3, <1>4, WholeInitialised DEF Holds, AllBlocks

LEMMA MqAgainStep ==
    ASSUME MqIInv, rt_mq_init
    PROVE  MqIInv'
  <1>1. /\ \A t \in Threads : pc[t] = "run"
        /\ mq' = Initialised /\ received' = NoMessage /\ lost' = {}
        /\ UNCHANGED <<list, pc, timed, forgot, msg, carried>>
    BY DEF MqIInv, rt_mq_init, waiters
  <1>2. Queued /\ MqTyped /\ InHand
    BY DEF MqIInv
  <1>3. \A t \in Threads : msg'[t] = Null /\ carried'[t] = NoMessage /\ pc'[t] = "run"
    BY <1>1, MqHand, HandlingLemma
  <1>4. mq' \in MqObject /\ mq'.live /\ Holds(AllBlocks, <<>>)'
    BY <1>1, <1>3, MqFresh
  <1>5. MqTyped'
    BY <1>1, <1>2, <1>4 DEF MqTyped
  <1>6. Queued'
    BY <1>1, <1>2 DEF Queued, WaitersTypeOK
  <1>7. Linked(list["recv"]) = {} /\ Linked(list["send"]) = {}
    BY <1>1, <1>2, SidesLemma DEF Queued, WaitersTypeOK
  <1>8. list["recv"] = <<>> /\ list["send"] = <<>>
    BY <1>2, <1>7, EmptyLemma, SidesLemma DEF Queued
  <1>9. Served("recv", Len(<<>>))' /\ Served("send", Len(AllBlocks))'
    BY <1>1, <1>8 DEF Served, rt_list_isempty
  <1>10. InHand'
    BY <1>3, HandlingLemma DEF InHand, HandOK, Handling
  <1> QED BY <1>4, <1>5, <1>6, <1>9, <1>10 DEF MqIInv

LEMMA MqInitLemma == MqInit => MqIInv
  <1> SUFFICES ASSUME MqInit PROVE MqIInv
    OBVIOUS
  <1>1. /\ mq = Initialised /\ mq.live /\ lost = {} /\ received = NoMessage
        /\ msg = [t \in Threads |-> Null] /\ carried = [t \in Threads |-> NoMessage]
    BY DEF MqInit, MqStored, Initialised
  <1>2. Queued /\ \A t \in Threads : pc[t] = "run"
    BY QueuedInitLemma DEF MqInit, WaitersInit
  <1>3. list["recv"] = <<>> /\ list["send"] = <<>>
    BY SidesLemma DEF MqInit, WaitersInit
  <1>4. Linked(AllBlocks) \cup Linked(<<>>) = Blocks
    BY WholeInitialised DEF Linked
  <1>5. Places(Blocks, msg, lost)
    BY <1>1 DEF Places
  <1>6. Places(Linked(AllBlocks) \cup Linked(<<>>), msg, lost)
    BY <1>4, <1>5
  <1>7. Holds(AllBlocks, <<>>)
    BY <1>1, <1>6, WholeInitialised DEF Holds
  <1>8. MqTyped
    BY <1>1, WholeInitialised DEF MqTyped
  <1>9. InHand
    BY <1>1, <1>2 DEF InHand, HandOK, Handling
  <1>10. Served("recv", Len(<<>>)) /\ Served("send", Len(AllBlocks))
    BY <1>3 DEF Served, rt_list_isempty
  <1> QED BY <1>1, <1>2, <1>7, <1>8, <1>9, <1>10 DEF MqIInv

LEMMA MqNextLemma == MqIInv /\ [MqNext]_<<waiters, mqVars>> => MqIInv'
  <1> SUFFICES ASSUME MqIInv, [MqNext]_<<waiters, mqVars>> PROVE MqIInv'
    OBVIOUS
  <1>1. CASE UNCHANGED <<waiters, mqVars>>
    <2>1. UNCHANGED <<list, pc, timed, forgot, mq, msg, carried, received, lost>>
      BY <1>1 DEF waiters, mqVars
    <2> QED BY <2>1 DEF MqIInv, Queued, WaitersTypeOK, MqTyped, InHand, Holds, Served,
                        rt_list_isempty
  <1>2. CASE MqNext
    BY <1>2, MqTakeStep, MqCopyStep, MqLinkStep, MqRecvStep, MqFreeStep, MqSuspendStep,
       MqGivesUpStep, MqOutStep, MqTimeoutStep, MqDeleteThreadStep, MqControlStep,
       MqDeleteStep, MqAgainStep DEF MqNext, MqThread
  <1> QED BY <1>1, <1>2

-----------------------------------------------------------------------------
(* What follows. *)

LEMMA ConcatLemma ==
    ASSUME NEW S, NEW f \in Seq(S), NoDup(f), NEW q \in Seq(S), NoDup(q),
           Linked(f) \cap Linked(q) = {}
    PROVE  NoDup(f \o q) /\ Linked(f \o q) = Linked(f) \cup Linked(q)
  <1> DEFINE m == Len(f)  n == Len(q)  s == f \o q
  <1>1. /\ m \in Nat /\ n \in Nat /\ DOMAIN f = 1 .. m /\ DOMAIN q = 1 .. n
        /\ s \in Seq(S) /\ DOMAIN s = 1 .. m + n
        /\ \A i \in 1 .. m : s[i] = f[i]
        /\ \A i \in 1 .. m + n : i > m => s[i] = q[i - m] /\ i - m \in 1 .. n
    OBVIOUS
  <1>2. \A i, j \in 1 .. m : f[i] = f[j] => i = j
    BY <1>1 DEF NoDup
  <1>3. \A i, j \in 1 .. n : q[i] = q[j] => i = j
    BY <1>1 DEF NoDup
  <1>4. /\ \A i \in 1 .. m : f[i] \in Linked(f)
        /\ \A i \in 1 .. n : q[i] \in Linked(q)
        /\ \A x \in Linked(f) : \E i \in 1 .. m : f[i] = x
        /\ \A x \in Linked(q) : \E i \in 1 .. n : q[i] = x
    BY <1>1 DEF Linked
  <1> HIDE DEF m, n, s
  <1>5. ASSUME NEW i \in 1 .. m + n
        PROVE  \/ i \in 1 .. m /\ s[i] = f[i] /\ s[i] \in Linked(f)
               \/ i > m /\ i - m \in 1 .. n /\ s[i] = q[i - m] /\ s[i] \in Linked(q)
    BY <1>1, <1>4
  <1>6. ASSUME NEW i \in 1 .. m + n, NEW j \in 1 .. m + n, s[i] = s[j] PROVE i = j
    <2>1. CASE i \in 1 .. m /\ j \in 1 .. m
      BY <1>1, <1>2, <1>6, <2>1
    <2>2. CASE i > m /\ j > m
      <3>1. i - m = j - m
        BY <1>1, <1>3, <1>6, <2>2
      <3> QED BY <1>1, <3>1
    <2>3. CASE ~(i \in 1 .. m /\ j \in 1 .. m) /\ ~(i > m /\ j > m)
      <3>1. /\ s[i] \in Linked(f) \/ s[i] \in Linked(q)
            /\ ~(s[i] \in Linked(f) /\ s[i] \in Linked(q))
        BY <1>5
      <3> QED BY <1>1, <1>5, <1>6, <2>3, <3>1
    <2> QED BY <1>1, <2>1, <2>2, <2>3
  <1>7. NoDup(s)
    BY <1>1, <1>6 DEF NoDup
  <1>8. Linked(s) = Linked(f) \cup Linked(q)
    <2>1. Linked(s) \subseteq Linked(f) \cup Linked(q)
      BY <1>1, <1>5 DEF Linked
    <2>2. ASSUME NEW x \in Linked(f) PROVE x \in Linked(s)
      <3>1. PICK i \in 1 .. m : f[i] = x
        BY <1>4
      <3>2. i \in 1 .. m + n /\ s[i] = x
        BY <1>1, <3>1
      <3> QED BY <1>1, <3>2 DEF Linked
    <2>3. ASSUME NEW x \in Linked(q) PROVE x \in Linked(s)
      <3>1. PICK i \in 1 .. n : q[i] = x
        BY <1>4
      <3>2. i + m \in 1 .. m + n /\ i + m > m /\ (i + m) - m = i
        BY <1>1
      <3>3. s[i + m] = x
        BY <1>1, <3>1, <3>2
      <3> QED BY <1>1, <3>2, <3>3 DEF Linked
    <2> QED BY <2>1, <2>2, <2>3
  <1> QED BY <1>7, <1>8 DEF s

LEMMA MqBlocksLemma == MqIInv => BlocksConserved
  <1> SUFFICES ASSUME MqIInv PROVE BlocksConserved
    OBVIOUS
  <1>1. PICK f, q : Whole(mq, f, q) /\ Places(Linked(f) \cup Linked(q), msg, lost)
    BY DEF MqIInv, Holds
  <1>2. /\ mq \in MqObject /\ msg \in [Threads -> Blocks \cup {Null}]
        /\ Null \notin Blocks
    BY WholeFacts DEF MqIInv, MqTyped
  <1>3. Chain(mq.next, mq.free) = f /\ Chain(mq.next, mq.head) = q
    BY <1>1, <1>2, WholeChains
  <1> DEFINE held == {t \in Threads : msg[t] # Null}
             hands == {msg[t] : t \in held}
             b == [t \in held |-> msg[t]]
  <1>4. NoDup(f \o q) /\ Linked(f \o q) = Linked(f) \cup Linked(q)
    BY <1>1, ConcatLemma DEF Whole
  <1>5. Cardinality(held) = Cardinality(hands)
    <2>1. IsFiniteSet(held)
      BY WaitersThreadsAssumption, FS_Subset
    <2>2. \A t, u \in held : b[t] = b[u] => t = u
      BY <1>1 DEF Places
    <2>3. b \in Bijection(held, hands)
      <3>1. b \in Injection(held, hands)
        BY <2>2 DEF Injection, IsInjective
      <3>2. b \in Surjection(held, hands)
        BY DEF Surjection
      <3> QED BY <3>1, <3>2 DEF Bijection
    <2> HIDE DEF b, held, hands
    <2> QED BY <2>1, <2>3, FS_Bijection DEF ExistsBijection
  <1>6. /\ hands \cap (Linked(f) \cup Linked(q)) = {} /\ hands \cap lost = {}
        /\ (Linked(f) \cup Linked(q)) \cap lost = {}
        /\ hands \subseteq Blocks /\ lost \subseteq Blocks
        /\ Linked(f) \cup Linked(q) \subseteq Blocks
    BY <1>1, <1>2 DEF Places
  <1>7. ASSUME NEW c \in Blocks PROVE c \in (Linked(f) \cup Linked(q)) \cup hands \cup lost
    <2>1. CASE \E t \in Threads : msg[t] = c
      BY <1>2, <2>1
    <2>2. CASE ~\E t \in Threads : msg[t] = c
      BY <1>1, <2>2 DEF Places
    <2> QED BY <2>1, <2>2
  <1>8. mq.entry = Len(q) /\ mq.tail = IF q = <<>> THEN Null ELSE q[Len(q)]
    BY <1>1 DEF Whole
  <1> HIDE DEF held, hands, b
  <1>9. (Linked(f) \cup Linked(q)) \cup hands \cup lost = Blocks
    BY <1>6, <1>7
  <1>10. /\ (Linked(f \o q) \cup hands) \cap lost = {} /\ Linked(f \o q) \cap hands = {}
         /\ Linked(f \o q) \cup hands \cup lost = Blocks
    BY <1>4, <1>6, <1>9
  <1> QED BY <1>3, <1>4, <1>5, <1>8, <1>10 DEF BlocksConserved, held, hands

(* For any number of blocks and threads: a block is free, queued, in one     *)
(* thread's hand or gone with a deleted thread, and never two of these;     *)
(* entry and tail are those of the queue.                                   *)
THEOREM MessageBlocksAreConserved == MqSpec => []BlocksConserved
  <1>1. MqInit => MqIInv
    BY MqInitLemma
  <1>2. MqIInv /\ [MqNext]_<<waiters, mqVars>> => MqIInv'
    BY MqNextLemma
  <1>3. MqIInv => BlocksConserved
    BY MqBlocksLemma
  <1> QED BY <1>1, <1>2, <1>3, PTL DEF MqSpec

(* What is copied with interrupts enabled is written by nobody else          *)
(* meanwhile.                                                              *)
THEOREM MessageCopiesAreIntact == MqSpec => []CopiedIntact
  <1>1. MqInit => MqIInv
    BY MqInitLemma
  <1>2. MqIInv /\ [MqNext]_<<waiters, mqVars>> => MqIInv'
    BY MqNextLemma
  <1>3. MqIInv => CopiedIntact
    BY DEF MqIInv, InHand, HandOK, CopiedIntact
  <1> QED BY <1>1, <1>2, <1>3, PTL DEF MqSpec

LEMMA MqServesLemma == MqIInv => MqTypeOK /\ MqServed
  <1> SUFFICES ASSUME MqIInv PROVE MqTypeOK /\ MqServed
    OBVIOUS
  <1>1. MqTypeOK
    BY DEF MqIInv, MqTyped, Queued, MqTypeOK
  <1>2. PICK f, q : /\ Holds(f, q)
                    /\ mq.live => Served("recv", Len(q)) /\ Served("send", Len(f))
    BY DEF MqIInv
  <1>3. Chain(mq.next, mq.free) = f /\ mq.entry = Len(q)
    BY <1>2, WholeChains DEF Holds, Whole, MqIInv, MqTyped
  <1> QED BY <1>1, <1>2, <1>3 DEF MqServed

(* Nobody waits for a message that is there nor for a block that is free,    *)
(* although the queue hands nothing over.                                   *)
THEOREM MessageQueueServes == MqSpec => [](MqTypeOK /\ MqServed)
  <1>1. MqInit => MqIInv
    BY MqInitLemma
  <1>2. MqIInv /\ [MqNext]_<<waiters, mqVars>> => MqIInv'
    BY MqNextLemma
  <1>3. MqIInv => MqTypeOK /\ MqServed
    BY MqServesLemma
  <1> QED BY <1>1, <1>2, <1>3, PTL DEF MqSpec

-----------------------------------------------------------------------------
LEMMA SameSequence ==
    ASSUME NEW S, NEW s \in Seq(S), NEW z \in Seq(S), Len(s) = Len(z),
           \A i \in 1 .. Len(z) : s[i] = z[i]
    PROVE  s = z
  OBVIOUS

(* The messages of a queue, as MqChannel reads them. *)
MessagesOf(box) ==
    LET queue == Chain(box.next, box.head)
    IN  [i \in DOMAIN queue |-> box.data[queue[i]]]

LEMMA MessagesLemma ==
    ASSUME NEW box \in MqObject, NEW f, NEW q, Whole(box, f, q)
    PROVE  /\ MessagesOf(box) \in Seq(Messages) /\ Len(MessagesOf(box)) = Len(q)
           /\ Len(q) \in Nat /\ \A i \in 1 .. Len(q) : MessagesOf(box)[i] = box.data[q[i]]
  <1>1. Chain(box.next, box.head) = q
    BY WholeChains
  <1>2. /\ Len(q) \in Nat /\ DOMAIN q = 1 .. Len(q)
        /\ \A i \in 1 .. Len(q) : q[i] \in Linked(q)
    BY DEF Whole, Linked
  <1>3. \A i \in 1 .. Len(q) : box.data[q[i]] \in Messages
    BY <1>2 DEF Whole
  <1>4. MessagesOf(box) = [i \in 1 .. Len(q) |-> box.data[q[i]]]
    BY <1>1, <1>2 DEF MessagesOf
  <1>5. MessagesOf(box) \in [1 .. Len(q) -> Messages]
    BY <1>3, <1>4
  <1> QED BY <1>2, <1>4, <1>5

(* As primed, by the substitution of q. *)
LEMMA MessagesNext == MessagesOf(mq)' = MessagesOf(mq')
  BY DEF MessagesOf

(* The same blocks with the same messages in them. *)
LEMMA MessagesStay ==
    ASSUME NEW box \in MqObject, NEW f, NEW q, Whole(box, f, q),
           NEW new \in MqObject, NEW g, Whole(new, g, q),
           \A b \in Linked(q) : new.data[b] = box.data[b]
    PROVE  MessagesOf(new) = MessagesOf(box)
  <1>1. /\ MessagesOf(box) \in Seq(Messages) /\ Len(MessagesOf(box)) = Len(q)
        /\ MessagesOf(new) \in Seq(Messages) /\ Len(MessagesOf(new)) = Len(q)
        /\ Len(q) \in Nat
        /\ \A i \in 1 .. Len(q) : MessagesOf(box)[i] = box.data[q[i]]
        /\ \A i \in 1 .. Len(q) : MessagesOf(new)[i] = new.data[q[i]]
    BY MessagesLemma
  <1>2. \A i \in 1 .. Len(q) : q[i] \in Linked(q)
    BY DEF Whole, Linked
  <1>3. \A i \in 1 .. Len(q) : MessagesOf(new)[i] = MessagesOf(box)[i]
    BY <1>1, <1>2
  <1> QED BY <1>1, <1>3, SameSequence

LEMMA MessagesLink ==
    ASSUME MqTyped, InHand, NEW f, NEW q, Holds(f, q), NEW t \in Threads,
           LinkLast(t) \/ LinkFirst(t), NEW m \in Messages, m = carried[t]
    PROVE  MqChannel!Send(m) \/ MqChannel!Urgent(m)
  <1>0. /\ pc[t] \in {"sendLink", "urgentLink"} /\ received' = received
    BY DEF LinkLast, LinkFirst
  <1>1. PICK r : r = IF pc[t] = "sendLink" THEN Append(q, msg[t])
                     ELSE rt_list_insert_after(q, msg[t])
    OBVIOUS
  <1>2. /\ MqTyped' /\ Holds(f, r)' /\ mq'.data = mq.data /\ mq.data[msg[t]] = carried[t]
        /\ Len(r) = Len(q) + 1 /\ Len(q) \in Nat /\ Len(q) < MaxMsgs
    <2>1. MqTyped' /\ Holds(f, r)'
      BY <1>1, LinkData
    <2>2. mq'.data = mq.data /\ mq.data[msg[t]] = carried[t]
      BY <1>1, LinkData
    <2>3. Len(q) \in Nat
      BY DEF Holds, Whole
    <2>4. Len(r) = Len(q) + 1
      BY <1>0, <1>1, <2>3 DEF rt_list_insert_after
    <2>5. Len(q) < MaxMsgs
      <3>1. r \in Seq(Blocks) /\ NoDup(r)
        BY <2>1 DEF Holds, Whole
      <3>2. Len(r) \in 0 .. MaxMsgs
        BY <3>1, EntryLemma
      <3> QED BY <2>4, <2>3, <3>2, MqMaxMsgsAssumption
    <2> QED BY <2>1, <2>2, <2>3, <2>4, <2>5
  <1>3. mq \in MqObject /\ mq' \in MqObject /\ Whole(mq, f, q) /\ Whole(mq', f, r)
    BY <1>2 DEF MqTyped, Holds
  <1> DEFINE s == MessagesOf(mq)  z == MessagesOf(mq')  n == Len(q)
  <1>4. /\ s \in Seq(Messages) /\ Len(s) = n /\ z \in Seq(Messages) /\ Len(z) = n + 1
        /\ n \in Nat /\ m \in Messages
        /\ \A i \in 1 .. n : s[i] = mq.data[q[i]]
        /\ \A i \in 1 .. n + 1 : z[i] = mq.data[r[i]]
    BY <1>2, <1>3, MessagesLemma
  <1>5. z = MessagesOf(mq)'
    BY MessagesNext
  <1>6. CASE pc[t] = "sendLink"
    <2>1. \A i \in 1 .. n + 1 : r[i] = IF i = n + 1 THEN msg[t] ELSE q[i]
      BY <1>1, <1>3, <1>6 DEF Whole
    <2>2. \A i \in 1 .. n + 1 : z[i] = IF i = n + 1 THEN m ELSE s[i]
      BY <1>2, <1>4, <2>1
    <2>3. /\ Append(s, m) \in Seq(Messages) /\ Len(Append(s, m)) = n + 1
          /\ \A i \in 1 .. n + 1 : Append(s, m)[i] = IF i = n + 1 THEN m ELSE s[i]
      BY <1>4
    <2> HIDE DEF s, z, n
    <2>4. z = Append(s, m)
      BY <1>4, <2>2, <2>3, SameSequence
    <2>5. Len(s) < MaxMsgs
      BY <1>2, <1>4 DEF n
    <2> QED BY <1>0, <1>5, <2>4, <2>5 DEF MqChannel!Send, MessagesOf, s
  <1>7. CASE pc[t] = "urgentLink"
    <2>1. \A i \in 1 .. n + 1 : r[i] = IF i = 1 THEN msg[t] ELSE q[i - 1]
      BY <1>1, <1>3, <1>7 DEF Whole, rt_list_insert_after
    <2>2. \A i \in 1 .. n + 1 : z[i] = IF i = 1 THEN m ELSE s[i - 1]
      <3> HIDE DEF s, z, n
      <3> SUFFICES ASSUME NEW i \in 1 .. n + 1
                   PROVE  z[i] = IF i = 1 THEN m ELSE s[i - 1]
        OBVIOUS
      <3>1. z[i] = mq.data[r[i]] /\ r[i] = IF i = 1 THEN msg[t] ELSE q[i - 1]
        BY <1>4, <2>1
      <3>2. CASE i = 1
        BY <1>2, <3>1, <3>2
      <3>3. CASE i # 1
        <4>1. i - 1 \in 1 .. n
          BY <1>4, <3>3
        <4>2. s[i - 1] = mq.data[q[i - 1]]
          BY <1>4, <4>1
        <4> QED BY <3>1, <3>3, <4>2
      <3> QED BY <3>2, <3>3
    <2>3. /\ <<m>> \o s \in Seq(Messages) /\ Len(<<m>> \o s) = n + 1
          /\ \A i \in 1 .. n + 1 : (<<m>> \o s)[i] = IF i = 1 THEN m ELSE s[i - 1]
      BY <1>4
    <2> HIDE DEF s, z, n
    <2>4. z = <<m>> \o s
      BY <1>4, <2>2, <2>3, SameSequence
    <2>5. Len(s) < MaxMsgs
      BY <1>2, <1>4 DEF n
    <2> QED BY <1>0, <1>5, <2>4, <2>5 DEF MqChannel!Urgent, MessagesOf, s
  <1> QED BY <1>0, <1>6, <1>7

LEMMA MessagesRecv ==
    ASSUME MqTyped, NEW f, NEW q, Holds(f, q), NEW t \in Threads, msg[t] = Null, rt_mq_recv(t)
    PROVE  MqChannel!Receive
  <1>1. /\ MqTyped' /\ Holds(f, Tail(q))' /\ mq'.data = mq.data
        /\ q # <<>> /\ received' = mq.data[Head(q)]
        /\ Len(q) \in Nat \ {0} /\ Len(Tail(q)) = Len(q) - 1
    BY RecvData
  <1>2. mq \in MqObject /\ mq' \in MqObject /\ Whole(mq, f, q) /\ Whole(mq', f, Tail(q))
    BY <1>1 DEF MqTyped, Holds
  <1> DEFINE s == MessagesOf(mq)  z == MessagesOf(mq')  n == Len(q)
  <1>3. PICK r : r = Tail(q)
    OBVIOUS
  <1>4. /\ s \in Seq(Messages) /\ Len(s) = n
        /\ \A i \in 1 .. n : s[i] = mq.data[q[i]]
    BY <1>2, MessagesLemma
  <1>5. /\ z \in Seq(Messages) /\ Len(z) = Len(r)
        /\ \A i \in 1 .. Len(r) : z[i] = mq'.data[r[i]]
    <2>1. mq' \in MqObject /\ Whole(mq', f, r)
      BY <1>2, <1>3
    <2> QED BY <2>1, MessagesLemma
  <1>6. z = MessagesOf(mq)'
    BY MessagesNext
  <1>7. Head(q) = q[1] /\ \A i \in 1 .. n - 1 : Tail(q)[i] = q[i + 1]
    BY <1>1, <1>2 DEF Whole
  <1>8. /\ s # <<>> /\ Head(s) = s[1] /\ Tail(s) \in Seq(Messages) /\ Len(Tail(s)) = n - 1
        /\ \A i \in 1 .. n - 1 : Tail(s)[i] = s[i + 1]
    BY <1>1, <1>4
  <1> HIDE DEF s, z, n
  <1>9. n \in Nat \ {0} /\ Len(z) = n - 1 /\ \A i \in 1 .. n - 1 : z[i] = mq.data[q[i + 1]]
    BY <1>1, <1>3, <1>5, <1>7 DEF n
  <1>10. \A i \in 1 .. n - 1 : z[i] = Tail(s)[i]
    BY <1>4, <1>8, <1>9
  <1>11. z = Tail(s)
    BY <1>5, <1>8, <1>9, <1>10, SameSequence
  <1>12. received' = Head(s)
    BY <1>1, <1>4, <1>7, <1>8, <1>9
  <1> QED BY <1>6, <1>8, <1>11, <1>12 DEF MqChannel!Receive, MessagesOf, s

LEMMA MessagesGone ==
    ASSUME mq' \in MqObject, NEW f, Whole(mq', f, <<>>), received' = NoMessage
    PROVE  MqChannel!Clear
  <1>1. MessagesOf(mq') \in Seq(Messages) /\ Len(MessagesOf(mq')) = Len(<<>>)
    BY MessagesLemma
  <1>2. MessagesOf(mq)' = <<>>
    BY <1>1, MessagesNext
  <1> QED BY <1>2 DEF MqChannel!Clear, MessagesOf

(* Who changes neither the queue nor what is in it is not seen.              *)
LEMMA MessagesUnseen ==
    ASSUME MqTyped, MqTyped', received' = received, NEW f, NEW q, Holds(f, q),
           NEW g, Whole(mq', g, q), \A b \in Linked(q) : mq'.data[b] = mq.data[b]
    PROVE  UNCHANGED MqChannel!vars
  <1>1. MessagesOf(mq') = MessagesOf(mq)
    BY MessagesStay DEF Holds, MqTyped
  <1>2. MessagesOf(mq)' = MessagesOf(mq)
    BY <1>1, MessagesNext
  <1> QED BY <1>2 DEF MqChannel!vars, MessagesOf

LEMMA MqThreadSeen ==
    ASSUME MqIInv, NEW t \in Threads, MqThread(t)
    PROVE  MqChannel!Next \/ UNCHANGED MqChannel!vars
  <1>0. Queued /\ MqTyped /\ InHand
    BY DEF MqIInv
  <1>1. PICK f, q : Holds(f, q)
    BY DEF MqIInv
  <1>2. ASSUME rt_mq_send_wait(t) \/ rt_mq_urgent(t) PROVE UNCHANGED MqChannel!vars
    <2>1. PICK next : TakeBlock(t, next) /\ pc[t] \notin Handling
      BY <1>2, HandlingLemma, SidesLemma DEF rt_mq_send_wait, rt_mq_urgent, Tests
    <2>2. msg[t] = Null
      BY <2>1, MqHand
    <2>3. /\ MqTyped' /\ Holds(Tail(f), q)' /\ mq'.data = mq.data /\ received' = received
      BY <1>0, <1>1, <2>1, <2>2, TakeData
    <2>4. Whole(mq', Tail(f), q)
      BY <2>3 DEF Holds
    <2> QED BY <1>0, <1>1, <2>3, <2>4, MessagesUnseen
  <1>3. ASSUME NEW m \in Messages, CopyIn(t, m) PROVE UNCHANGED MqChannel!vars
    <2>1. /\ MqTyped' /\ Holds(f, q)' /\ received' = received
          /\ \A b \in Linked(q) : mq'.data[b] = mq.data[b]
      BY <1>0, <1>1, <1>3, CopyData
    <2>2. Whole(mq', f, q)
      BY <2>1 DEF Holds
    <2> QED BY <1>0, <1>1, <2>1, <2>2, MessagesUnseen
  <1>4. ASSUME LinkLast(t) \/ LinkFirst(t) PROVE MqChannel!Next
    <2>1. PICK m \in Messages : m = carried[t]
      BY <1>0, <1>4 DEF LinkLast, LinkFirst, InHand, HandOK
    <2>2. MqChannel!Send(m) \/ MqChannel!Urgent(m)
      BY <1>0, <1>1, <1>4, <2>1, MessagesLink
    <2> QED BY <2>2 DEF MqChannel!Next
  <1>5. ASSUME rt_mq_recv(t) PROVE MqChannel!Next
    <2>1. pc[t] \notin Handling
      BY <1>5, HandlingLemma, SidesLemma DEF rt_mq_recv, Tests
    <2>2. msg[t] = Null
      BY <2>1, MqHand
    <2> QED BY <1>0, <1>1, <1>5, <2>2, MessagesRecv DEF MqChannel!Next
  <1>6. ASSUME FreeBlock(t) PROVE UNCHANGED MqChannel!vars
    <2>1. PICK r : r = rt_list_insert_after(f, msg[t])
      OBVIOUS
    <2>2. MqTyped' /\ Holds(r, q)' /\ mq'.data = mq.data /\ received' = received
      BY <1>0, <1>1, <1>6, <2>1, FreeData
    <2>3. Whole(mq', r, q)
      BY <2>2 DEF Holds
    <2> QED BY <1>0, <1>1, <2>2, <2>3, MessagesUnseen
  <1>7. ASSUME mq' = mq, received' = received PROVE UNCHANGED MqChannel!vars
    BY <1>7 DEF MqChannel!vars
  <1>8. ASSUME UNCHANGED mqVars PROVE UNCHANGED MqChannel!vars
    BY <1>7, <1>8 DEF mqVars
  <1>9. ASSUME MqThreadDelete(t) PROVE UNCHANGED MqChannel!vars
    BY <1>7, <1>9 DEF MqThreadDelete
  <1> QED BY <1>2, <1>3, <1>4, <1>5, <1>6, <1>8, <1>9
          DEF MqThread, CopyOut, MqSendSuspends, MqRecvSuspends, MqSendGivesUp, MqRecvGivesUp

LEMMA MqChannelNext ==
    MqIInv /\ MqIInv' /\ [MqNext]_<<waiters, mqVars>> => [MqChannel!Next]_(MqChannel!vars)
  <1> SUFFICES ASSUME MqIInv, MqIInv', [MqNext]_<<waiters, mqVars>>
               PROVE  MqChannel!Next \/ UNCHANGED MqChannel!vars
    OBVIOUS
  <1>0. MqTyped /\ MqTyped'
    BY DEF MqIInv
  <1>1. PICK f, q : Holds(f, q)
    BY DEF MqIInv
  <1>2. CASE UNCHANGED <<waiters, mqVars>>
    BY <1>2 DEF mqVars, MqChannel!vars
  <1>3. ASSUME NEW t \in Threads, MqThread(t) PROVE MqChannel!Next \/ UNCHANGED MqChannel!vars
    BY <1>3, MqThreadSeen
  <1>4. CASE rt_mq_control
    <2>1. PICK r : r = Turned(q, f)
      OBVIOUS
    <2>2. mq' = Reversed(mq) /\ received' = NoMessage
      BY <1>4 DEF rt_mq_control
    <2>3. mq' \in MqObject /\ Whole(mq', r, <<>>)
      BY <1>0, <1>1, <2>1, <2>2, WholeReversed DEF MqTyped, Holds
    <2> QED BY <2>2, <2>3, MessagesGone DEF MqChannel!Next
  <1>5. CASE rt_mq_delete
    <2>1. mq'.next = mq.next /\ mq'.data = mq.data /\ mq'.head = mq.head /\ received' = received
      BY <1>0, <1>5 DEF rt_mq_delete, MqTyped, MqObject
    <2> QED BY <2>1 DEF MqChannel!vars
  <1>6. CASE rt_mq_init
    <2>1. mq' = Initialised /\ received' = NoMessage
      BY <1>6 DEF rt_mq_init
    <2> QED BY <2>1, WholeInitialised, MessagesGone DEF MqChannel!Next
  <1> QED BY <1>2, <1>3, <1>4, <1>5, <1>6 DEF MqNext

(* Every message comes out once, in the order in which the senders linked    *)
(* them and urgent ones first, for any number of blocks and of threads that *)
(* are in the middle of a copy: the message queue implements Channel.       *)
THEOREM MessageQueueIsChannel == MqSpec => MqImplementsChannel
  <1>1. MqInit => MqIInv
    BY MqInitLemma
  <1>2. MqInit => MqChannel!Init
    <2> SUFFICES ASSUME MqInit PROVE MqChannel!Init
      OBVIOUS
    <2>1. mq = Initialised /\ received = NoMessage
      BY DEF MqInit, MqStored, Initialised
    <2>2. MessagesOf(mq) \in Seq(Messages) /\ Len(MessagesOf(mq)) = Len(<<>>)
      BY <2>1, WholeInitialised, MessagesLemma
    <2>3. MessagesOf(mq) = <<>>
      BY <2>2
    <2> QED BY <2>1, <2>3 DEF MqChannel!Init, MessagesOf
  <1>3. MqIInv /\ [MqNext]_<<waiters, mqVars>> => MqIInv'
    BY MqNextLemma
  <1>4. MqIInv /\ MqIInv' /\ [MqNext]_<<waiters, mqVars>> => [MqChannel!Next]_(MqChannel!vars)
    BY MqChannelNext
  <1> QED BY <1>1, <1>2, <1>3, <1>4, PTL DEF MqSpec, MqImplementsChannel, MqChannel!Spec

-----------------------------------------------------------------------------
(* The objects together *)

(* An object whose class it is not is not live: nobody waits for what it     *)
(* has.                                                                    *)
LEMMA MbIdle == MbStored(FALSE) =>
    mb \in MbObject /\ mail \in Mails \cup {NoMail} /\ MbServed
  <1>1. /\ [i \in 0 .. MbSize - 1 |-> NoMail] \in [0 .. MbSize - 1 -> Mails \cup {NoMail}]
        /\ 0 \in 0 .. MbSize - 1 /\ 0 \in 0 .. MbSize
    BY MbSizeAssumption
  <1> QED BY <1>1 DEF MbStored, Emptied, MbObject, MbServed

LEMMA MqIdle == MqStored(FALSE) => MqTyped /\ MqServed
  <1> SUFFICES ASSUME MqStored(FALSE) PROVE MqTyped /\ MqServed
    OBVIOUS
  <1>1. mq = [Initialised EXCEPT !.live = FALSE] /\ Initialised \in MqObject
    BY WholeInitialised DEF MqStored
  <1>2. mq \in MqObject /\ ~mq.live
    BY <1>1 DEF MqObject
  <1> QED BY <1>2 DEF MqStored, MqTyped, MqServed

LEMMA MpIdle == MpStored(FALSE) => mp \in MpObject /\ inUse \subseteq PoolBlocks /\ MpServed
  <1> SUFFICES ASSUME MpStored(FALSE)
               PROVE  mp \in MpObject /\ inUse \subseteq PoolBlocks /\ MpServed
    OBVIOUS
  <1>1. mp = [AllFree EXCEPT !.live = FALSE] /\ AllFree \in MpObject
    BY AllFreeLemma DEF MpStored
  <1>2. mp \in MpObject /\ ~mp.live
    BY <1>1 DEF MpObject
  <1> QED BY <1>2 DEF MpStored, MpServed

LEMMA EvIdle == EventStored(FALSE) =>
    /\ event \in [set : SUBSET Bits, live : BOOLEAN]
    /\ event_set \in [Threads -> SUBSET Bits] /\ event_info \in [Threads -> Options]
    /\ asked \in [Threads -> SUBSET Bits] /\ EventServed
  BY DEF EventStored, Options, NoOption, EventServed

LEMMA DqIdle == DqStored(FALSE) => dq \in DqObject /\ popped \in Items \cup {NoItem} /\ DqServed
  <1>1. /\ [i \in 0 .. DqSize - 1 |-> NoItem] \in [0 .. DqSize - 1 -> Items \cup {NoItem}]
        /\ 0 \in 0 .. DqSize - 1
    BY DqSizeAssumption
  <1> QED BY <1>1 DEF DqStored, EmptyQueue, DqObject, DqServed

(* The object whose class it is has its own invariant.                      *)
IIpc ==
    /\ Queued
    /\ IF class = "mailbox" THEN MbIInv ELSE MbStored(FALSE)
    /\ IF class = "messagequeue" THEN MqIInv ELSE MqStored(FALSE)
    /\ IF class = "mempool" THEN MpIInv ELSE MpStored(FALSE)
    /\ IF class = "event" THEN EvIInv ELSE EventStored(FALSE)
    /\ IF class = "dataqueue" THEN DqIInv ELSE DqStored(FALSE)

LEMMA IpcInitLemma == Init => IIpc
  <1> SUFFICES ASSUME Init PROVE IIpc
    OBVIOUS
  <1>1. WaitersInit /\ Queued
    BY QueuedInitLemma DEF Init
  <1>2. IF class = "mailbox" THEN MbIInv ELSE MbStored(FALSE)
    BY <1>1, MbInitLemma DEF Init, MbInit
  <1>3. IF class = "messagequeue" THEN MqIInv ELSE MqStored(FALSE)
    BY <1>1, MqInitLemma DEF Init, MqInit
  <1>4. IF class = "mempool" THEN MpIInv ELSE MpStored(FALSE)
    BY <1>1, MpInitLemma DEF Init, MpInit
  <1>5. IF class = "event" THEN EvIInv ELSE EventStored(FALSE)
    BY <1>1, EvInitLemma DEF Init, EventInit
  <1>6. IF class = "dataqueue" THEN DqIInv ELSE DqStored(FALSE)
    BY <1>1, DqInitLemma DEF Init, DqInit
  <1> QED BY <1>1, <1>2, <1>3, <1>4, <1>5, <1>6 DEF IIpc

LEMMA StoredStays ==
    /\ UNCHANGED mbVars /\ MbStored(FALSE) => MbStored(FALSE)'
    /\ UNCHANGED mqVars /\ MqStored(FALSE) => MqStored(FALSE)'
    /\ UNCHANGED mpVars /\ MpStored(FALSE) => MpStored(FALSE)'
    /\ UNCHANGED eventVars /\ EventStored(FALSE) => EventStored(FALSE)'
    /\ UNCHANGED dqVars /\ DqStored(FALSE) => DqStored(FALSE)'
  <1>1. UNCHANGED mbVars /\ MbStored(FALSE) => MbStored(FALSE)'
    BY DEF mbVars, MbStored, Emptied
  <1>2. UNCHANGED mqVars /\ MqStored(FALSE) => MqStored(FALSE)'
    BY DEF mqVars, MqStored, Initialised
  <1>3. UNCHANGED mpVars /\ MpStored(FALSE) => MpStored(FALSE)'
    BY DEF mpVars, MpStored, AllFree
  <1>4. UNCHANGED eventVars /\ EventStored(FALSE) => EventStored(FALSE)'
    BY DEF eventVars, EventStored
  <1>5. UNCHANGED dqVars /\ DqStored(FALSE) => DqStored(FALSE)'
    BY DEF dqVars, DqStored, EmptyQueue
  <1> QED BY <1>1, <1>2, <1>3, <1>4, <1>5

LEMMA IpcNextLemma == IIpc /\ [Next]_vars => IIpc'
  <1> SUFFICES ASSUME IIpc, [Next]_vars PROVE IIpc'
    OBVIOUS
  <1>0. /\ Queued
        /\ IF class = "mailbox" THEN MbIInv ELSE MbStored(FALSE)
        /\ IF class = "messagequeue" THEN MqIInv ELSE MqStored(FALSE)
        /\ IF class = "mempool" THEN MpIInv ELSE MpStored(FALSE)
        /\ IF class = "event" THEN EvIInv ELSE EventStored(FALSE)
        /\ IF class = "dataqueue" THEN DqIInv ELSE DqStored(FALSE)
    BY DEF IIpc
  <1>1. CASE Next /\ class = "mailbox"
    <2>1. class' = class /\ MbNext /\ UNCHANGED <<mqVars, mpVars, eventVars, dqVars>>
      BY <1>1 DEF Next
    <2>2. MbIInv'
      BY <1>0, <1>1, <2>1, MbNextLemma
    <2>3. Queued'
      BY <2>2 DEF MbIInv
    <2> QED BY <1>0, <1>1, <2>1, <2>2, <2>3, StoredStays DEF IIpc
  <1>2. CASE Next /\ class = "messagequeue"
    <2>1. class' = class /\ MqNext /\ UNCHANGED <<mbVars, mpVars, eventVars, dqVars>>
      BY <1>2 DEF Next
    <2>2. MqIInv'
      BY <1>0, <1>2, <2>1, MqNextLemma
    <2>3. Queued'
      BY <2>2 DEF MqIInv
    <2> QED BY <1>0, <1>2, <2>1, <2>2, <2>3, StoredStays DEF IIpc
  <1>3. CASE Next /\ class = "mempool"
    <2>1. class' = class /\ MpNext /\ UNCHANGED <<mbVars, mqVars, eventVars, dqVars>>
      BY <1>3 DEF Next
    <2>2. MpIInv'
      BY <1>0, <1>3, <2>1, MpNextLemma
    <2>3. Queued'
      BY <2>2 DEF MpIInv
    <2> QED BY <1>0, <1>3, <2>1, <2>2, <2>3, StoredStays DEF IIpc
  <1>4. CASE Next /\ class = "event"
    <2>1. class' = class /\ EventNext /\ UNCHANGED <<mbVars, mqVars, mpVars, dqVars>>
      BY <1>4 DEF Next
    <2>2. EvIInv'
      BY <1>0, <1>4, <2>1, EvNextLemma
    <2>3. Queued'
      BY <2>2 DEF EvIInv, EvTyped
    <2> QED BY <1>0, <1>4, <2>1, <2>2, <2>3, StoredStays DEF IIpc
  <1>5. CASE Next /\ class = "dataqueue"
    <2>1. class' = class /\ DqNext /\ UNCHANGED <<mbVars, mqVars, mpVars, eventVars>>
      BY <1>5 DEF Next
    <2>2. DqIInv'
      BY <1>0, <1>5, <2>1, DqNextLemma
    <2>3. Queued'
      BY <2>2 DEF DqIInv
    <2> QED BY <1>0, <1>5, <2>1, <2>2, <2>3, StoredStays DEF IIpc
  <1>6. CASE UNCHANGED vars
    <2>1. /\ UNCHANGED <<waiters, mbVars>> /\ UNCHANGED <<waiters, mqVars>>
          /\ UNCHANGED <<waiters, mpVars>> /\ UNCHANGED <<waiters, eventVars>>
          /\ UNCHANGED <<waiters, dqVars>> /\ class' = class
      BY <1>6 DEF vars
    <2>2. /\ UNCHANGED mbVars /\ UNCHANGED mqVars /\ UNCHANGED mpVars
          /\ UNCHANGED eventVars /\ UNCHANGED dqVars
      BY <1>6 DEF vars
    <2>3. Queued'
      BY <1>0, <2>1 DEF waiters, Queued, WaitersTypeOK
    <2>4. IF class = "mailbox" THEN MbIInv' ELSE MbStored(FALSE)'
      BY <1>0, <2>1, <2>2, MbNextLemma, StoredStays
    <2>5. IF class = "messagequeue" THEN MqIInv' ELSE MqStored(FALSE)'
      BY <1>0, <2>1, <2>2, MqNextLemma, StoredStays
    <2>6. IF class = "mempool" THEN MpIInv' ELSE MpStored(FALSE)'
      BY <1>0, <2>1, <2>2, MpNextLemma, StoredStays
    <2>7. IF class = "event" THEN EvIInv' ELSE EventStored(FALSE)'
      BY <1>0, <2>1, <2>2, EvNextLemma, StoredStays
    <2>8. IF class = "dataqueue" THEN DqIInv' ELSE DqStored(FALSE)'
      BY <1>0, <2>1, <2>2, DqNextLemma, StoredStays
    <2> QED BY <2>1, <2>3, <2>4, <2>5, <2>6, <2>7, <2>8 DEF IIpc
  <1>7. Next => class \in {"mailbox", "messagequeue", "mempool", "event", "dataqueue"}
    BY DEF Next
  <1> QED BY <1>1, <1>2, <1>3, <1>4, <1>5, <1>6, <1>7

LEMMA IpcFollows == IIpc => TypeOK /\ NobodyWaitsForWhatIsThere /\ EventServed
  <1> SUFFICES ASSUME IIpc PROVE TypeOK /\ NobodyWaitsForWhatIsThere /\ EventServed
    OBVIOUS
  <1>0. WaitersTypeOK
    BY DEF IIpc, Queued
  <1>1. MbTypeOK /\ MbServed
    BY <1>0, MbIdle DEF IIpc, MbIInv, MbTypeOK
  <1>2. MqTypeOK /\ MqServed
    BY <1>0, MqIdle, MqServesLemma DEF IIpc, MqTyped, MqTypeOK
  <1>3. MpTypeOK /\ MpServed
    BY <1>0, MpIdle DEF IIpc, MpIInv, MpTypeOK
  <1>4. EventTypeOK /\ EventServed
    BY <1>0, EvIdle DEF IIpc, EvIInv, EvTyped, EventTypeOK
  <1>5. DqTypeOK /\ DqServed
    BY <1>0, DqIdle DEF IIpc, DqIInv, DqTypeOK
  <1> QED BY <1>1, <1>2, <1>3, <1>4, <1>5 DEF TypeOK, NobodyWaitsForWhatIsThere

(* The lists hold exactly the threads suspended on them, each once, and      *)
(* every object stays within its ranges, through resets, deletions and       *)
(* re-initialisation.                                                      *)
THEOREM IpcTypes == Spec => []TypeOK
  BY IpcInitLemma, IpcNextLemma, IpcFollows, PTL DEF Spec

(* Nobody is suspended for want of what is there, whichever object it is,    *)
(* although none of them hands anything to the thread it wakes.             *)
THEOREM NobodyWaitsInVain == Spec => [](NobodyWaitsForWhatIsThere /\ EventServed)
  BY IpcInitLemma, IpcNextLemma, IpcFollows, PTL DEF Spec
=============================================================================
