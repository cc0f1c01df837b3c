----------------------------- MODULE ListProofs -----------------------------
(***************************************************************************)
(* What the list operations of RtList and IpcList do to the set of linked   *)
(* entries, to their order and to the absence of duplicates, for every list *)
(* over every set of entries; and what reading and writing do to the        *)
(* sequence that is kept in a ring of slots.                                *)
(***************************************************************************)
EXTENDS IpcList, Integers, WellFoundedInduction, TLAPS

(* Linking at the tail keeps a list a list and adds exactly that entry. *)
LEMMA InsertBeforeLemma ==
    ASSUME NEW S, NEW q \in Seq(S), NEW n \in S
    PROVE  /\ rt_list_insert_before(q, n) \in Seq(S)
           /\ Linked(rt_list_insert_before(q, n)) = Linked(q) \cup {n}
           /\ rt_list_insert_before(q, n) # <<>>
           /\ NoDup(q) /\ n \notin Linked(q) => NoDup(rt_list_insert_before(q, n))
  <1> DEFINE r == rt_list_insert_before(q, n)
  <1>1. /\ r \in Seq(S) /\ Len(r) = Len(q) + 1
        /\ \A i \in 1 .. Len(q) : r[i] = q[i]
        /\ r[Len(q) + 1] = n
    BY DEF rt_list_insert_before
  <1>2. DOMAIN q = 1 .. Len(q) /\ DOMAIN r = 1 .. Len(q) + 1 /\ Len(q) \in Nat
    BY <1>1
  <1> HIDE DEF r
  <1>3. Linked(r) = Linked(q) \cup {n}
    <2>1. ASSUME NEW x \in Linked(r) PROVE x \in Linked(q) \cup {n}
      BY <1>1, <1>2 DEF Linked
    <2>2. ASSUME NEW x \in Linked(q) PROVE x \in Linked(r)
      BY <1>1, <1>2 DEF Linked
    <2>3. n \in Linked(r)
      BY <1>1, <1>2 DEF Linked
    <2> QED BY <2>1, <2>2, <2>3
  <1>4. NoDup(q) /\ n \notin Linked(q) => NoDup(r)
    BY <1>1, <1>2 DEF NoDup, Linked
  <1>5. r # <<>>
    BY <1>1, <1>2
  <1> QED BY <1>1, <1>3, <1>4, <1>5 DEF r

(* Linking behind the head does the same at the other end. *)
LEMMA InsertAfterLemma ==
    ASSUME NEW S, NEW q \in Seq(S), NEW n \in S
    PROVE  /\ rt_list_insert_after(q, n) \in Seq(S)
           /\ Linked(rt_list_insert_after(q, n)) = Linked(q) \cup {n}
           /\ NoDup(q) /\ n \notin Linked(q) => NoDup(rt_list_insert_after(q, n))
  <1> DEFINE r == rt_list_insert_after(q, n)
  <1>1. /\ DOMAIN r = 1 .. Len(q) + 1 /\ DOMAIN q = 1 .. Len(q) /\ Len(q) \in Nat
        /\ r[1] = n
        /\ \A i \in 1 .. Len(q) : r[i + 1] = q[i]
        /\ \A i \in 2 .. Len(q) + 1 : r[i] = q[i - 1]
    BY DEF rt_list_insert_after
  <1>2. r \in Seq(S)
    BY DEF rt_list_insert_after
  <1> HIDE DEF r
  <1>3. Linked(r) = Linked(q) \cup {n}
    <2>1. ASSUME NEW x \in Linked(r) PROVE x \in Linked(q) \cup {n}
      <3>1. PICK i \in 1 .. Len(q) + 1 : x = r[i]
        BY <1>1 DEF Linked
      <3>2. CASE i = 1
        BY <3>1, <3>2, <1>1
      <3>3. CASE i # 1
        <4>1. i \in 2 .. Len(q) + 1 /\ i - 1 \in 1 .. Len(q)
          BY <3>1, <3>3, <1>1
        <4> QED BY <4>1, <3>1, <1>1 DEF Linked
      <3> QED BY <3>2, <3>3
    <2>2. ASSUME NEW x \in Linked(q) PROVE x \in Linked(r)
      <3>1. PICK i \in 1 .. Len(q) : x = q[i]
        BY <1>1 DEF Linked
      <3>2. i + 1 \in 1 .. Len(q) + 1 /\ r[i + 1] = x
        BY <3>1, <1>1
      <3> QED BY <3>2, <1>1 DEF Linked
    <2>3. n \in Linked(r)
      BY <1>1 DEF Linked
    <2> QED BY <2>1, <2>2, <2>3
  <1>4. ASSUME NoDup(q), n \notin Linked(q) PROVE NoDup(r)
    <2> SUFFICES ASSUME NEW i \in 1 .. Len(q) + 1, NEW j \in 1 .. Len(q) + 1,
                        r[i] = r[j], i # j
                 PROVE  FALSE
      BY <1>1 DEF NoDup
    <2>1. \A k \in 2 .. Len(q) + 1 : k - 1 \in DOMAIN q /\ r[k] = q[k - 1] /\ r[k] # n
      BY <1>1, <1>4 DEF Linked
    <2>2. i \in 2 .. Len(q) + 1 /\ j \in 2 .. Len(q) + 1
      BY <2>1, <1>1
    <2> QED BY <2>1, <2>2, <1>4 DEF NoDup
  <1> QED BY <1>2, <1>3, <1>4 DEF r

(* Unlinking an entry of a list without duplicates removes it and nothing  *)
(* else; an entry that is not on the list leaves the list alone.           *)
LEMMA RemoveLemma ==
    ASSUME NEW S, NEW q \in Seq(S), NEW n, NoDup(q)
    PROVE  /\ rt_list_remove(q, n) \in Seq(S)
           /\ Linked(rt_list_remove(q, n)) = Linked(q) \ {n}
           /\ NoDup(rt_list_remove(q, n))
           /\ n \notin Linked(q) => rt_list_remove(q, n) = q
  <1> DEFINE r == rt_list_remove(q, n)
  <1>0. n \notin Linked(q) => r = q
    BY DEF rt_list_remove
  <1>1. CASE n \notin Linked(q)
    BY <1>0, <1>1
  <1>2. CASE n \in Linked(q)
    <2> DEFINE p == Position(q, n)
    <2>1. DOMAIN q = 1 .. Len(q) /\ Len(q) \in Nat
      OBVIOUS
    <2>2. p \in 1 .. Len(q) /\ q[p] = n
      BY <1>2, <2>1 DEF Linked, Position
    <2> HIDE DEF p
    <2>3. \A i \in 1 .. Len(q) : q[i] = n => i = p
      BY <2>1, <2>2 DEF NoDup
    <2>4. r = [i \in 1 .. Len(q) - 1 |-> IF i < p THEN q[i] ELSE q[i + 1]]
      BY <1>2 DEF rt_list_remove, p
    <2>5. \A i \in 1 .. Len(q) - 1 : i + 1 \in 1 .. Len(q) /\ i \in 1 .. Len(q)
      BY <2>1
    <2>6. Len(q) - 1 \in Nat
      BY <2>1, <2>2
    <2>7. r \in Seq(S) /\ DOMAIN r = 1 .. Len(q) - 1
      BY <2>1, <2>4, <2>5, <2>6
    <2>8. \A i \in 1 .. Len(q) - 1 : (i < p => r[i] = q[i]) /\ (~(i < p) => r[i] = q[i + 1])
      BY <2>4
    <2> HIDE DEF r
    <2>9. Linked(r) = Linked(q) \ {n}
      <3>1. ASSUME NEW x \in Linked(r) PROVE x \in Linked(q) /\ x # n
        <4>1. PICK i \in 1 .. Len(q) - 1 : x = r[i]
          BY <2>7 DEF Linked
        <4>2. CASE i < p
          <5>1. x = q[i] /\ i \in 1 .. Len(q) /\ i # p
            BY <4>1, <4>2, <2>2, <2>5, <2>8
          <5> QED BY <5>1, <2>1, <2>3 DEF Linked
        <4>3. CASE ~(i < p)
          <5>1. x = q[i + 1] /\ i + 1 \in 1 .. Len(q) /\ i + 1 # p
            BY <4>1, <4>3, <2>2, <2>5, <2>8
          <5> QED BY <5>1, <2>1, <2>3 DEF Linked
        <4> QED BY <4>2, <4>3
      <3>2. ASSUME NEW x \in Linked(q), x # n PROVE x \in Linked(r)
        <4>1. PICK i \in 1 .. Len(q) : x = q[i]
          BY <2>1 DEF Linked
        <4>2. i # p
          BY <4>1, <3>2, <2>2
        <4>3. CASE i < p
          <5>1. i \in 1 .. Len(q) - 1 /\ r[i] = x
            BY <4>1, <4>3, <2>1, <2>2, <2>8
          <5> QED BY <5>1, <2>7 DEF Linked
        <4>4. CASE i > p
          <5>1. i - 1 \in 1 .. Len(q) - 1 /\ ~(i - 1 < p) /\ (i - 1) + 1 = i
            BY <4>4, <2>1, <2>2
          <5>2. r[i - 1] = x
            BY <5>1, <2>8, <4>1
          <5> QED BY <5>1, <5>2, <2>7 DEF Linked
        <4> QED BY <4>2, <4>3, <4>4, <2>1, <2>2
      <3> QED BY <3>1, <3>2
    <2>10. NoDup(r)
      <3> SUFFICES ASSUME NEW i \in 1 .. Len(q) - 1, NEW j \in 1 .. Len(q) - 1,
                          r[i] = r[j]
                   PROVE  i = j
        BY <2>7 DEF NoDup
      <3> DEFINE c(m) == IF m < p THEN m ELSE m + 1
      <3>1. c(i) \in DOMAIN q /\ c(j) \in DOMAIN q
        BY <2>1, <2>5
      <3>2. r[i] = q[c(i)] /\ r[j] = q[c(j)]
        BY <2>8
      <3>3. c(i) = c(j)
        <4> HIDE DEF c
        <4> QED BY <3>1, <3>2 DEF NoDup
      <3> QED BY <3>3, <2>1, <2>2
    <2> QED BY <2>7, <2>9, <2>10, <1>2 DEF r
  <1> QED BY <1>1, <1>2

(* Linking at any position keeps the other entries, each once. *)
LEMMA InsertAtLemma ==
    ASSUME NEW S, NEW q \in Seq(S), NEW n \in S, NEW k \in 1 .. Len(q) + 1
    PROVE  /\ InsertAtPosition(q, k, n) \in Seq(S)
           /\ Linked(InsertAtPosition(q, k, n)) = Linked(q) \cup {n}
           /\ NoDup(q) /\ n \notin Linked(q) => NoDup(InsertAtPosition(q, k, n))
  <1> DEFINE r == InsertAtPosition(q, k, n)
  <1>1. /\ DOMAIN q = 1 .. Len(q) /\ Len(q) \in Nat
        /\ DOMAIN r = 1 .. Len(q) + 1
        /\ r[k] = n
        /\ \A i \in 1 .. Len(q) + 1 : i < k => i \in 1 .. Len(q) /\ r[i] = q[i]
        /\ \A i \in 1 .. Len(q) + 1 : i > k => i - 1 \in 1 .. Len(q) /\ r[i] = q[i - 1]
        /\ \A i \in 1 .. Len(q) : i >= k => i + 1 \in 1 .. Len(q) + 1 /\ r[i + 1] = q[i]
    BY DEF InsertAtPosition
  <1>2. r \in Seq(S)
    BY <1>1 DEF InsertAtPosition
  <1> HIDE DEF r
  <1>3. Linked(r) = Linked(q) \cup {n}
    <2>1. ASSUME NEW x \in Linked(r) PROVE x \in Linked(q) \cup {n}
      <3>1. PICK i \in 1 .. Len(q) + 1 : x = r[i]
        BY <1>1 DEF Linked
      <3>2. i < k \/ i = k \/ i > k
        BY <3>1, <1>1
      <3> QED BY <3>1, <3>2, <1>1 DEF Linked
    <2>2. ASSUME NEW x \in Linked(q) PROVE x \in Linked(r)
      <3>1. PICK i \in 1 .. Len(q) : x = q[i]
        BY <1>1 DEF Linked
      <3>2. CASE i < k
        BY <3>1, <3>2, <1>1 DEF Linked
      <3>3. CASE i >= k
        BY <3>1, <3>3, <1>1 DEF Linked
      <3> QED BY <3>2, <3>3, <1>1
    <2>3. n \in Linked(r)
      BY <1>1 DEF Linked
    <2> QED BY <2>1, <2>2, <2>3
  <1>4. ASSUME NoDup(q), n \notin Linked(q) PROVE NoDup(r)
    <2> SUFFICES ASSUME NEW i \in 1 .. Len(q) + 1, NEW j \in 1 .. Len(q) + 1,
                        r[i] = r[j]
                 PROVE  i = j
      BY <1>1 DEF NoDup
    <2>1. \A m \in 1 .. Len(q) : q[m] # n
      BY <1>1, <1>4 DEF Linked
    <2>2. CASE i = k \/ j = k
      BY <2>1, <2>2, <1>1
    <2>3. CASE i < k /\ j < k
      BY <2>3, <1>1, <1>4 DEF NoDup
    <2>4. CASE i > k /\ j > k
      <3>1. q[i - 1] = q[j - 1] /\ i - 1 \in DOMAIN q /\ j - 1 \in DOMAIN q
        BY <2>4, <1>1
      <3>2. i - 1 = j - 1
        BY <3>1, <1>4 DEF NoDup
      <3> QED BY <3>2, <1>1
    <2>5. CASE i < k /\ j > k
      <3>1. i \in DOMAIN q /\ j - 1 \in DOMAIN q /\ q[i] = q[j - 1]
        BY <2>5, <1>1
      <3>2. i = j - 1
        BY <3>1, <1>4 DEF NoDup
      <3> QED BY <3>2, <2>5, <1>1
    <2>6. CASE i > k /\ j < k
      <3>1. j \in DOMAIN q /\ i - 1 \in DOMAIN q /\ q[j] = q[i - 1]
        BY <2>6, <1>1
      <3>2. j = i - 1
        BY <3>1, <1>4 DEF NoDup
      <3> QED BY <3>2, <2>6, <1>1
    <2> QED BY <2>2, <2>3, <2>4, <2>5, <2>6, <1>1
  <1> QED BY <1>2, <1>3, <1>4 DEF r

(* A list is empty exactly when nothing is linked on it, and the head's    *)
(* successor is then an entry.                                             *)
LEMMA EmptyLemma ==
    ASSUME NEW S, NEW q \in Seq(S)
    PROVE  /\ q = <<>> <=> Linked(q) = {}
           /\ q # <<>> => Head(q) \in Linked(q) /\ Head(q) \in S
           /\ Linked(q) \subseteq S
  <1>1. DOMAIN q = 1 .. Len(q) /\ Len(q) \in Nat
    OBVIOUS
  <1>2. ASSUME q # <<>> PROVE Head(q) = q[1] /\ 1 \in DOMAIN q
    BY <1>1, <1>2
  <1>3. q = <<>> => Linked(q) = {}
    BY DEF Linked
  <1>4. Linked(q) \subseteq S
    BY <1>1 DEF Linked
  <1>5. q # <<>> => Head(q) \in Linked(q)
    BY <1>2 DEF Linked
  <1> QED BY <1>3, <1>4, <1>5

(* Taking the first entry removes exactly that one. *)
LEMMA TailLemma ==
    ASSUME NEW S, NEW q \in Seq(S), q # <<>>, NoDup(q)
    PROVE  /\ Tail(q) \in Seq(S)
           /\ Linked(Tail(q)) = Linked(q) \ {Head(q)}
           /\ NoDup(Tail(q))
  <1> DEFINE r == Tail(q)
  <1>1. /\ DOMAIN q = 1 .. Len(q) /\ Len(q) \in Nat \ {0} /\ Head(q) = q[1]
        /\ r \in Seq(S) /\ DOMAIN r = 1 .. Len(q) - 1
        /\ \A i \in 1 .. Len(q) - 1 : r[i] = q[i + 1]
    OBVIOUS
  <1> HIDE DEF r
  <1>2. ASSUME NEW i \in DOMAIN r, NEW j \in DOMAIN r, r[i] = r[j] PROVE i = j
    <2>1. i + 1 \in DOMAIN q /\ j + 1 \in DOMAIN q /\ q[i + 1] = q[j + 1]
      BY <1>1, <1>2
    <2>2. i + 1 = j + 1
      BY <2>1 DEF NoDup
    <2> QED BY <1>1, <2>2
  <1>3. ASSUME NEW x \in Linked(r) PROVE x \in Linked(q) \ {Head(q)}
    <2>1. PICK i \in 1 .. Len(q) - 1 : x = q[i + 1]
      BY <1>1 DEF Linked
    <2>2. i + 1 \in DOMAIN q /\ 1 \in DOMAIN q /\ i + 1 # 1
      BY <1>1
    <2> QED BY <1>1, <2>1, <2>2 DEF Linked, NoDup
  <1>4. ASSUME NEW x \in Linked(q) \ {Head(q)} PROVE x \in Linked(r)
    <2>1. PICK i \in 1 .. Len(q) : x = q[i]
      BY <1>1 DEF Linked
    <2>2. i # 1 /\ i - 1 \in DOMAIN r /\ r[i - 1] = q[i]
      BY <1>1, <2>1
    <2> QED BY <2>1, <2>2 DEF Linked
  <1> QED BY <1>1, <1>2, <1>3, <1>4 DEF r, NoDup

(* Every set of priorities with a member has a most urgent one. *)
LEMMA LeastLemma ==
    ASSUME NEW P, P \subseteq Nat, P # {}
    PROVE  \E q \in P : \A r \in P : q <= r
  <1> DEFINE R == OpToRel(<, Nat)
  <1>1. IsWellFoundedOn(R, Nat)
    BY NatLessThanWellFounded
  <1>2. \A q, r \in Nat : <<r, q>> \in R <=> r < q
    BY DEF OpToRel
  <1> HIDE DEF R
  <1>3. PICK q \in P : \A r \in P : ~(<<r, q>> \in R)
    BY <1>1, WFMin
  <1>4. ASSUME NEW r \in P PROVE q <= r
    <2>1. q \in Nat /\ r \in Nat
      BY <1>3
    <2>2. ~(r < q)
      BY <1>2, <1>3, <2>1
    <2> QED BY <2>1, <2>2
  <1> QED BY <1>4

(* A waiter's place in line exists, and is unique enough to be chosen: all   *)
(* before it are at least as urgent, the one after it is less urgent.        *)
LEMMA PositionLemma ==
    ASSUME NEW S, NEW q \in Seq(S), NEW t \in S, NEW prio \in [S -> Nat]
    PROVE  LET k == SuitablePosition(q, t, prio) IN
           /\ k \in 1 .. Len(q) + 1
           /\ \A i \in 1 .. k - 1 : prio[q[i]] <= prio[t]
           /\ k <= Len(q) => prio[t] < prio[q[k]]
  <1> DEFINE Fits(k) == /\ \A i \in 1 .. k - 1 : prio[q[i]] <= prio[t]
                        /\ k <= Len(q) => prio[t] < prio[q[k]]
             Less == {i \in 1 .. Len(q) : prio[t] < prio[q[i]]}
  <1>1. Len(q) \in Nat /\ \A i \in 1 .. Len(q) : prio[q[i]] \in Nat
    OBVIOUS
  <1>2. prio[t] \in Nat
    OBVIOUS
  <1>3. \E k \in 1 .. Len(q) + 1 : Fits(k)
    <2>1. CASE Less = {}
      <3>1. \A i \in 1 .. Len(q) : prio[q[i]] <= prio[t]
        BY <1>1, <1>2, <2>1
      <3>2. Fits(Len(q) + 1) /\ Len(q) + 1 \in 1 .. Len(q) + 1
        BY <1>1, <3>1
      <3> QED BY <3>2
    <2>2. CASE Less # {}
      <3>0. Less \subseteq Nat
        OBVIOUS
      <3>1. PICK k \in Less : \A m \in Less : k <= m
        <4> HIDE DEF Less
        <4> QED BY <2>2, <3>0, LeastLemma
      <3>2. ASSUME NEW i \in 1 .. k - 1 PROVE prio[q[i]] <= prio[t]
        <4>1. i \in 1 .. Len(q) /\ ~(k <= i)
          BY <1>1, <3>1
        <4>2. i \notin Less
          BY <3>1, <4>1
        <4> QED BY <1>1, <1>2, <4>1, <4>2
      <3>3. k \in 1 .. Len(q) + 1 /\ prio[t] < prio[q[k]]
        BY <1>1, <3>1
      <3> QED BY <3>2, <3>3
    <2> QED BY <2>1, <2>2
  <1>4. SuitablePosition(q, t, prio) = CHOOSE k \in 1 .. Len(q) + 1 : Fits(k)
    BY DEF SuitablePosition
  <1> QED BY <1>3, <1>4

(* Suspending on the list of an IPC object adds exactly that thread, whatever *)
(* the flag of the object.                                                   *)
LEMMA SuspendLemma ==
    ASSUME NEW S, NEW q \in Seq(S), NEW t \in S, NEW prio \in [S -> Nat], NEW flag
    PROVE  LET r == _ipc_list_suspend(q, t, flag, prio) IN
           /\ r \in Seq(S)
           /\ Linked(r) = Linked(q) \cup {t}
           /\ NoDup(q) /\ t \notin Linked(q) => NoDup(r)
  <1>1. CASE flag = "FIFO"
    BY <1>1, InsertBeforeLemma DEF _ipc_list_suspend
  <1>2. CASE flag # "FIFO"
    <2>1. SuitablePosition(q, t, prio) \in 1 .. Len(q) + 1
      BY PositionLemma
    <2> QED BY <1>2, <2>1, InsertAtLemma DEF _ipc_list_suspend
  <1> QED BY <1>1, <1>2

-----------------------------------------------------------------------------
(* Every entry stands in the relation R to those behind it. *)
Ordered(q, R) == \A i, j \in DOMAIN q : i < j => <<q[i], q[j]>> \in R

(* A list stays in order as an entry leaves it ... *)
LEMMA RemoveOrdered ==
    ASSUME NEW S, NEW q \in Seq(S), NEW n, NEW R, NoDup(q), Ordered(q, R)
    PROVE  Ordered(rt_list_remove(q, n), R)
  <1>1. CASE n \notin Linked(q)
    BY <1>1 DEF rt_list_remove
  <1>2. CASE n \in Linked(q)
    <2> DEFINE p == Position(q, n)
               r == rt_list_remove(q, n)
               c(m) == IF m < p THEN m ELSE m + 1
    <2>1. DOMAIN q = 1 .. Len(q) /\ Len(q) \in Nat
      OBVIOUS
    <2>2. p \in 1 .. Len(q)
      BY <1>2, <2>1 DEF Linked, Position
    <2>3. r = [i \in 1 .. Len(q) - 1 |-> IF i < p THEN q[i] ELSE q[i + 1]]
      BY <1>2 DEF rt_list_remove
    <2> HIDE DEF p, r
    <2> SUFFICES ASSUME NEW i \in DOMAIN r, NEW j \in DOMAIN r, i < j
                 PROVE  <<r[i], r[j]>> \in R
      BY DEF Ordered, r
    <2>4. i \in 1 .. Len(q) - 1 /\ j \in 1 .. Len(q) - 1
      BY <2>3
    <2>5. r[i] = q[c(i)] /\ r[j] = q[c(j)]
      BY <2>3, <2>4
    <2>6. c(i) \in DOMAIN q /\ c(j) \in DOMAIN q /\ c(i) < c(j)
      BY <2>1, <2>2, <2>4
    <2> HIDE DEF c
    <2> QED BY <2>5, <2>6 DEF Ordered
  <1> QED BY <1>1, <1>2

(* ... and as one joins it behind those it may follow, before the others. *)
LEMMA InsertOrdered ==
    ASSUME NEW S, NEW q \in Seq(S), NEW n \in S, NEW k \in 1 .. Len(q) + 1, NEW R,
           Ordered(q, R),
           \A i \in DOMAIN q : i < k => <<q[i], n>> \in R,
           \A i \in DOMAIN q : i >= k => <<n, q[i]>> \in R
    PROVE  Ordered(InsertAtPosition(q, k, n), R)
  <1> DEFINE r == InsertAtPosition(q, k, n)
  <1>1. /\ DOMAIN q = 1 .. Len(q) /\ Len(q) \in Nat
        /\ DOMAIN r = 1 .. Len(q) + 1
        /\ r[k] = n
        /\ \A i \in 1 .. Len(q) + 1 : i < k => i \in 1 .. Len(q) /\ r[i] = q[i]
        /\ \A i \in 1 .. Len(q) + 1 : i > k => i - 1 \in 1 .. Len(q) /\ r[i] = q[i - 1]
    BY DEF InsertAtPosition
  <1> HIDE DEF r
  <1> SUFFICES ASSUME NEW i \in DOMAIN r, NEW j \in DOMAIN r, i < j
               PROVE  <<r[i], r[j]>> \in R
    BY DEF Ordered, r
  <1>2. CASE j < k
    <2>1. i \in DOMAIN q /\ j \in DOMAIN q /\ r[i] = q[i] /\ r[j] = q[j]
      BY <1>1, <1>2
    <2> QED BY <2>1 DEF Ordered
  <1>3. CASE j = k
    <2>1. i \in DOMAIN q /\ r[i] = q[i] /\ i < k
      BY <1>1, <1>3
    <2> QED BY <1>1, <1>3, <2>1
  <1>4. CASE i = k
    <2>1. j - 1 \in DOMAIN q /\ r[j] = q[j - 1] /\ j - 1 >= k
      BY <1>1, <1>4
    <2> QED BY <1>1, <1>4, <2>1
  <1>5. CASE i < k /\ j > k
    <2>1. i \in DOMAIN q /\ j - 1 \in DOMAIN q /\ r[i] = q[i] /\ r[j] = q[j - 1] /\ i < j - 1
      BY <1>1, <1>5
    <2> QED BY <2>1 DEF Ordered
  <1>6. CASE i > k
    <2>1. i - 1 \in DOMAIN q /\ j - 1 \in DOMAIN q /\ r[i] = q[i - 1] /\ r[j] = q[j - 1]
          /\ i - 1 < j - 1
      BY <1>1, <1>6
    <2> QED BY <2>1 DEF Ordered
  <1> QED BY <1>1, <1>2, <1>3, <1>4, <1>5, <1>6

(* The same at the end of the list. *)
LEMMA AppendOrdered ==
    ASSUME NEW S, NEW q \in Seq(S), NEW n \in S, NEW R, Ordered(q, R),
           \A x \in Linked(q) : <<x, n>> \in R
    PROVE  Ordered(rt_list_insert_before(q, n), R)
  <1> DEFINE r == rt_list_insert_before(q, n)
  <1>1. /\ DOMAIN r = 1 .. Len(q) + 1 /\ DOMAIN q = 1 .. Len(q) /\ Len(q) \in Nat
        /\ \A i \in 1 .. Len(q) : r[i] = q[i]
        /\ r[Len(q) + 1] = n
    BY DEF rt_list_insert_before
  <1> HIDE DEF r
  <1> SUFFICES ASSUME NEW i \in DOMAIN r, NEW j \in DOMAIN r, i < j
               PROVE  <<r[i], r[j]>> \in R
    BY DEF Ordered, r
  <1>2. i \in DOMAIN q /\ r[i] = q[i]
    BY <1>1
  <1>3. CASE j \in DOMAIN q
    BY <1>1, <1>2, <1>3 DEF Ordered
  <1>4. CASE j \notin DOMAIN q
    BY <1>1, <1>2, <1>4 DEF Linked
  <1> QED BY <1>3, <1>4

(* Only what is linked matters. *)
LEMMA OrderedByLemma ==
    ASSUME NEW q, NEW R, NEW Q, Ordered(q, R),
           \A x, y \in Linked(q) : <<x, y>> \in R => <<x, y>> \in Q
    PROVE  Ordered(q, Q)
  BY DEF Ordered, Linked

-----------------------------------------------------------------------------
(* x comes before y in a list of distinct entries. *)
Before(q) == {z \in Linked(q) \X Linked(q) : Position(q, z[1]) < Position(q, z[2])}

LEMMA PlaceLemma ==
    ASSUME NEW S, NEW q \in Seq(S), NoDup(q)
    PROVE  /\ \A x \in Linked(q) : Position(q, x) \in DOMAIN q /\ q[Position(q, x)] = x
           /\ \A i \in DOMAIN q : Position(q, q[i]) = i
  <1>1. ASSUME NEW x \in Linked(q)
        PROVE  Position(q, x) \in DOMAIN q /\ q[Position(q, x)] = x
    BY DEF Linked, Position
  <1>2. ASSUME NEW i \in DOMAIN q PROVE Position(q, q[i]) = i
    <2>1. q[i] \in Linked(q)
      BY DEF Linked
    <2> QED BY <1>1, <2>1 DEF NoDup
  <1> QED BY <1>1, <1>2

LEMMA BeforeOrdered ==
    ASSUME NEW S, NEW q \in Seq(S), NoDup(q)
    PROVE  /\ Ordered(q, Before(q))
           /\ \A x, y \in Linked(q) : x # y => <<x, y>> \in Before(q) \/ <<y, x>> \in Before(q)
           /\ \A x, y \in Linked(q) : ~(<<x, y>> \in Before(q) /\ <<y, x>> \in Before(q))
  <1>1. DOMAIN q = 1 .. Len(q) /\ Len(q) \in Nat
    OBVIOUS
  <1>2. \A i \in DOMAIN q : q[i] \in Linked(q) /\ Position(q, q[i]) = i
    BY PlaceLemma DEF Linked
  <1>3. Ordered(q, Before(q))
    BY <1>2 DEF Ordered, Before
  <1>4. \A x \in Linked(q) : Position(q, x) \in Nat /\ q[Position(q, x)] = x
    BY <1>1, PlaceLemma
  <1>5. ASSUME NEW x \in Linked(q), NEW y \in Linked(q), x # y
        PROVE  Position(q, x) < Position(q, y) \/ Position(q, y) < Position(q, x)
    BY <1>4, <1>5
  <1>6. \A x, y \in Linked(q) : <<x, y>> \in Before(q) <=> Position(q, x) < Position(q, y)
    BY DEF Before
  <1>7. ASSUME NEW x \in Linked(q), NEW y \in Linked(q)
        PROVE  ~(Position(q, x) < Position(q, y) /\ Position(q, y) < Position(q, x))
    BY <1>4
  <1> QED BY <1>3, <1>5, <1>6, <1>7

(* A list in another's order has its entries in that order. *)
LEMMA SameOrderLemma ==
    ASSUME NEW S, NEW q \in Seq(S), NEW r \in Seq(S), NoDup(q), NoDup(r),
           Linked(r) \subseteq Linked(q), Ordered(r, Before(q)),
           NEW x \in Linked(r), NEW y \in Linked(r)
    PROVE  <<x, y>> \in Before(r) <=> <<x, y>> \in Before(q)
  <1>1. ASSUME NEW u \in Linked(r), NEW v \in Linked(r), <<u, v>> \in Before(r)
        PROVE  <<u, v>> \in Before(q)
    <2>1. /\ Position(r, u) \in DOMAIN r /\ r[Position(r, u)] = u
          /\ Position(r, v) \in DOMAIN r /\ r[Position(r, v)] = v
      BY PlaceLemma
    <2>2. Position(r, u) < Position(r, v)
      BY <1>1 DEF Before
    <2> QED BY <2>1, <2>2 DEF Ordered
  <1>2. ASSUME <<x, y>> \in Before(q) PROVE <<x, y>> \in Before(r)
    <2>1. x # y /\ <<y, x>> \notin Before(q)
      BY <1>2, BeforeOrdered
    <2>2. <<x, y>> \in Before(r) \/ <<y, x>> \in Before(r)
      BY <2>1, BeforeOrdered
    <2> QED BY <1>1, <2>1, <2>2
  <1> QED BY <1>1, <1>2

(* Leaving and joining at the end change nothing between the others. *)
LEMMA RemoveBefore ==
    ASSUME NEW S, NEW q \in Seq(S), NoDup(q), NEW n,
           NEW x \in Linked(q) \ {n}, NEW y \in Linked(q) \ {n}
    PROVE  <<x, y>> \in Before(rt_list_remove(q, n)) <=> <<x, y>> \in Before(q)
  <1> DEFINE r == rt_list_remove(q, n)
  <1>1. r \in Seq(S) /\ NoDup(r) /\ Linked(r) = Linked(q) \ {n}
    BY RemoveLemma
  <1>2. Ordered(r, Before(q))
    BY BeforeOrdered, RemoveOrdered
  <1> HIDE DEF r
  <1>3. x \in Linked(r) /\ y \in Linked(r) /\ Linked(r) \subseteq Linked(q)
    BY <1>1
  <1>4. <<x, y>> \in Before(r) <=> <<x, y>> \in Before(q)
    BY <1>1, <1>2, <1>3, SameOrderLemma
  <1> QED BY <1>4 DEF r

LEMMA AppendBefore ==
    ASSUME NEW S, NEW q \in Seq(S), NoDup(q), NEW n \in S, n \notin Linked(q)
    PROVE  /\ \A x \in Linked(q) : <<x, n>> \in Before(Append(q, n))
           /\ \A x, y \in Linked(q) :
                <<x, y>> \in Before(q) => <<x, y>> \in Before(Append(q, n))
  <1> DEFINE r == Append(q, n)
  <1>1. r \in Seq(S) /\ NoDup(r) /\ Linked(r) = Linked(q) \cup {n}
    BY InsertBeforeLemma DEF rt_list_insert_before
  <1>2. /\ Len(q) \in Nat /\ DOMAIN q = 1 .. Len(q) /\ DOMAIN r = 1 .. Len(q) + 1
        /\ r[Len(q) + 1] = n /\ \A i \in 1 .. Len(q) : r[i] = q[i]
    OBVIOUS
  <1> HIDE DEF r
  <1>3. ASSUME NEW x \in Linked(q)
        PROVE  Position(r, x) = Position(q, x) /\ Position(q, x) \in 1 .. Len(q)
    <2>1. Position(q, x) \in 1 .. Len(q) /\ q[Position(q, x)] = x
      BY <1>2, PlaceLemma
    <2>2. Position(q, x) \in DOMAIN r /\ r[Position(q, x)] = x
      BY <1>2, <2>1
    <2>3. Position(r, r[Position(q, x)]) = Position(q, x)
      BY <1>1, <2>2, PlaceLemma
    <2> QED BY <2>1, <2>2, <2>3
  <1>4. Position(r, n) = Len(q) + 1
    <2>1. Len(q) + 1 \in DOMAIN r
      BY <1>2
    <2>2. Position(r, r[Len(q) + 1]) = Len(q) + 1
      BY <1>1, <2>1, PlaceLemma
    <2> QED BY <1>2, <2>2
  <1>5. ASSUME NEW x \in Linked(q) PROVE <<x, n>> \in Before(r)
    <2>1. x \in Linked(r) /\ n \in Linked(r) /\ Position(r, x) < Position(r, n)
      BY <1>1, <1>2, <1>3, <1>4
    <2> QED BY <2>1 DEF Before
  <1>6. \A x, y \in Linked(q) : <<x, y>> \in Before(q) => <<x, y>> \in Before(r)
    BY <1>1, <1>3 DEF Before
  <1> QED BY <1>5, <1>6 DEF r

-----------------------------------------------------------------------------
(* Rings of n slots read from an offset on, as mailboxes, data queues and    *)
(* character buffers keep them.                                            *)

(* The e entries from offset o on, the first first. *)
RingEntries(pool, n, o, e) == [i \in 1 .. e |-> pool[(o + i - 1) % n]]

SlotWritten(pool, i, v) == [pool EXCEPT ![i] = v]

-----------------------------------------------------------------------------
(* Offsets *)

(* One round of a ring of n slots. *)
LEMMA ModLemma ==
    ASSUME NEW n \in Nat \ {0}, NEW a \in 0 .. 2 * n - 1
    PROVE  a % n = IF a < n THEN a ELSE a - n
  <1>1. ASSUME NEW b \in 0 .. n - 1 PROVE b % n = b /\ (b + n) % n = b
    OBVIOUS
  <1>2. CASE a < n
    BY <1>1, <1>2
  <1>3. CASE ~(a < n)
    <2>1. a - n \in 0 .. n - 1 /\ (a - n) + n = a
      BY <1>3
    <2> QED BY <1>1, <1>3, <2>1
  <1> QED BY <1>2, <1>3

(* The slot k places behind offset o. *)
LEMMA SlotLemma ==
    ASSUME NEW n \in Nat \ {0}, NEW o \in 0 .. n - 1, NEW k \in 0 .. n
    PROVE  (o + k) % n = IF o + k < n THEN o + k ELSE o + k - n
  <1> DEFINE a == o + k
  <1>1. a \in 0 .. 2 * n - 1
    OBVIOUS
  <1> HIDE DEF a
  <1>2. a % n = IF a < n THEN a ELSE a - n
    BY <1>1, ModLemma
  <1> QED BY <1>2 DEF a

LEMMA FirstSlotLemma ==
    ASSUME NEW n \in Nat \ {0}, NEW o \in 0 .. n - 1
    PROVE  (o + 0) % n = o
  <1>1. 0 \in 0 .. n
    OBVIOUS
  <1>2. (o + 0) % n = IF o + 0 < n THEN o + 0 ELSE o + 0 - n
    BY <1>1, SlotLemma
  <1> QED BY <1>2

(* It is in the ring, and no other is it. *)
LEMMA SlotsDiffer ==
    ASSUME NEW n \in Nat \ {0}, NEW o \in 0 .. n - 1,
           NEW j \in 0 .. n - 1, NEW k \in 0 .. n - 1
    PROVE  (o + k) % n \in 0 .. n - 1 /\ ((o + j) % n = (o + k) % n => j = k)
  <1>1. j \in 0 .. n /\ k \in 0 .. n
    OBVIOUS
  <1>2. /\ (o + j) % n = IF o + j < n THEN o + j ELSE o + j - n
        /\ (o + k) % n = IF o + k < n THEN o + k ELSE o + k - n
    BY <1>1, SlotLemma
  <1> QED BY <1>2

(* One place further, from the offset or from the slot. *)
LEMMA NextSlotLemma ==
    ASSUME NEW n \in Nat \ {0}, NEW o \in 0 .. n - 1, NEW k \in 0 .. n - 1,
           NEW next, next = (IF o + 1 >= n THEN 0 ELSE o + 1)
    PROVE  /\ next \in 0 .. n - 1
           /\ (next + k) % n = (o + (k + 1)) % n
           /\ (o + (k + 1)) % n = IF ((o + k) % n) + 1 >= n THEN 0 ELSE ((o + k) % n) + 1
  <1>1. next \in 0 .. n - 1 /\ k \in 0 .. n /\ k + 1 \in 0 .. n
    OBVIOUS
  <1>2. (o + k) % n = IF o + k < n THEN o + k ELSE o + k - n
    BY <1>1, SlotLemma
  <1>3. (o + (k + 1)) % n = IF o + (k + 1) < n THEN o + (k + 1) ELSE o + (k + 1) - n
    <2> DEFINE j == k + 1
    <2>1. j \in 0 .. n
      BY <1>1
    <2> HIDE DEF j
    <2>2. (o + j) % n = IF o + j < n THEN o + j ELSE o + j - n
      BY <2>1, SlotLemma
    <2> QED BY <2>2 DEF j
  <1>4. (next + k) % n = IF next + k < n THEN next + k ELSE next + k - n
    BY <1>1, SlotLemma
  <1>5. (next + k) % n = (o + (k + 1)) % n
    BY <1>3, <1>4
  <1>6. (o + (k + 1)) % n = IF ((o + k) % n) + 1 >= n THEN 0 ELSE ((o + k) % n) + 1
    BY <1>2, <1>3
  <1> QED BY <1>1, <1>5, <1>6

(* A place is as far behind the slot before the offset and one. *)
LEMMA SlotBeforeLemma ==
    ASSUME NEW n \in Nat \ {0}, NEW o \in 0 .. n - 1, NEW k \in 0 .. n - 1,
           NEW before, before = (IF o > 0 THEN o - 1 ELSE n - 1)
    PROVE  before \in 0 .. n - 1 /\ (before + (k + 1)) % n = (o + k) % n
  <1>1. before \in 0 .. n - 1 /\ o = (IF before + 1 >= n THEN 0 ELSE before + 1)
    OBVIOUS
  <1> QED BY <1>1, NextSlotLemma

-----------------------------------------------------------------------------
(* Sequences: one entry more in front. *)
LEMMA ConsLemma ==
    ASSUME NEW S, NEW q \in Seq(S), NEW v \in S, NEW r \in Seq(S),
           Len(r) = Len(q) + 1, \A i \in 1 .. Len(q) : r[i + 1] = q[i], r[1] = v
    PROVE  r = <<v>> \o q
  <1> DEFINE c == <<v>> \o q
  <1>1. c \in Seq(S) /\ Len(c) = Len(q) + 1 /\ c[1] = v
    OBVIOUS
  <1>2. ASSUME NEW i \in 1 .. Len(q) PROVE c[i + 1] = q[i]
    OBVIOUS
  <1>3. \A i \in 1 .. Len(q) + 1 : i = 1 \/ i - 1 \in 1 .. Len(q)
    OBVIOUS
  <1> HIDE DEF c
  <1>4. ASSUME NEW i \in 1 .. Len(q) + 1 PROVE r[i] = c[i]
    <2>1. CASE i = 1
      BY <1>1, <2>1
    <2>2. CASE i # 1
      <3>1. i - 1 \in 1 .. Len(q) /\ (i - 1) + 1 = i
        BY <1>3, <2>2
      <3> QED BY <1>2, <3>1
    <2> QED BY <2>1, <2>2
  <1>5. r = c
    BY <1>1, <1>4
  <1> QED BY <1>5 DEF c

(* One more at the end. *)
LEMMA SnocLemma ==
    ASSUME NEW S, NEW q \in Seq(S), NEW v \in S, NEW r \in Seq(S),
           Len(r) = Len(q) + 1, \A i \in 1 .. Len(q) : r[i] = q[i], r[Len(q) + 1] = v
    PROVE  r = Append(q, v)
  <1> DEFINE c == Append(q, v)
  <1>1. c \in Seq(S) /\ Len(c) = Len(q) + 1 /\ c[Len(q) + 1] = v
    OBVIOUS
  <1>2. \A i \in 1 .. Len(q) : c[i] = q[i]
    OBVIOUS
  <1>3. \A i \in 1 .. Len(q) + 1 : i = Len(q) + 1 \/ i \in 1 .. Len(q)
    OBVIOUS
  <1> HIDE DEF c
  <1>4. \A i \in 1 .. Len(q) + 1 : r[i] = c[i]
    BY <1>1, <1>2, <1>3
  <1>5. r = c
    BY <1>1, <1>4
  <1> QED BY <1>5 DEF c

(* One less in front. *)
LEMMA UnconsLemma ==
    ASSUME NEW S, NEW q \in Seq(S), NEW r \in Seq(S), q # <<>>,
           Len(r) = Len(q) - 1, \A i \in 1 .. Len(q) - 1 : r[i] = q[i + 1]
    PROVE  r = Tail(q)
  <1> DEFINE c == Tail(q)
  <1>1. c \in Seq(S) /\ Len(c) = Len(q) - 1
    OBVIOUS
  <1>2. \A i \in 1 .. Len(q) - 1 : c[i] = q[i + 1]
    OBVIOUS
  <1> HIDE DEF c
  <1>3. r = c
    BY <1>1, <1>2
  <1> QED BY <1>3 DEF c

-----------------------------------------------------------------------------
(* Slots that hold entries of S, the first at o, e of them. *)
IsRing(n, S, pool, o, e) ==
    n \in Nat \ {0} /\ pool \in [0 .. n - 1 -> S] /\ o \in 0 .. n - 1 /\ e \in 0 .. n

LEMMA RingLemma ==
    ASSUME NEW n, NEW S, NEW pool, NEW o, NEW e, IsRing(n, S, pool, o, e)
    PROVE  /\ RingEntries(pool, n, o, e) \in Seq(S) /\ Len(RingEntries(pool, n, o, e)) = e
           /\ \A k \in 0 .. e - 1 : RingEntries(pool, n, o, e)[k + 1] = pool[(o + k) % n]
  <1> DEFINE slot(i) == o + i - 1
             r == RingEntries(pool, n, o, e)
  <1> n \in Nat \ {0} /\ pool \in [0 .. n - 1 -> S] /\ o \in 0 .. n - 1 /\ e \in 0 .. n
    BY DEF IsRing
  <1>1. ASSUME NEW k \in 0 .. e - 1 PROVE pool[(o + k) % n] \in S
    <2>1. k \in 0 .. n - 1
      OBVIOUS
    <2>2. (o + k) % n \in 0 .. n - 1
      BY <2>1, SlotsDiffer
    <2> QED BY <2>2
  <1>2. ASSUME NEW i \in 1 .. e PROVE slot(i) = o + (i - 1) /\ i - 1 \in 0 .. e - 1
    OBVIOUS
  <1>3. ASSUME NEW i \in 1 .. e PROVE pool[slot(i) % n] \in S
    <2>1. pool[(o + (i - 1)) % n] \in S
      BY <1>1, <1>2
    <2> QED BY <1>2, <2>1
  <1>4. r = [i \in 1 .. e |-> pool[slot(i) % n]]
    BY DEF RingEntries
  <1> HIDE DEF slot, r
  <1>5. r \in [1 .. e -> S]
    BY <1>3, <1>4
  <1>6. r \in Seq(S) /\ Len(r) = e
    BY <1>5
  <1>7. ASSUME NEW k \in 0 .. e - 1 PROVE r[k + 1] = pool[(o + k) % n]
    <2>1. k + 1 \in 1 .. e /\ slot(k + 1) = o + k
      BY DEF slot
    <2> QED BY <1>4, <2>1
  <1> QED BY <1>6, <1>7 DEF r

(* Writing behind the last entry. *)
LEMMA RingAppend ==
    ASSUME NEW n, NEW S, NEW pool, NEW o, NEW e, IsRing(n, S, pool, o, e), e # n,
           NEW v \in S
    PROVE  /\ RingEntries(SlotWritten(pool, (o + e) % n, v), n, o, e + 1) =
                Append(RingEntries(pool, n, o, e), v)
           /\ (o + (e + 1)) % n = IF ((o + e) % n) + 1 >= n THEN 0 ELSE ((o + e) % n) + 1
  <1> DEFINE w == (o + e) % n
             new == SlotWritten(pool, w, v)
             q == RingEntries(pool, n, o, e)
             r == RingEntries(new, n, o, e + 1)
  <1> /\ n \in Nat \ {0} /\ pool \in [0 .. n - 1 -> S] /\ o \in 0 .. n - 1
      /\ e \in 0 .. n - 1
    BY DEF IsRing
  <1>1. w \in 0 .. n - 1
    BY SlotsDiffer
  <1>2. /\ new \in [0 .. n - 1 -> S]
        /\ \A i \in 0 .. n - 1 : new[i] = IF i = w THEN v ELSE pool[i]
    BY <1>1 DEF SlotWritten
  <1>3. /\ e + 1 \in 0 .. n /\ (e + 1) - 1 = e /\ e \in 0 .. n /\ e \in 0 .. e
        /\ \A k \in 0 .. e - 1 : k \in 0 .. n - 1 /\ k \in 0 .. e /\ k # e
        /\ \A i \in 1 .. e : i - 1 \in 0 .. e - 1 /\ (i - 1) + 1 = i
    OBVIOUS
  <1>4. (o + (e + 1)) % n = IF w + 1 >= n THEN 0 ELSE w + 1
    BY NextSlotLemma
  <1> HIDE DEF new, w
  <1>5. /\ q \in Seq(S) /\ Len(q) = e
        /\ \A k \in 0 .. e - 1 : q[k + 1] = pool[(o + k) % n]
    <2>1. q = RingEntries(pool, n, o, e)
      OBVIOUS
    <2> HIDE DEF q
    <2> QED BY ONLY IsRing(n, S, pool, o, e), <2>1, RingLemma
  <1>6. /\ r \in Seq(S) /\ Len(r) = e + 1
        /\ \A k \in 0 .. e : r[k + 1] = new[(o + k) % n]
    <2> DEFINE m == e + 1
    <2>1. IsRing(n, S, new, o, m) /\ r = RingEntries(new, n, o, m)
      BY <1>1, <1>2 DEF IsRing
    <2>2. m = e + 1 /\ m - 1 = e
      OBVIOUS
    <2> HIDE DEF m, r
    <2>3. /\ r \in Seq(S) /\ Len(r) = m
          /\ \A k \in 0 .. m - 1 : r[k + 1] = new[(o + k) % n]
      BY ONLY <2>1, RingLemma
    <2> QED BY <2>2, <2>3
  <1> HIDE DEF q, r
  <1>7. ASSUME NEW k \in 0 .. e - 1 PROVE r[k + 1] = q[k + 1]
    <2>1. (o + k) % n \in 0 .. n - 1 /\ (o + k) % n # w
      BY <1>3, SlotsDiffer DEF w
    <2> QED BY <1>2, <1>3, <1>5, <1>6, <2>1
  <1>8. ASSUME NEW i \in 1 .. e PROVE r[i] = q[i]
    BY <1>3, <1>7
  <1>9. r[e + 1] = v
    BY <1>1, <1>2, <1>3, <1>6 DEF w
  <1>10. r = Append(q, v)
    BY <1>5, <1>6, <1>8, <1>9, SnocLemma
  <1> QED BY <1>4, <1>10 DEF q, r, new, w

(* Writing before the first entry, which is then one slot further back. *)
LEMMA RingPushFront ==
    ASSUME NEW n, NEW S, NEW pool, NEW o, NEW e, IsRing(n, S, pool, o, e), e # n,
           NEW v \in S, NEW b, b = (IF o > 0 THEN o - 1 ELSE n - 1)
    PROVE  /\ RingEntries(SlotWritten(pool, b, v), n, b, e + 1) = <<v>> \o RingEntries(pool, n, o, e)
           /\ (b + (e + 1)) % n = (o + e) % n
  <1> DEFINE new == SlotWritten(pool, b, v)
             q == RingEntries(pool, n, o, e)
             r == RingEntries(new, n, b, e + 1)
             z == 0
  <1> /\ n \in Nat \ {0} /\ pool \in [0 .. n - 1 -> S] /\ o \in 0 .. n - 1
      /\ e \in 0 .. n - 1
    BY DEF IsRing
  <1>1. b \in 0 .. n - 1
    OBVIOUS
  <1>2. /\ new \in [0 .. n - 1 -> S]
        /\ \A i \in 0 .. n - 1 : new[i] = IF i = b THEN v ELSE pool[i]
    BY <1>1 DEF SlotWritten
  <1>3. /\ e + 1 \in 0 .. n /\ (e + 1) - 1 = e /\ e \in 0 .. n
        /\ \A i \in 1 .. e : i - 1 \in 0 .. e - 1 /\ (i - 1) + 1 = i
    OBVIOUS
  <1>4. (b + (e + 1)) % n = (o + e) % n
    BY SlotBeforeLemma
  <1>5. z \in 0 .. n - 1 /\ z \in 0 .. e /\ z + 1 = 1
    OBVIOUS
  <1>6. (b + z) % n = b
    BY <1>1, FirstSlotLemma
  <1> HIDE DEF new, z
  <1>7. /\ q \in Seq(S) /\ Len(q) = e
        /\ \A k \in 0 .. e - 1 : q[k + 1] = pool[(o + k) % n]
    <2>1. q = RingEntries(pool, n, o, e)
      OBVIOUS
    <2> HIDE DEF q
    <2> QED BY ONLY IsRing(n, S, pool, o, e), <2>1, RingLemma
  <1>8. /\ r \in Seq(S) /\ Len(r) = e + 1
        /\ \A k \in 0 .. e : r[k + 1] = new[(b + k) % n]
    <2> DEFINE m == e + 1
    <2>1. IsRing(n, S, new, b, m) /\ r = RingEntries(new, n, b, m)
      BY <1>1, <1>2 DEF IsRing
    <2>2. m = e + 1 /\ m - 1 = e
      OBVIOUS
    <2> HIDE DEF m, r
    <2>3. /\ r \in Seq(S) /\ Len(r) = m
          /\ \A k \in 0 .. m - 1 : r[k + 1] = new[(b + k) % n]
      BY ONLY <2>1, RingLemma
    <2> QED BY <2>2, <2>3
  <1> HIDE DEF q, r
  <1>9. ASSUME NEW k \in 0 .. e - 1 PROVE r[(k + 1) + 1] = q[k + 1]
    <2> DEFINE j == k + 1
    <2>1. k \in 0 .. n - 1 /\ j \in 0 .. e /\ j \in 0 .. n - 1 /\ z # j
      BY DEF z
    <2>2. (b + j) % n = (o + k) % n
      BY <2>1, SlotBeforeLemma
    <2> HIDE DEF j
    <2>3. (b + j) % n \in 0 .. n - 1
      BY <1>1, <2>1, SlotsDiffer
    <2>4. (b + z) % n = (b + j) % n => z = j
      BY <1>1, <1>5, <2>1, SlotsDiffer
    <2>5. r[j + 1] = pool[(o + k) % n]
      BY <1>2, <1>6, <1>8, <2>1, <2>2, <2>3, <2>4
    <2> QED BY <1>7, <2>5 DEF j
  <1>10. ASSUME NEW i \in 1 .. e PROVE r[i + 1] = q[i]
    BY <1>3, <1>9
  <1>11. r[1] = v
    BY <1>1, <1>2, <1>5, <1>6, <1>8
  <1>12. r = <<v>> \o q
    BY <1>7, <1>8, <1>10, <1>11, ConsLemma
  <1> QED BY <1>4, <1>12 DEF q, r, new

(* Stepping over the first entry. *)
LEMMA RingTail ==
    ASSUME NEW n, NEW S, NEW pool, NEW o, NEW e, IsRing(n, S, pool, o, e), e # 0,
           NEW a, a = (IF o + 1 >= n THEN 0 ELSE o + 1)
    PROVE  /\ RingEntries(pool, n, a, e - 1) = Tail(RingEntries(pool, n, o, e))
           /\ RingEntries(pool, n, o, e) # <<>> /\ Head(RingEntries(pool, n, o, e)) = pool[o]
           /\ (a + (e - 1)) % n = (o + e) % n
  <1> DEFINE q == RingEntries(pool, n, o, e)
             r == RingEntries(pool, n, a, e - 1)
             l == e - 1
             z == 0
  <1> /\ n \in Nat \ {0} /\ pool \in [0 .. n - 1 -> S] /\ o \in 0 .. n - 1
      /\ e \in 1 .. n
    BY DEF IsRing
  <1>1. a \in 0 .. n - 1
    OBVIOUS
  <1>2. /\ l \in 0 .. n /\ l \in 0 .. n - 1 /\ l + 1 = e /\ e \in 0 .. n
        /\ z \in 0 .. e - 1 /\ z + 1 = 1
        /\ \A i \in 1 .. l : i - 1 \in 0 .. l - 1 /\ (i - 1) + 1 = i
        /\ \A k \in 0 .. l - 1 : k \in 0 .. n - 1 /\ k + 1 \in 0 .. e - 1
    OBVIOUS
  <1>3. (o + z) % n = o
    BY FirstSlotLemma
  <1> HIDE DEF z, l
  <1>4. (a + l) % n = (o + e) % n
    <2>1. l \in 0 .. n - 1
      BY <1>2
    <2>2. (a + l) % n = (o + (l + 1)) % n
      <3>1. n \in Nat \ {0} /\ o \in 0 .. n - 1 /\ a = (IF o + 1 >= n THEN 0 ELSE o + 1)
        OBVIOUS
      <3>2. l \in 0 .. n /\ l + 1 \in 0 .. n /\ a \in 0 .. n - 1
        BY ONLY <2>1, <3>1
      <3>3. (a + l) % n = IF a + l < n THEN a + l ELSE a + l - n
        BY ONLY <3>1, <3>2, SlotLemma
      <3>4. (o + (l + 1)) % n = IF o + (l + 1) < n THEN o + (l + 1) ELSE o + (l + 1) - n
        BY ONLY <3>1, <3>2, SlotLemma
      <3> QED BY <2>1, <3>1, <3>3, <3>4
    <2> QED BY <1>2, <2>2
  <1>5. /\ q \in Seq(S) /\ Len(q) = e
        /\ \A k \in 0 .. e - 1 : q[k + 1] = pool[(o + k) % n]
    <2>1. q = RingEntries(pool, n, o, e)
      OBVIOUS
    <2> HIDE DEF q
    <2> QED BY ONLY IsRing(n, S, pool, o, e), <2>1, RingLemma
  <1>6. /\ r \in Seq(S) /\ Len(r) = l
        /\ \A k \in 0 .. l - 1 : r[k + 1] = pool[(a + k) % n]
    <2>1. IsRing(n, S, pool, a, l)
      BY <1>1, <1>2 DEF IsRing
    <2>2. r = RingEntries(pool, n, a, l)
      BY DEF l
    <2> HIDE DEF r
    <2> QED BY <2>1, <2>2, RingLemma
  <1> HIDE DEF q, r
  <1>7. ASSUME NEW k \in 0 .. l - 1 PROVE r[k + 1] = q[(k + 1) + 1]
    <2>1. (a + k) % n = (o + (k + 1)) % n
      BY <1>2, NextSlotLemma
    <2>2. q[(k + 1) + 1] = pool[(o + (k + 1)) % n]
      BY <1>2, <1>5
    <2> QED BY <1>6, <2>1, <2>2
  <1>8. ASSUME NEW i \in 1 .. l PROVE r[i] = q[i + 1]
    BY <1>2, <1>7
  <1>9. q # <<>> /\ l = Len(q) - 1
    BY <1>2, <1>5 DEF l
  <1>10. r = Tail(q)
    BY <1>5, <1>6, <1>8, <1>9, UnconsLemma
  <1>11. Head(q) = pool[o]
    <2>1. q[z + 1] = pool[(o + z) % n]
      BY <1>2, <1>5
    <2>2. Head(q) = q[1]
      BY <1>5, <1>9
    <2> QED BY <1>2, <1>3, <2>1, <2>2
  <1> QED BY <1>4, <1>9, <1>10, <1>11 DEF q, r, l

(* The list of an object with the PRIO flag is in the order of priorities:   *)
(* joining it keeps it so, and the first of it is a most urgent one.        *)
ByPriority(q, prio) == \A i, j \in DOMAIN q : i < j => prio[q[i]] <= prio[q[j]]

LEMMA SuspendByPriority ==
    ASSUME NEW S, NEW q \in Seq(S), NEW t \in S, NEW prio \in [S -> Nat], ByPriority(q, prio)
    PROVE  ByPriority(_ipc_list_suspend(q, t, "PRIO", prio), prio)
  <1> DEFINE k == SuitablePosition(q, t, prio)
             R == {z \in S \X S : prio[z[1]] <= prio[z[2]]}
             r == InsertAtPosition(q, k, t)
  <1>1. /\ k \in 1 .. Len(q) + 1
        /\ \A i \in 1 .. k - 1 : prio[q[i]] <= prio[t]
        /\ k <= Len(q) => prio[t] < prio[q[k]]
    BY PositionLemma
  <1>2. _ipc_list_suspend(q, t, "PRIO", prio) = r
    BY DEF _ipc_list_suspend
  <1> HIDE DEF k
  <1>3. /\ DOMAIN q = 1 .. Len(q) /\ Len(q) \in Nat
        /\ \A i \in DOMAIN q : q[i] \in S /\ prio[q[i]] \in Nat
        /\ prio[t] \in Nat
    OBVIOUS
  <1>4. \A x, y \in S : <<x, y>> \in R <=> prio[x] <= prio[y]
    OBVIOUS
  <1> HIDE DEF R
  <1>5. Ordered(q, R)
    BY <1>3, <1>4 DEF Ordered, ByPriority
  <1>6. ASSUME NEW i \in DOMAIN q, i < k PROVE <<q[i], t>> \in R
    <2>1. i \in 1 .. k - 1
      BY <1>1, <1>3, <1>6
    <2> QED BY <1>1, <1>3, <1>4, <2>1
  <1>7. ASSUME NEW i \in DOMAIN q, i >= k PROVE <<t, q[i]>> \in R
    <2>1. k \in DOMAIN q /\ k <= Len(q)
      BY <1>1, <1>3, <1>7
    <2>2. prio[q[k]] <= prio[q[i]]
      <3>1. CASE i = k
        BY <1>3, <2>1, <3>1
      <3>2. CASE i # k
        <4>1. k < i
          BY <1>1, <1>3, <1>7, <3>2
        <4> QED BY <2>1, <4>1 DEF ByPriority
      <3> QED BY <3>1, <3>2
    <2>3. prio[t] <= prio[q[i]]
      BY <1>1, <1>3, <2>1, <2>2
    <2> QED BY <1>3, <1>4, <2>3
  <1>8. Ordered(r, R)
    BY <1>1, <1>5, <1>6, <1>7, InsertOrdered
  <1>9. r \in Seq(S)
    BY <1>1, InsertAtLemma
  <1> HIDE DEF r
  <1>10. \A i \in DOMAIN r : r[i] \in S
    BY <1>9
  <1>11. ByPriority(r, prio)
    BY <1>4, <1>8, <1>10 DEF Ordered, ByPriority
  <1> QED BY <1>2, <1>11

LEMMA RemoveByPriority ==
    ASSUME NEW S, NEW q \in Seq(S), NEW n, NEW prio, NoDup(q), ByPriority(q, prio)
    PROVE  ByPriority(rt_list_remove(q, n), prio)
  <1> DEFINE R == {z \in S \X S : prio[z[1]] <= prio[z[2]]}
             r == rt_list_remove(q, n)
  <1>1. \A x, y \in S : <<x, y>> \in R <=> prio[x] <= prio[y]
    OBVIOUS
  <1>2. \A i \in DOMAIN q : q[i] \in S
    OBVIOUS
  <1> HIDE DEF R
  <1>3. Ordered(q, R)
    BY <1>1, <1>2 DEF Ordered, ByPriority
  <1>4. Ordered(r, R) /\ r \in Seq(S)
    BY <1>3, RemoveOrdered, RemoveLemma
  <1> HIDE DEF r
  <1>5. \A i \in DOMAIN r : r[i] \in S
    BY <1>4
  <1>6. ByPriority(r, prio)
    BY <1>1, <1>4, <1>5 DEF Ordered, ByPriority
  <1> QED BY <1>6 DEF r

LEMMA HeadByPriority ==
    ASSUME NEW S, NEW q \in Seq(S), q # <<>>, NEW prio \in [S -> Nat], ByPriority(q, prio)
    PROVE  \A x \in Linked(q) : prio[Head(q)] <= prio[x]
  <1>1. /\ DOMAIN q = 1 .. Len(q) /\ Len(q) \in Nat /\ 1 \in DOMAIN q /\ Head(q) = q[1]
        /\ \A i \in DOMAIN q : q[i] \in S /\ prio[q[i]] \in Nat
    OBVIOUS
  <1>2. ASSUME NEW i \in DOMAIN q PROVE prio[q[1]] <= prio[q[i]]
    <2>1. i = 1 \/ 1 < i
      BY <1>1
    <2>2. CASE i = 1
      BY <1>1, <2>2
    <2>3. CASE 1 < i
      BY <1>1, <2>3 DEF ByPriority
    <2> QED BY <2>1, <2>2, <2>3
  <1> QED BY <1>1, <1>2 DEF Linked

-----------------------------------------------------------------------------
(* Blocks of a ring *)

(* Position x of a ring of n slots, at most one round on. *)
Around(n, x) == IF x < n THEN x ELSE x - n

(* From the entry behind the first d on, q is what the ring holds. *)
HeldFrom(d, q, pool, n, o) ==
    \A k \in d .. Len(q) - 1 : q[k + 1] = pool[Around(n, o + k)]

LEMMA AroundLemma ==
    ASSUME NEW n \in Nat \ {0}, NEW o \in 0 .. n - 1, NEW k \in 0 .. n
    PROVE  Around(n, o + k) \in 0 .. n - 1 /\ Around(n, o + k) = (o + k) % n
  <1>1. (o + k) % n = IF o + k < n THEN o + k ELSE o + k - n
    BY SlotLemma
  <1> QED BY <1>1 DEF Around

(* A sequence that the ring holds is that of its entries. *)
LEMMA HeldEntries ==
    ASSUME NEW n, NEW S, NEW pool, NEW o, NEW e, IsRing(n, S, pool, o, e),
           NEW T, NEW q \in Seq(T), Len(q) = e, HeldFrom(0, q, pool, n, o)
    PROVE  q = RingEntries(pool, n, o, e)
  <1> DEFINE r == RingEntries(pool, n, o, e)
  <1> n \in Nat \ {0} /\ o \in 0 .. n - 1 /\ e \in 0 .. n
    BY DEF IsRing
  <1>1. /\ r \in Seq(S) /\ Len(r) = e
        /\ \A k \in 0 .. e - 1 : r[k + 1] = pool[(o + k) % n]
    <2>1. r = RingEntries(pool, n, o, e)
      OBVIOUS
    <2> HIDE DEF r
    <2> QED BY ONLY IsRing(n, S, pool, o, e), <2>1, RingLemma
  <1> HIDE DEF r
  <1>2. ASSUME NEW k \in 0 .. e - 1 PROVE q[k + 1] = r[k + 1]
    <2>1. q[k + 1] = pool[Around(n, o + k)]
      BY DEF HeldFrom
    <2>2. Around(n, o + k) = (o + k) % n
      BY AroundLemma
    <2> QED BY <1>1, <2>1, <2>2
  <1>3. ASSUME NEW i \in 1 .. e PROVE q[i] = r[i]
    <2>1. i - 1 \in 0 .. e - 1 /\ (i - 1) + 1 = i
      OBVIOUS
    <2> QED BY <1>2, <2>1
  <1>4. q = r
    <2>1. q \in [1 .. e -> T]
      OBVIOUS
    <2>2. r \in [1 .. e -> S]
      BY <1>1
    <2> QED BY <1>3, <2>1, <2>2
  <1> QED BY <1>4 DEF r

(* q is in the ring from o on, save for the first d.  s is written behind   *)
(* q, and these d are given up, those that s was written over and, if need  *)
(* be, more: p is left.                                                    *)
IsBlockWrite(n, o, d, old, new, q, s, p) ==
    /\ n \in Nat \ {0} /\ o \in 0 .. n - 1
    /\ Len(q) \in 0 .. n /\ d \in 0 .. n /\ Len(s) \in 0 .. n
    /\ d <= Len(q) + Len(s) /\ Len(q) + Len(s) - d <= n
    /\ HeldFrom(d, q, old, n, o)
    /\ LET w == Around(n, o + Len(q)) IN
       \A k \in 0 .. n - 1 :
           new[Around(n, w + k)] = IF k < Len(s) THEN s[k + 1] ELSE old[Around(n, w + k)]
    /\ Len(p) = Len(q) + Len(s) - d
    /\ \A k \in 0 .. Len(p) - 1 :
           p[k + 1] = IF k + d < Len(q) THEN q[k + d + 1] ELSE s[k + d - Len(q) + 1]

LEMMA BlockWritten ==
    ASSUME NEW n, NEW o, NEW d, NEW old, NEW new, NEW q, NEW s, NEW p,
           IsBlockWrite(n, o, d, old, new, q, s, p)
    PROVE  LET w == Around(n, o + Len(q))
               a == Around(n, o + d)
           IN  /\ HeldFrom(0, p, new, n, a)
               /\ a \in 0 .. n - 1 /\ Around(n, a + Len(p)) = Around(n, w + Len(s))
  <1> DEFINE w == Around(n, o + Len(q))
             a == Around(n, o + d)
             e == Len(q)
             m == Len(s)
  <1>1. /\ n \in Nat \ {0} /\ o \in 0 .. n - 1 /\ e \in 0 .. n /\ d \in 0 .. n /\ m \in 0 .. n
        /\ d <= e + m /\ e + m - d <= n /\ Len(p) = e + m - d
    BY DEF IsBlockWrite
  <1>2. \A k \in 0 .. n - 1 :
            new[Around(n, w + k)] = IF k < m THEN s[k + 1] ELSE old[Around(n, w + k)]
    BY DEF IsBlockWrite
  <1>3. HeldFrom(d, q, old, n, o)
    BY DEF IsBlockWrite
  <1>4. \A k \in 0 .. e + m - d - 1 :
            p[k + 1] = IF k + d < e THEN q[k + d + 1] ELSE s[k + d - e + 1]
    BY <1>1 DEF IsBlockWrite
  <1>5. e = Len(q) /\ w = Around(n, o + e) /\ a = Around(n, o + d) /\ m = Len(s)
    OBVIOUS
  <1> HIDE DEF w, a, e, m
  <1>6. a \in 0 .. n - 1 /\ w \in 0 .. n - 1
    BY <1>1, <1>5, AroundLemma
  <1>7. Around(n, a + (e + m - d)) = Around(n, w + m)
    <2>1. /\ a = IF o + d < n THEN o + d ELSE o + d - n
          /\ w = IF o + e < n THEN o + e ELSE o + e - n
      BY ONLY <1>1, <1>5 DEF Around
    <2> DEFINE x == a + (e + m - d)
               y == w + m
    <2>2. /\ x \in 0 .. 2 * n - 1 /\ y \in 0 .. 2 * n - 1
          /\ x = y \/ x = y + n \/ y = x + n
      <3>1. CASE o + d < n /\ o + e < n
        BY ONLY <1>1, <1>6, <2>1, <3>1
      <3>2. CASE o + d < n /\ ~(o + e < n)
        BY ONLY <1>1, <1>6, <2>1, <3>2
      <3>3. CASE ~(o + d < n) /\ o + e < n
        BY ONLY <1>1, <1>6, <2>1, <3>3
      <3>4. CASE ~(o + d < n) /\ ~(o + e < n)
        BY ONLY <1>1, <1>6, <2>1, <3>4
      <3> QED BY <3>1, <3>2, <3>3, <3>4
    <2> HIDE DEF x, y
    <2>3. Around(n, x) = Around(n, y)
      BY ONLY <1>1, <2>2 DEF Around
    <2> QED BY <2>3 DEF x, y
  <1>8. ASSUME NEW k \in 0 .. e + m - d - 1 PROVE p[k + 1] = new[Around(n, a + k)]
    <2>1. CASE k + d < e
      <3> DEFINE i == d + k
                 j == n - e + d + k
      <3>1. i \in d .. e - 1 /\ i + 1 = k + d + 1
        BY <1>1, <2>1
      <3>2. j \in 0 .. n - 1 /\ ~(j < m)
        BY <1>1, <2>1
      <3>3. Around(n, a + k) = Around(n, w + j)
        <4>1. k \in 0 .. n - 1 /\ e + j = d + k + n
          BY <1>1, <2>1
        <4> HIDE DEF j
        <4>2. n \in Nat \ {0} /\ o \in 0 .. n - 1 /\ e \in 0 .. n /\ d \in 0 .. n /\ j \in 0 .. n - 1
          BY <1>1, <3>2
        <4>3. Around(n, Around(n, o + e) + j) = Around(n, Around(n, o + d) + k)
          BY ONLY <4>1, <4>2 DEF Around
        <4> QED BY <1>5, <4>3
      <3>4. Around(n, a + k) = Around(n, o + i)
        <4>1. k \in 0 .. n - 1 /\ o + d \in Nat
          BY <1>1, <2>1
        <4> QED BY <1>1, <1>5, <1>6, <2>1, <4>1 DEF Around
      <3>5. p[k + 1] = q[k + d + 1]
        BY <1>4, <2>1
      <3> HIDE DEF i, j
      <3>6. q[i + 1] = old[Around(n, o + i)]
        BY <1>3, <1>5, <3>1 DEF HeldFrom
      <3>7. new[Around(n, w + j)] = old[Around(n, w + j)]
        BY <1>2, <3>2
      <3> QED BY <3>1, <3>3, <3>4, <3>5, <3>6, <3>7
    <2>2. CASE ~(k + d < e)
      <3> DEFINE j == k + d - e
      <3>1. j \in 0 .. n - 1 /\ j < m
        BY <1>1, <2>2
      <3>2. Around(n, a + k) = Around(n, w + j)
        <4>1. k \in 0 .. n - 1 /\ e + j = d + k
          BY <1>1, <2>2
        <4> HIDE DEF j
        <4>2. n \in Nat \ {0} /\ o \in 0 .. n - 1 /\ e \in 0 .. n /\ d \in 0 .. n /\ j \in 0 .. n - 1
          BY <1>1, <3>1
        <4>3. Around(n, Around(n, o + e) + j) = Around(n, Around(n, o + d) + k)
          BY ONLY <4>1, <4>2 DEF Around
        <4> QED BY <1>5, <4>3
      <3>3. p[k + 1] = s[j + 1]
        BY <1>4, <2>2
      <3> HIDE DEF j
      <3>4. new[Around(n, w + j)] = s[j + 1]
        BY <1>2, <3>1
      <3> QED BY <3>2, <3>3, <3>4
    <2> QED BY <2>1, <2>2
  <1>9. HeldFrom(0, p, new, n, a)
    BY <1>1, <1>8 DEF HeldFrom
  <1> QED BY <1>1, <1>6, <1>7, <1>9, <1>5

(* The first m entries are read, the others left in p. *)
IsBlockRead(n, o, d, pool, q, m, p) ==
    /\ n \in Nat \ {0} /\ o \in 0 .. n - 1
    /\ Len(q) \in 0 .. n /\ d \in Nat /\ m \in 0 .. Len(q)
    /\ HeldFrom(d, q, pool, n, o)
    /\ Len(p) = Len(q) - m /\ \A i \in 1 .. Len(p) : p[i] = q[m + i]

LEMMA BlockRead ==
    ASSUME NEW n, NEW o, NEW d, NEW pool, NEW q, NEW m, NEW p,
           IsBlockRead(n, o, d, pool, q, m, p)
    PROVE  LET a == Around(n, o + m) IN
           /\ HeldFrom(IF d > m THEN d - m ELSE 0, p, pool, n, a)
           /\ a \in 0 .. n - 1 /\ Around(n, a + Len(p)) = Around(n, o + Len(q))
  <1> DEFINE a == Around(n, o + m)
             e == Len(q)
             c == IF d > m THEN d - m ELSE 0
  <1>1. /\ n \in Nat \ {0} /\ o \in 0 .. n - 1 /\ e \in 0 .. n /\ d \in Nat /\ m \in 0 .. e
        /\ Len(p) = e - m
    BY DEF IsBlockRead
  <1>2. \A i \in 1 .. e - m : p[i] = q[m + i]
    BY <1>1 DEF IsBlockRead
  <1>3. HeldFrom(d, q, pool, n, o)
    BY DEF IsBlockRead
  <1>4. c \in Nat /\ c >= d - m
    BY <1>1
  <1> HIDE DEF e, c
  <1>5. a \in 0 .. n - 1 /\ Around(n, a + (e - m)) = Around(n, o + e)
    BY <1>1 DEF Around
  <1>6. ASSUME NEW k \in c .. e - m - 1 PROVE p[k + 1] = pool[Around(n, a + k)]
    <2> DEFINE i == m + k
    <2>1. i \in d .. e - 1 /\ k + 1 \in 1 .. e - m /\ m + (k + 1) = i + 1
      BY <1>1, <1>4
    <2>2. Around(n, a + k) = Around(n, o + i)
      BY <1>1, <1>4 DEF Around
    <2> HIDE DEF i
    <2>3. q[i + 1] = pool[Around(n, o + i)]
      BY <1>3, <2>1 DEF HeldFrom, e
    <2> QED BY <1>2, <2>1, <2>2, <2>3
  <1>7. HeldFrom(c, p, pool, n, a)
    BY <1>1, <1>6 DEF HeldFrom
  <1> QED BY <1>1, <1>5, <1>7 DEF e, c
=============================================================================
