----------------------------- MODULE TimerProofs -----------------------------
(***************************************************************************)
(* The hard timers for every number of timers, every set of times and every *)
(* width of the tick: the list stays in the order in which its timers are   *)
(* due, and each timer fires at its tick and at no other.                   *)
(***************************************************************************)
EXTENDS Timer, ListProofs

(* Not overdue: what is linked has less than Half to go, and has something  *)
(* to go while no tick is being dealt with.                                *)
Ahead ==
    \A t \in Linked(list) :
        TicksLeft(t) < Half /\ (pc = "idle" => TicksLeft(t) # 0)

(* x is called before y. *)
Sooner(tm, now, old) ==
    {z \in Timers \X Timers :
        LET x == (tm[z[1]].timeout_tick - now) % Wrap
            y == (tm[z[2]].timeout_tick - now) % Wrap
        IN  x < y \/ (x = y /\ z \in old)}

(* The timer that is called waits on the temporary list, if at all. *)
HeldApart ==
    \A t \in Linked(hold) : t \notin Linked(list) /\ timer[t].live

(* That the list is in order takes that differences of ticks are what they  *)
(* look like, which takes that nothing linked is overdue.                  *)
TimerIInv == TypeOK /\ Ahead /\ HeldApart /\ StartedEarlyCalledEarly

-----------------------------------------------------------------------------
(* Ticks *)

LEMMA Halves ==
    /\ Wrap \in Nat \ {0} /\ Half \in Nat /\ 2 * Half + 1 <= Wrap
    /\ \A n \in Times : n \in Nat /\ 1 <= n /\ n < Half
  <1>1. Wrap \in Nat /\ Wrap >= 4
    BY TimerWrapAssumption
  <1>2. Half \in Nat /\ 2 * Half + 1 <= Wrap
    BY <1>1 DEF Half
  <1> QED BY <1>1, <1>2, TimerTimesAssumption

(* An unsigned difference. *)
LEMMA ModDiff ==
    ASSUME NEW n \in Nat \ {0}, NEW a \in 0 .. n - 1, NEW b \in 0 .. n - 1
    PROVE  (a - b) % n = IF a >= b THEN a - b ELSE a - b + n
  <1>1. ASSUME NEW c \in 0 .. n - 1 PROVE c % n = c /\ (c - n) % n = c
    OBVIOUS
  <1>2. CASE a >= b
    <2>1. a - b \in 0 .. n - 1
      BY <1>2
    <2> QED BY <1>1, <1>2, <2>1
  <1>3. CASE ~(a >= b)
    <2>1. a - b + n \in 0 .. n - 1 /\ (a - b + n) - n = a - b
      BY <1>3
    <2>2. ((a - b + n) - n) % n = a - b + n
      BY <1>1, <2>1
    <2> QED BY <1>3, <2>1, <2>2
  <1> QED BY <1>2, <1>3

LEMMA LeftTyped ==
    ASSUME NEW a \in 0 .. Wrap - 1, NEW b \in 0 .. Wrap - 1
    PROVE  (a - b) % Wrap \in 0 .. Wrap - 1
  BY ModDiff, Halves

(* What is set for n ticks has n ticks to go. *)
LEMMA DueLemma ==
    ASSUME NEW now \in 0 .. Wrap - 1, NEW n \in Times
    PROVE  /\ (now + n) % Wrap \in 0 .. Wrap - 1
           /\ (((now + n) % Wrap) - now) % Wrap = n
  <1> DEFINE due == (now + n) % Wrap
  <1>1. n \in 0 .. Wrap - 1
    BY Halves
  <1>2. due = IF now + n < Wrap THEN now + n ELSE now + n - Wrap
    <2>1. now + n \in 0 .. 2 * Wrap - 1
      BY <1>1, Halves
    <2>2. Wrap \in Nat \ {0}
      BY Halves
    <2>3. \A m \in 0 .. 2 * Wrap - 1 : m % Wrap = IF m < Wrap THEN m ELSE m - Wrap
      BY <2>2, ModLemma
    <2> QED BY <1>1, <2>1, <2>2, <2>3
  <1> HIDE DEF due
  <1>3. due \in 0 .. Wrap - 1
    BY <1>1, <1>2, Halves
  <1>4. (due - now) % Wrap = IF due >= now THEN due - now ELSE due - now + Wrap
    BY <1>3, ModDiff, Halves
  <1>5. (due - now) % Wrap = n
    BY <1>1, <1>2, <1>3, <1>4, Halves
  <1> QED BY <1>3, <1>5 DEF due

(* Among ticks that are not overdue After says which comes later. *)
LEMMA AfterLemma ==
    ASSUME NEW now \in 0 .. Wrap - 1, NEW a \in 0 .. Wrap - 1, NEW b \in 0 .. Wrap - 1,
           (a - now) % Wrap < Half, (b - now) % Wrap < Half
    PROVE  /\ After(a, b) <=> (b - now) % Wrap < (a - now) % Wrap
           /\ (a - now) % Wrap = (b - now) % Wrap <=> a = b
  <1>1. /\ (a - now) % Wrap = IF a >= now THEN a - now ELSE a - now + Wrap
        /\ (b - now) % Wrap = IF b >= now THEN b - now ELSE b - now + Wrap
        /\ (a - b) % Wrap = IF a >= b THEN a - b ELSE a - b + Wrap
    BY ModDiff, Halves
  <1>2. After(a, b) <=> 1 <= (a - b) % Wrap /\ (a - b) % Wrap < Half
    <2>1. (a - b) % Wrap \in 0 .. Wrap - 1
      BY LeftTyped
    <2> QED BY <2>1, Halves DEF After
  <1> DEFINE x == (a - now) % Wrap
             y == (b - now) % Wrap
             d == (a - b) % Wrap
  <1>3. /\ x = IF a >= now THEN a - now ELSE a - now + Wrap
        /\ y = IF b >= now THEN b - now ELSE b - now + Wrap
        /\ d = IF a >= b THEN a - b ELSE a - b + Wrap
        /\ x < Half /\ y < Half
        /\ After(a, b) <=> 1 <= d /\ d < Half
    BY <1>1, <1>2
  <1> HIDE DEF x, y, d
  <1>4. (After(a, b) <=> y < x) /\ (x = y <=> a = b)
    BY <1>3, Halves
  <1> QED BY <1>4 DEF x, y

(* What is not overdue has expired when it has nothing to go. *)
LEMMA ExpiredLemma ==
    ASSUME NEW now \in 0 .. Wrap - 1, NEW d \in 0 .. Wrap - 1, (d - now) % Wrap < Half
    PROVE  (now - d) % Wrap < Half <=> (d - now) % Wrap = 0
  <1>1. /\ (d - now) % Wrap = IF d >= now THEN d - now ELSE d - now + Wrap
        /\ (now - d) % Wrap = IF now >= d THEN now - d ELSE now - d + Wrap
    BY ModDiff, Halves
  <1> DEFINE x == (d - now) % Wrap
             y == (now - d) % Wrap
  <1>2. /\ x = IF d >= now THEN d - now ELSE d - now + Wrap
        /\ y = IF now >= d THEN now - d ELSE now - d + Wrap
        /\ x < Half
    BY <1>1
  <1> HIDE DEF x, y
  <1>3. Half > 0
    BY <1>2, Halves
  <1>4. y < Half <=> x = 0
    BY <1>2, <1>3, Halves
  <1> QED BY <1>4 DEF x, y

(* A tick goes by. *)
LEMMA TickLemma ==
    ASSUME NEW now \in 0 .. Wrap - 1, NEW d \in 0 .. Wrap - 1, (d - now) % Wrap # 0
    PROVE  /\ (now + 1) % Wrap \in 0 .. Wrap - 1
           /\ (d - ((now + 1) % Wrap)) % Wrap = ((d - now) % Wrap) - 1
  <1> DEFINE next == (now + 1) % Wrap
  <1>1. next = IF now + 1 < Wrap THEN now + 1 ELSE 0
    <2>1. now + 1 \in 0 .. 2 * Wrap - 1
      BY Halves
    <2>2. next = IF now + 1 < Wrap THEN now + 1 ELSE now + 1 - Wrap
      BY <2>1, ModLemma, Halves
    <2> QED BY <2>2, Halves
  <1> HIDE DEF next
  <1>2. next \in 0 .. Wrap - 1
    BY <1>1, Halves
  <1>3. /\ (d - now) % Wrap = IF d >= now THEN d - now ELSE d - now + Wrap
        /\ (d - next) % Wrap = IF d >= next THEN d - next ELSE d - next + Wrap
    BY <1>2, ModDiff, Halves
  <1> DEFINE x == (d - now) % Wrap
             y == (d - next) % Wrap
  <1>4. /\ x = IF d >= now THEN d - now ELSE d - now + Wrap
        /\ y = IF d >= next THEN d - next ELSE d - next + Wrap
        /\ x # 0
    BY <1>3
  <1> HIDE DEF x, y
  <1>5. y = x - 1
    BY <1>1, <1>4, Halves
  <1>6. (d - next) % Wrap = ((d - now) % Wrap) - 1
    BY <1>5 DEF x, y
  <1> QED BY <1>2, <1>6 DEF next

-----------------------------------------------------------------------------
(* What the invariant says of one timer *)

LEMMA TimerTyped ==
    ASSUME TypeOK
    PROVE  /\ rt_tick \in 0 .. Wrap - 1 /\ list \in Seq(Timers) /\ Linked(list) \subseteq Timers
           /\ \A t \in Timers : /\ timer[t].timeout_tick \in 0 .. Wrap - 1
                                /\ timer[t].init_tick \in Times
                                /\ TicksLeft(t) \in 0 .. Wrap - 1
           /\ \A x, y : <<x, y>> \in earlier => x \in Linked(list) /\ y \in Linked(list)
  <1>1. /\ rt_tick \in 0 .. Wrap - 1 /\ list \in Seq(Timers) /\ timer \in [Timers -> Object]
        /\ earlier \subseteq Linked(list) \X Linked(list)
    BY DEF TypeOK
  <1>2. ASSUME NEW t \in Timers
        PROVE  timer[t].timeout_tick \in 0 .. Wrap - 1 /\ timer[t].init_tick \in Times
    BY <1>1 DEF Object
  <1>3. ASSUME NEW t \in Timers PROVE TicksLeft(t) \in 0 .. Wrap - 1
    BY <1>1, <1>2, LeftTyped DEF TicksLeft
  <1>4. Linked(list) \subseteq Timers
    BY <1>1, EmptyLemma
  <1> QED BY <1>1, <1>2, <1>3, <1>4

(* The order of the list, in terms of what is to come. *)
LEMMA InOrder ==
    ASSUME TypeOK
    PROVE  StartedEarlyCalledEarly <=> Ordered(list, Sooner(timer, rt_tick, earlier))
  <1>1. \A i \in DOMAIN list : list[i] \in Timers
    BY TimerTyped
  <1> QED BY <1>1 DEF StartedEarlyCalledEarly, Ordered, Sooner, TicksLeft

LEMMA InOrderNext ==
    ASSUME TypeOK'
    PROVE  StartedEarlyCalledEarly' <=> Ordered(list', Sooner(timer', rt_tick', earlier'))
  <1>1. \A i \in DOMAIN list' : list'[i] \in Timers
    BY DEF TypeOK
  <1> QED BY <1>1 DEF StartedEarlyCalledEarly, Ordered, Sooner, TicksLeft

(* Where a timer goes: behind all that are not due later. *)
LEMMA PlaceFound ==
    ASSUME NEW q \in Seq(Timers), NEW due
    PROVE  LET k == Place(q, due) IN
           /\ k \in 1 .. Len(q) + 1
           /\ \A i \in 1 .. k - 1 : ~After(timer[q[i]].timeout_tick, due)
           /\ k <= Len(q) => After(timer[q[k]].timeout_tick, due)
  <1> DEFINE L(i) == After(timer[q[i]].timeout_tick, due)
             Fits(k) == (\A i \in 1 .. k - 1 : ~L(i)) /\ (k <= Len(q) => L(k))
             Later == {i \in 1 .. Len(q) : L(i)}
  <1>1. Len(q) \in Nat
    OBVIOUS
  <1>2. Place(q, due) = CHOOSE k \in 1 .. Len(q) + 1 : Fits(k)
    BY DEF Place
  <1> HIDE DEF L
  <1>3. \E k \in 1 .. Len(q) + 1 : Fits(k)
    <2>1. CASE Later = {}
      <3>1. \A i \in 1 .. Len(q) : ~L(i)
        BY <2>1
      <3>2. Fits(Len(q) + 1) /\ Len(q) + 1 \in 1 .. Len(q) + 1
        BY <1>1, <3>1
      <3> QED BY <3>2
    <2>2. CASE Later # {}
      <3>0. Later \subseteq Nat
        OBVIOUS
      <3>1. PICK k \in Later : \A m \in Later : k <= m
        <4> HIDE DEF Later
        <4> QED BY <2>2, <3>0, LeastLemma
      <3>2. ASSUME NEW i \in 1 .. k - 1 PROVE ~L(i)
        <4>1. i \in 1 .. Len(q) /\ ~(k <= i)
          BY <1>1, <3>1
        <4> QED BY <3>1, <4>1
      <3>3. k \in 1 .. Len(q) + 1 /\ L(k)
        BY <1>1, <3>1
      <3> QED BY <3>2, <3>3
    <2> QED BY <2>1, <2>2
  <1>4. Place(q, due) \in 1 .. Len(q) + 1 /\ Fits(Place(q, due))
    <2> HIDE DEF Fits
    <2> QED BY <1>2, <1>3
  <1> QED BY <1>4 DEF L

(* The order survives that the first timer is taken off. *)
LEMMA TailOrdered ==
    ASSUME NEW S, NEW q \in Seq(S), q # <<>>, NEW R, Ordered(q, R)
    PROVE  /\ Ordered(Tail(q), R)
           /\ \A x \in Linked(Tail(q)) : <<Head(q), x>> \in R
  <1> DEFINE r == Tail(q)
  <1>1. /\ DOMAIN q = 1 .. Len(q) /\ Len(q) \in Nat \ {0} /\ Head(q) = q[1]
        /\ DOMAIN r = 1 .. Len(q) - 1
        /\ \A i \in 1 .. Len(q) - 1 : r[i] = q[i + 1]
    OBVIOUS
  <1> HIDE DEF r
  <1>2. ASSUME NEW i \in DOMAIN r, NEW j \in DOMAIN r, i < j PROVE <<r[i], r[j]>> \in R
    <2>1. i + 1 \in DOMAIN q /\ j + 1 \in DOMAIN q /\ i + 1 < j + 1
      BY <1>1, <1>2
    <2>2. <<q[i + 1], q[j + 1]>> \in R
      BY <2>1 DEF Ordered
    <2> QED BY <1>1, <2>2
  <1>3. ASSUME NEW i \in DOMAIN r PROVE <<Head(q), r[i]>> \in R
    <2>1. 1 \in DOMAIN q /\ i + 1 \in DOMAIN q /\ 1 < i + 1
      BY <1>1
    <2>2. <<q[1], q[i + 1]>> \in R
      BY <2>1 DEF Ordered
    <2> QED BY <1>1, <2>2
  <1> QED BY <1>2, <1>3 DEF r, Ordered, Linked

-----------------------------------------------------------------------------
(* The steps *)

(* A timer taken off the list leaves the others in order. *)
LEMMA RemovedKeeps ==
    ASSUME TimerIInv, NEW t \in Timers
    PROVE  LET q == rt_list_remove(list, t) IN
           /\ q \in Seq(Timers) /\ NoDup(q) /\ Linked(q) = Linked(list) \ {t}
           /\ Without(t) \subseteq Linked(q) \X Linked(q)
           /\ Ordered(q, Sooner(timer, rt_tick, Without(t)))
           /\ rt_list_remove(hold, t) = IF hold = <<t>> THEN <<>> ELSE hold
  <1> DEFINE q == rt_list_remove(list, t)
  <1>1. list \in Seq(Timers) /\ NoDup(list) /\ Linked(list) \subseteq Timers
    BY TimerTyped DEF TimerIInv, TypeOK
  <1>2. q \in Seq(Timers) /\ NoDup(q) /\ Linked(q) = Linked(list) \ {t}
    BY <1>1, RemoveLemma
  <1>3. Without(t) \subseteq Linked(q) \X Linked(q)
    BY <1>2 DEF Without, TimerIInv, TypeOK
  <1>4. Ordered(q, Sooner(timer, rt_tick, earlier))
    BY <1>1, InOrder, RemoveOrdered DEF TimerIInv
  <1> HIDE DEF q
  <1>5. ASSUME NEW x \in Linked(q), NEW y \in Linked(q),
               <<x, y>> \in Sooner(timer, rt_tick, earlier)
        PROVE  <<x, y>> \in Sooner(timer, rt_tick, Without(t))
    <2>1. x # t /\ y # t /\ (<<x, y>> \in earlier => <<x, y>> \in Without(t))
      BY <1>2 DEF Without
    <2> QED BY <1>5, <2>1 DEF Sooner
  <1>6. Ordered(q, Sooner(timer, rt_tick, Without(t)))
    BY <1>4, <1>5, OrderedByLemma
  <1>7. rt_list_remove(hold, t) = IF hold = <<t>> THEN <<>> ELSE hold
    <2>1. hold = <<>> \/ hold = <<calling>>
      BY DEF TimerIInv, TypeOK
    <2>2. CASE hold = <<>>
      <3>1. Linked(hold) = {} /\ hold # <<t>>
        BY <2>2 DEF Linked
      <3> QED BY <3>1 DEF rt_list_remove
    <2>3. CASE hold = <<calling>> /\ calling # t
      <3>1. t \notin Linked(hold) /\ hold # <<t>>
        BY <2>3 DEF Linked
      <3> QED BY <3>1 DEF rt_list_remove
    <2>4. CASE hold = <<calling>> /\ calling = t
      <3>1. t \in Linked(hold) /\ Len(hold) = 1 /\ hold = <<t>>
        BY <2>4 DEF Linked
      <3>2. rt_list_remove(hold, t) = <<>>
        BY <3>1 DEF rt_list_remove
      <3> QED BY <3>1, <3>2
    <2> QED BY <2>1, <2>2, <2>3, <2>4
  <1> QED BY <1>2, <1>3, <1>6, <1>7 DEF q

(* A timer that is started comes behind those due no later. *)
LEMMA StartedKeeps ==
    ASSUME TimerIInv, NEW t \in Timers, timer[t].live, Started(t), rt_tick' = rt_tick
    PROVE  /\ list' \in Seq(Timers) /\ NoDup(list') /\ Linked(list') = Linked(list) \cup {t}
           /\ hold' = IF hold = <<t>> THEN <<>> ELSE hold
           /\ earlier' \subseteq Linked(list') \X Linked(list')
           /\ timer' \in [Timers -> Object] /\ timer'[t].activated
           /\ timer'[t] = [timer[t] EXCEPT !.timeout_tick = timer'[t].timeout_tick,
                                           !.activated = TRUE]
           /\ \A x \in Timers \ {t} : timer'[x] = timer[x]
           /\ TicksLeft(t)' = timer[t].init_tick
           /\ Ordered(list', Sooner(timer', rt_tick', earlier'))
  <1> DEFINE due == (rt_tick + timer[t].init_tick) % Wrap
             q   == rt_list_remove(list, t)
             k   == Place(q, due)
             n   == timer[t].init_tick
             new == Without(t) \cup {<<u, t>> : u \in {v \in Linked(q) : timer[v].timeout_tick = due}}
  <1>1. /\ q \in Seq(Timers) /\ NoDup(q) /\ Linked(q) = Linked(list) \ {t}
        /\ Without(t) \subseteq Linked(q) \X Linked(q)
        /\ Ordered(q, Sooner(timer, rt_tick, Without(t)))
        /\ rt_list_remove(hold, t) = IF hold = <<t>> THEN <<>> ELSE hold
    BY RemovedKeeps
  <1>2. /\ list' = InsertAtPosition(q, k, t)
        /\ hold' = rt_list_remove(hold, t)
        /\ earlier' = new
        /\ timer' = [timer EXCEPT ![t].timeout_tick = due, ![t].activated = TRUE]
    BY DEF Started
  <1>3. /\ k \in 1 .. Len(q) + 1
        /\ \A i \in 1 .. k - 1 : ~After(timer[q[i]].timeout_tick, due)
        /\ k <= Len(q) => After(timer[q[k]].timeout_tick, due)
    BY <1>1, PlaceFound
  <1>4. rt_tick \in 0 .. Wrap - 1 /\ n \in Times /\ Linked(list) \subseteq Timers
    BY TimerTyped DEF TimerIInv
  <1>5. due \in 0 .. Wrap - 1 /\ (due - rt_tick) % Wrap = n /\ n < Half /\ n \in Nat
    BY <1>4, DueLemma, Halves
  <1>6. /\ timer \in [Timers -> Object]
        /\ timer' \in [Timers -> Object] /\ timer'[t].timeout_tick = due /\ timer'[t].activated
        /\ timer'[t] = [timer[t] EXCEPT !.timeout_tick = timer'[t].timeout_tick,
                                        !.activated = TRUE]
        /\ \A x \in Timers \ {t} : timer'[x] = timer[x]
    BY <1>2, <1>5 DEF TimerIInv, TypeOK, Object
  <1> HIDE DEF due, q, k, n, new
  <1>7. list' \in Seq(Timers) /\ NoDup(list') /\ Linked(list') = Linked(list) \cup {t}
    <2>1. t \notin Linked(q) /\ Linked(q) \cup {t} = Linked(list) \cup {t}
      BY <1>1
    <2> QED BY <1>1, <1>2, <1>3, <2>1, InsertAtLemma
  <1>8. earlier' \subseteq Linked(list') \X Linked(list')
    BY <1>1, <1>2, <1>7 DEF new
  <1>9. TicksLeft(t)' = n
    BY <1>5, <1>6 DEF TicksLeft
  <1>10. ASSUME NEW x \in Linked(q)
         PROVE  /\ x \in Timers /\ x # t /\ timer'[x] = timer[x] /\ TicksLeft(x) \in Nat
                /\ TicksLeft(x) = (timer[x].timeout_tick - rt_tick) % Wrap
                /\ After(timer[x].timeout_tick, due) <=> n < TicksLeft(x)
                /\ TicksLeft(x) = n <=> timer[x].timeout_tick = due
    <2>1. x \in Timers /\ x # t /\ x \in Linked(list)
      BY <1>1, <1>4
    <2>2. TicksLeft(x) < Half /\ TicksLeft(x) \in 0 .. Wrap - 1 /\ timer[x].timeout_tick \in 0 .. Wrap - 1
      BY <2>1, TimerTyped DEF TimerIInv, Ahead
    <2>3. TicksLeft(x) = (timer[x].timeout_tick - rt_tick) % Wrap
      BY DEF TicksLeft
    <2>4. /\ After(timer[x].timeout_tick, due) <=> n < TicksLeft(x)
          /\ TicksLeft(x) = n <=> timer[x].timeout_tick = due
      BY <1>4, <1>5, <2>2, <2>3, AfterLemma
    <2> QED BY <1>6, <2>1, <2>2, <2>3, <2>4
  <1> DEFINE R == Sooner(timer', rt_tick', earlier')
  <1>11. ASSUME NEW x \in Linked(q), NEW y \in Linked(q),
                <<x, y>> \in Sooner(timer, rt_tick, Without(t))
         PROVE  <<x, y>> \in R
    BY <1>2, <1>10, <1>11 DEF Sooner, new
  <1>12. Ordered(q, R)
    <2> HIDE DEF R
    <2> QED BY <1>1, <1>11, OrderedByLemma
  <1>13. DOMAIN q = 1 .. Len(q) /\ Len(q) \in Nat /\ \A i \in DOMAIN q : q[i] \in Linked(q)
    BY <1>1 DEF Linked
  <1>14. ASSUME NEW i \in DOMAIN q, i < k PROVE <<q[i], t>> \in R
    <2> DEFINE x == q[i]
    <2>1. x \in Linked(q) /\ ~After(timer[x].timeout_tick, due)
      BY <1>3, <1>13, <1>14
    <2> HIDE DEF x
    <2>2. TicksLeft(x) <= n /\ (TicksLeft(x) = n => timer[x].timeout_tick = due)
      BY <1>5, <1>10, <2>1
    <2>3. TicksLeft(x) = n => <<x, t>> \in earlier'
      BY <1>2, <2>1, <2>2 DEF new
    <2>4. /\ (timer'[x].timeout_tick - rt_tick') % Wrap = TicksLeft(x)
          /\ (timer'[t].timeout_tick - rt_tick') % Wrap = n
      BY <1>5, <1>6, <1>10, <2>1
    <2>5. TicksLeft(x) < n \/ (TicksLeft(x) = n /\ <<x, t>> \in earlier')
      BY <1>5, <1>10, <2>1, <2>2, <2>3
    <2>6. x \in Timers
      BY <1>10, <2>1
    <2>7. <<x, t>> \in R
      BY <2>4, <2>5, <2>6 DEF Sooner
    <2> QED BY <2>7 DEF x
  <1>15. ASSUME NEW i \in DOMAIN q, i >= k PROVE <<t, q[i]>> \in R
    <2> DEFINE x == q[i]
               y == q[k]
    <2>1. x \in Linked(q) /\ k \in DOMAIN q /\ y \in Linked(q)
      BY <1>3, <1>13, <1>15
    <2>2. n < TicksLeft(y)
      BY <1>3, <1>10, <1>13, <2>1
    <2>3. x = y \/ <<y, x>> \in Sooner(timer, rt_tick, Without(t))
      <3>1. i = k \/ k < i
        BY <1>3, <1>13, <1>15
      <3>2. k < i => <<q[k], q[i]>> \in Sooner(timer, rt_tick, Without(t))
        BY <1>1, <2>1 DEF Ordered
      <3> QED BY <3>1, <3>2
    <2> HIDE DEF x, y
    <2>4. <<y, x>> \in Sooner(timer, rt_tick, Without(t)) => TicksLeft(y) <= TicksLeft(x)
      BY <1>10, <2>1 DEF Sooner
    <2>5. n < TicksLeft(x)
      BY <1>5, <1>10, <2>1, <2>2, <2>3, <2>4
    <2>6. /\ (timer'[x].timeout_tick - rt_tick') % Wrap = TicksLeft(x)
          /\ (timer'[t].timeout_tick - rt_tick') % Wrap = n
      BY <1>5, <1>6, <1>10, <2>1
    <2>7. x \in Timers
      BY <1>10, <2>1
    <2>8. <<t, x>> \in R
      BY <2>5, <2>6, <2>7 DEF Sooner
    <2> QED BY <2>8 DEF x
  <1>16. Ordered(list', R)
    <2> HIDE DEF R
    <2> QED BY <1>1, <1>2, <1>3, <1>12, <1>14, <1>15, InsertOrdered
  <1> QED BY <1>1, <1>2, <1>6, <1>7, <1>8, <1>9, <1>16 DEF n

LEMMA Rebuilt ==
    ASSUME TypeOK', Ahead', HeldApart', Ordered(list', Sooner(timer', rt_tick', earlier'))
    PROVE  TimerIInv'
  BY InOrderNext DEF TimerIInv

LEMMA HoldTyped ==
    ASSUME TimerIInv
    PROVE  /\ hold = <<>> \/ (hold = <<calling>> /\ calling \in Timers /\ pc = "callback")
           /\ Linked(hold) = IF hold = <<>> THEN {} ELSE {calling}
  <1>1. hold = <<>> \/ (hold = <<calling>> /\ calling \in Timers /\ pc = "callback")
    BY DEF TimerIInv, TypeOK
  <1>2. hold = <<>> => Linked(hold) = {}
    BY DEF Linked
  <1>3. hold = <<calling>> => Linked(hold) = {calling} /\ hold # <<>>
    BY DEF Linked
  <1> QED BY <1>1, <1>2, <1>3

(* Starting a timer, by whoever runs or by rt_timer_check. *)
LEMMA StartStep ==
    ASSUME TimerIInv, NEW t \in Timers, timer[t].live, Started(t),
           rt_tick' = rt_tick, stopping' = stopping,
           \/ pc' = pc /\ calling' = calling
           \/ pc = "callback" /\ pc' = "check" /\ calling' = Nobody /\ t = calling
    PROVE  TimerIInv'
  <1>1. /\ list' \in Seq(Timers) /\ NoDup(list') /\ Linked(list') = Linked(list) \cup {t}
        /\ hold' = IF hold = <<t>> THEN <<>> ELSE hold
        /\ earlier' \subseteq Linked(list') \X Linked(list')
        /\ timer' \in [Timers -> Object] /\ timer'[t].activated
        /\ timer'[t] = [timer[t] EXCEPT !.timeout_tick = timer'[t].timeout_tick,
                                        !.activated = TRUE]
        /\ \A x \in Timers \ {t} : timer'[x] = timer[x]
        /\ TicksLeft(t)' = timer[t].init_tick
        /\ Ordered(list', Sooner(timer', rt_tick', earlier'))
    BY StartedKeeps
  <1>2. /\ Linked(list) \subseteq Timers /\ timer[t].init_tick \in Times
        /\ timer \in [Timers -> Object]
    BY TimerTyped DEF TimerIInv, TypeOK
  <1>3. timer'[t].live
    <2>1. timer[t] \in Object
      BY <1>2
    <2> QED BY <1>1, <2>1 DEF Object
  <1>4. hold' = <<>> \/ (hold' = hold /\ hold = <<calling>> /\ calling' = calling /\ calling # t
                           /\ pc' = pc /\ pc = "callback" /\ calling \in Timers)
    BY <1>1, HoldTyped
  <1>5. \A x \in Linked(hold') : x \in Linked(hold) /\ x # t /\ x \in Timers
    <2>1. CASE hold' = <<>>
      BY <2>1 DEF Linked
    <2>2. CASE hold' # <<>>
      BY <1>4, <2>2, HoldTyped
    <2> QED BY <2>1, <2>2
  <1>6. TypeOK'
    <2>1. \A x \in Linked(list') : timer'[x].live /\ timer'[x].activated
      BY <1>1, <1>2, <1>3 DEF TimerIInv, TypeOK
    <2>2. hold' \in {<<>>, <<calling'>>} /\ (pc' # "callback" => hold' = <<>>)
      BY <1>4
    <2>3. pc' \in PCs /\ calling' \in Timers \cup {Nobody} /\ (calling' # Nobody <=> pc' = "callback")
      BY DEF TimerIInv, TypeOK, PCs
    <2> QED BY <1>1, <2>1, <2>2, <2>3 DEF TimerIInv, TypeOK
  <1>7. Ahead'
    <2> SUFFICES ASSUME NEW x \in Linked(list')
                 PROVE  TicksLeft(x)' < Half /\ (pc' = "idle" => TicksLeft(x)' # 0)
      BY DEF Ahead
    <2>1. CASE x = t
      BY <1>1, <1>2, <2>1, Halves
    <2>2. CASE x # t
      <3>1. x \in Linked(list) /\ timer'[x] = timer[x]
        BY <1>1, <1>2, <2>2
      <3>2. TicksLeft(x)' = TicksLeft(x)
        BY <3>1 DEF TicksLeft
      <3>3. TicksLeft(x) < Half /\ (pc = "idle" => TicksLeft(x) # 0)
        BY <3>1 DEF TimerIInv, Ahead
      <3> QED BY <3>2, <3>3
    <2> QED BY <2>1, <2>2
  <1>8. HeldApart'
    BY <1>1, <1>5 DEF HeldApart, TimerIInv
  <1> QED BY <1>1, <1>6, <1>7, <1>8, Rebuilt

(* Taking a timer off and changing what it is. *)
LEMMA RemoveStep ==
    ASSUME TimerIInv, NEW t \in Timers, _timer_remove(t), NEW o \in Object,
           timer' = [timer EXCEPT ![t] = o],
           rt_tick' = rt_tick, pc' = pc, calling' = calling,
           stopping' \in Timers \cup {Nobody}
    PROVE  TimerIInv'
  <1> DEFINE q == rt_list_remove(list, t)
  <1>1. /\ q \in Seq(Timers) /\ NoDup(q) /\ Linked(q) = Linked(list) \ {t}
        /\ Without(t) \subseteq Linked(q) \X Linked(q)
        /\ Ordered(q, Sooner(timer, rt_tick, Without(t)))
        /\ rt_list_remove(hold, t) = IF hold = <<t>> THEN <<>> ELSE hold
    BY RemovedKeeps
  <1>2. list' = q /\ hold' = (IF hold = <<t>> THEN <<>> ELSE hold) /\ earlier' = Without(t)
    BY <1>1 DEF _timer_remove
  <1> HIDE DEF q
  <1>3. Linked(list) \subseteq Timers /\ timer \in [Timers -> Object]
    BY TimerTyped DEF TimerIInv, TypeOK
  <1>4. \A x \in Timers \ {t} : timer'[x] = timer[x]
    BY <1>3
  <1>5. \A x \in Linked(hold') : x \in Linked(hold) /\ x # t /\ x \in Timers
    <2>1. CASE hold' = <<>>
      BY <2>1 DEF Linked
    <2>2. CASE hold' # <<>>
      BY <1>2, <2>2, HoldTyped
    <2> QED BY <2>1, <2>2
  <1>6. ASSUME NEW x \in Linked(q), NEW y \in Linked(q),
               <<x, y>> \in Sooner(timer, rt_tick, Without(t))
        PROVE  <<x, y>> \in Sooner(timer', rt_tick', earlier')
    <2>1. timer'[x] = timer[x] /\ timer'[y] = timer[y]
      BY <1>1, <1>3, <1>4
    <2> QED BY <1>2, <1>6, <2>1 DEF Sooner
  <1>7. Ordered(list', Sooner(timer', rt_tick', earlier'))
    BY <1>1, <1>2, <1>6, OrderedByLemma
  <1>8. TypeOK'
    <2>1. timer' \in [Timers -> Object]
      BY <1>3
    <2>2. \A x \in Linked(list') : timer'[x].live /\ timer'[x].activated
      BY <1>1, <1>2, <1>3, <1>4 DEF TimerIInv, TypeOK
    <2> QED BY <1>1, <1>2, <2>1, <2>2 DEF TimerIInv, TypeOK
  <1>9. Ahead'
    <2> SUFFICES ASSUME NEW x \in Linked(list')
                 PROVE  TicksLeft(x)' < Half /\ (pc' = "idle" => TicksLeft(x)' # 0)
      BY DEF Ahead
    <2>1. x \in Linked(list) /\ timer'[x] = timer[x]
      BY <1>1, <1>2, <1>3, <1>4
    <2>2. TicksLeft(x)' = TicksLeft(x)
      BY <2>1 DEF TicksLeft
    <2> QED BY <2>1, <2>2 DEF TimerIInv, Ahead
  <1>10. HeldApart'
    BY <1>1, <1>2, <1>4, <1>5 DEF HeldApart, TimerIInv
  <1> QED BY <1>7, <1>8, <1>9, <1>10, Rebuilt

(* Steps that leave the list and when its timers are due as they are. *)
LEMMA QuietStep ==
    ASSUME TimerIInv, TypeOK', HeldApart', list' = list, rt_tick' = rt_tick, earlier' = earlier,
           \A x \in Linked(list) : timer'[x].timeout_tick = timer[x].timeout_tick,
           pc' = "idle" => pc = "idle" \/ \A x \in Linked(list) : TicksLeft(x) # 0
    PROVE  TimerIInv'
  <1>1. \A x \in Linked(list) : TicksLeft(x)' = TicksLeft(x)
    BY DEF TicksLeft
  <1>2. Ahead'
    BY <1>1 DEF Ahead, TimerIInv
  <1>3. StartedEarlyCalledEarly'
    <2>1. \A i \in DOMAIN list : list[i] \in Linked(list)
      BY DEF Linked
    <2> QED BY <1>1, <2>1 DEF StartedEarlyCalledEarly, TimerIInv
  <1> QED BY <1>2, <1>3 DEF TimerIInv

LEMMA ControlStep ==
    ASSUME TimerIInv, NEW t \in Timers, NEW time \in Times, NEW per \in BOOLEAN,
           rt_timer_control(t, time, per)
    PROVE  TimerIInv'
  <1>1. /\ timer' = [timer EXCEPT ![t].init_tick = time, ![t].periodic = per]
        /\ UNCHANGED <<rt_tick, list, pc, hold, calling, stopping, earlier>>
    BY DEF rt_timer_control
  <1>2. timer \in [Timers -> Object] /\ Linked(list) \subseteq Timers
    BY TimerTyped DEF TimerIInv, TypeOK
  <1>3. /\ timer' \in [Timers -> Object]
        /\ \A x \in Timers : /\ timer'[x].timeout_tick = timer[x].timeout_tick
                             /\ timer'[x].live = timer[x].live
                             /\ timer'[x].activated = timer[x].activated
    BY <1>1, <1>2 DEF Object
  <1>4. TypeOK'
    BY <1>1, <1>2, <1>3 DEF TimerIInv, TypeOK
  <1>5. HeldApart'
    <2>1. \A x \in Linked(hold) : x \in Timers
      BY HoldTyped
    <2> QED BY <1>1, <1>3, <2>1 DEF TimerIInv, HeldApart
  <1> QED BY <1>1, <1>2, <1>3, <1>4, <1>5, QuietStep

LEMMA TimerInitStep ==
    ASSUME TimerIInv, NEW t \in Timers, NEW time \in Times, NEW per \in BOOLEAN,
           rt_timer_init(t, time, per)
    PROVE  TimerIInv'
  <1> DEFINE o == [live |-> TRUE, periodic |-> per, activated |-> FALSE,
                   init_tick |-> time, timeout_tick |-> 0]
  <1>1. /\ ~timer[t].live
        /\ timer' = [timer EXCEPT ![t] = o]
        /\ UNCHANGED <<rt_tick, list, pc, hold, calling, stopping, earlier>>
    BY DEF rt_timer_init
  <1>2. /\ timer \in [Timers -> Object] /\ Linked(list) \subseteq Timers
        /\ \A x \in Linked(list) : timer[x].live
    BY TimerTyped DEF TimerIInv, TypeOK
  <1>3. o \in Object
    BY Halves DEF Object
  <1> HIDE DEF o
  <1>4. timer' \in [Timers -> Object] /\ \A x \in Timers \ {t} : timer'[x] = timer[x]
    BY <1>1, <1>2, <1>3
  <1>5. \A x \in Linked(list) : x # t
    BY <1>1, <1>2
  <1>6. TypeOK'
    BY <1>1, <1>2, <1>4, <1>5 DEF TimerIInv, TypeOK
  <1>7. HeldApart'
    <2>1. \A x \in Linked(hold) : x \in Timers /\ timer[x].live
      BY HoldTyped DEF HeldApart, TimerIInv
    <2>2. \A x \in Linked(hold) : x # t
      BY <1>1, <2>1
    <2> QED BY <1>1, <1>4, <2>1, <2>2 DEF TimerIInv, HeldApart
  <1>8. \A x \in Linked(list) : timer'[x].timeout_tick = timer[x].timeout_tick
    BY <1>2, <1>4, <1>5
  <1> QED BY <1>1, <1>6, <1>7, <1>8, QuietStep

(* What is due is at the head. *)
LEMMA DueFirst ==
    ASSUME TimerIInv
    PROVE  /\ list # <<>> => /\ Head(list) \in Linked(list) /\ Head(list) \in Timers
                             /\ Expired(Head(list)) <=> TicksLeft(Head(list)) = 0
           /\ NothingDue => \A x \in Linked(list) : TicksLeft(x) # 0
  <1>1. list \in Seq(Timers) /\ Linked(list) \subseteq Timers /\ rt_tick \in 0 .. Wrap - 1
    BY TimerTyped DEF TimerIInv
  <1>2. ASSUME list # <<>>
        PROVE  /\ Head(list) \in Linked(list) /\ Head(list) \in Timers
               /\ Expired(Head(list)) <=> TicksLeft(Head(list)) = 0
    <2> DEFINE h == Head(list)
    <2>1. h \in Linked(list) /\ h \in Timers
      BY <1>1, <1>2, EmptyLemma
    <2> HIDE DEF h
    <2>2. TicksLeft(h) < Half /\ timer[h].timeout_tick \in 0 .. Wrap - 1
      BY <2>1, TimerTyped DEF TimerIInv, Ahead
    <2>3. Expired(h) <=> TicksLeft(h) = 0
      BY <1>1, <2>2, ExpiredLemma DEF Expired, TicksLeft
    <2> QED BY <2>1, <2>3 DEF h
  <1>3. ASSUME NothingDue, NEW x \in Linked(list) PROVE TicksLeft(x) # 0
    <2>1. list # <<>>
      BY <1>1, EmptyLemma
    <2>2. TicksLeft(Head(list)) # 0
      BY <1>2, <1>3, <2>1 DEF NothingDue
    <2>3. PICK i \in DOMAIN list : x = list[i]
      BY DEF Linked
    <2>4. DOMAIN list = 1 .. Len(list) /\ Len(list) \in Nat \ {0} /\ Head(list) = list[1]
      BY <1>1, <2>1
    <2>5. CASE i = 1
      BY <2>2, <2>3, <2>4, <2>5
    <2>6. CASE i # 1
      <3>1. 1 \in DOMAIN list /\ 1 < i
        BY <2>3, <2>4, <2>6
      <3>2. TicksLeft(list[1]) < TicksLeft(list[i]) \/ TicksLeft(list[1]) = TicksLeft(list[i])
        BY <3>1, <2>3 DEF TimerIInv, StartedEarlyCalledEarly
      <3>3. TicksLeft(list[1]) \in Nat /\ TicksLeft(list[i]) \in Nat
        BY <1>1, <2>3, <3>1, TimerTyped DEF TimerIInv
      <3> QED BY <2>2, <2>3, <2>4, <3>2, <3>3
    <2> QED BY <2>5, <2>6
  <1> QED BY <1>2, <1>3

LEMMA TickStep ==
    ASSUME TimerIInv, rt_tick_increase
    PROVE  /\ TimerIInv'
           /\ \A x \in Linked(list) : TicksLeft(x)' = TicksLeft(x) - 1
  <1>1. /\ pc = "idle" /\ rt_tick' = (rt_tick + 1) % Wrap /\ pc' = "tick"
        /\ UNCHANGED <<list, timer, hold, calling, stopping, earlier>>
    BY DEF rt_tick_increase
  <1>2. ASSUME NEW x \in Linked(list)
        PROVE  /\ TicksLeft(x) \in Nat /\ TicksLeft(x) < Half /\ TicksLeft(x) # 0
               /\ TicksLeft(x)' = TicksLeft(x) - 1
    <2>1. /\ timer[x].timeout_tick \in 0 .. Wrap - 1 /\ rt_tick \in 0 .. Wrap - 1
          /\ TicksLeft(x) \in Nat
      BY TimerTyped DEF TimerIInv
    <2>2. TicksLeft(x) < Half /\ TicksLeft(x) # 0
      BY <1>1 DEF TimerIInv, Ahead
    <2>3. (timer[x].timeout_tick - rt_tick) % Wrap # 0
      BY <2>2 DEF TicksLeft
    <2>4. (timer[x].timeout_tick - ((rt_tick + 1) % Wrap)) % Wrap
             = ((timer[x].timeout_tick - rt_tick) % Wrap) - 1
      BY <2>1, <2>3, TickLemma
    <2>5. TicksLeft(x)' = TicksLeft(x) - 1
      BY <1>1, <2>4 DEF TicksLeft
    <2> QED BY <2>1, <2>2, <2>5
  <1>3. rt_tick' \in 0 .. Wrap - 1
    <2>1. rt_tick \in 0 .. Wrap - 1 /\ Wrap \in Nat \ {0}
      BY Halves DEF TimerIInv, TypeOK
    <2> QED BY <1>1, <2>1
  <1>4. TypeOK'
    BY <1>1, <1>3 DEF TimerIInv, TypeOK, PCs
  <1>5. Ahead'
    BY <1>1, <1>2, Halves DEF Ahead
  <1>6. HeldApart'
    BY <1>1 DEF TimerIInv, HeldApart
  <1>7. StartedEarlyCalledEarly'
    <2>1. \A i \in DOMAIN list : list[i] \in Linked(list)
      BY DEF Linked
    <2> SUFFICES ASSUME NEW i \in DOMAIN list, NEW j \in DOMAIN list, i < j
                 PROVE  \/ TicksLeft(list[i])' < TicksLeft(list[j])'
                        \/ /\ TicksLeft(list[i])' = TicksLeft(list[j])'
                           /\ <<list[i], list[j]>> \in earlier
      BY <1>1 DEF StartedEarlyCalledEarly, TicksLeft
    <2>2. \/ TicksLeft(list[i]) < TicksLeft(list[j])
          \/ /\ TicksLeft(list[i]) = TicksLeft(list[j])
             /\ <<list[i], list[j]>> \in earlier
      BY DEF TimerIInv, StartedEarlyCalledEarly
    <2>3. /\ TicksLeft(list[i]) \in Nat /\ TicksLeft(list[j]) \in Nat
          /\ (TicksLeft(list[i]))' = TicksLeft(list[i]) - 1
          /\ (TicksLeft(list[j]))' = TicksLeft(list[j]) - 1
      <3>1. \A x \in Linked(list) : (timer'[x].timeout_tick - rt_tick') % Wrap = TicksLeft(x) - 1
        BY <1>2 DEF TicksLeft
      <3> QED BY <1>1, <1>2, <2>1, <3>1 DEF TicksLeft
    <2> QED BY <2>2, <2>3
  <1> QED BY <1>2, <1>4, <1>5, <1>6, <1>7 DEF TimerIInv

LEMMA RemovedTyped ==
    ASSUME NEW o \in Object, NEW active \in BOOLEAN
    PROVE  Removed(o, active) \in Object /\ Removed(o, active).live = o.live
  <1>1. 0 \in 0 .. Wrap - 1
    BY Halves
  <1> QED BY <1>1 DEF Removed, Object

(* The first timer is taken off to be called. *)
LEMMA FireStep ==
    ASSUME TimerIInv, CheckFires
    PROVE  /\ TimerIInv'
           /\ calling' \in Linked(list) /\ calling' \in Timers /\ TicksLeft(calling') = 0
           /\ hold = <<>> /\ hold' = <<calling'>> /\ rt_tick' = rt_tick
           /\ Linked(list') = Linked(list) \ {calling'}
           /\ timer' = [timer EXCEPT ![calling'] = Removed(@, timer[calling'].periodic)]
           /\ timer' \in [Timers -> Object]
  <1> DEFINE t == Head(list)
  <1>1. /\ pc = "check" /\ ~NothingDue /\ calling' = t /\ pc' = "callback"
        /\ list' = Tail(list) /\ earlier' = Without(t)
        /\ timer' = [timer EXCEPT ![t] = Removed(@, timer[t].periodic)]
        /\ hold' = rt_list_insert_after(hold, t)
        /\ UNCHANGED <<rt_tick, stopping>>
    BY DEF CheckFires
  <1>2. list # <<>> /\ Expired(t)
    BY <1>1 DEF NothingDue
  <1>3. t \in Linked(list) /\ t \in Timers /\ TicksLeft(t) = 0
    BY <1>2, DueFirst
  <1>4. /\ list \in Seq(Timers) /\ NoDup(list) /\ Linked(list) \subseteq Timers
        /\ timer \in [Timers -> Object] /\ hold = <<>> /\ calling = Nobody
        /\ \A x \in Linked(list) : timer[x].live /\ timer[x].activated
    BY <1>1, TimerTyped DEF TimerIInv, TypeOK
  <1>5. /\ Tail(list) \in Seq(Timers) /\ NoDup(Tail(list))
        /\ Linked(Tail(list)) = Linked(list) \ {t}
    BY <1>2, <1>4, TailLemma
  <1>6. Ordered(Tail(list), Sooner(timer, rt_tick, earlier))
    <2>1. Ordered(list, Sooner(timer, rt_tick, earlier))
      BY InOrder DEF TimerIInv
    <2> QED BY <1>2, <1>4, <2>1, TailOrdered
  <1> HIDE DEF t
  <1>7. hold' = <<t>>
    BY <1>1, <1>4 DEF rt_list_insert_after
  <1>8. /\ timer' \in [Timers -> Object] /\ \A x \in Timers \ {t} : timer'[x] = timer[x]
        /\ timer'[t].live
    <2>1. timer[t] \in Object /\ timer[t].live
      BY <1>3, <1>4
    <2>2. Removed(timer[t], timer[t].periodic) \in Object /\ Removed(timer[t], timer[t].periodic).live
      BY <2>1, RemovedTyped DEF Object
    <2> QED BY <1>1, <1>3, <1>4, <2>2
  <1>9. ASSUME NEW x \in Linked(list'), NEW y \in Linked(list'),
               <<x, y>> \in Sooner(timer, rt_tick, earlier)
        PROVE  <<x, y>> \in Sooner(timer', rt_tick', earlier')
    <2>1. x # t /\ y # t /\ x \in Timers /\ y \in Timers
      BY <1>1, <1>4, <1>5
    <2>2. timer'[x] = timer[x] /\ timer'[y] = timer[y] /\ rt_tick' = rt_tick
      BY <1>1, <1>8, <2>1
    <2>3. <<x, y>> \in earlier => <<x, y>> \in earlier'
      BY <1>1, <2>1 DEF Without
    <2> QED BY <1>9, <2>2, <2>3 DEF Sooner
  <1>10. Ordered(list', Sooner(timer', rt_tick', earlier'))
    BY <1>1, <1>6, <1>9, OrderedByLemma
  <1>11. TypeOK'
    <2>1. earlier' \subseteq Linked(list') \X Linked(list')
      BY <1>1, <1>5 DEF Without, TimerIInv, TypeOK
    <2>2. calling' \in Timers /\ calling' # Nobody /\ hold' = <<calling'>>
      BY <1>1, <1>3, <1>7, TimerTimersAssumption
    <2>3. \A x \in Linked(list') : timer'[x].live /\ timer'[x].activated
      BY <1>1, <1>4, <1>5, <1>8
    <2> QED BY <1>1, <1>5, <1>8, <2>1, <2>2, <2>3 DEF TimerIInv, TypeOK, PCs
  <1>12. Ahead'
    <2> SUFFICES ASSUME NEW x \in Linked(list') PROVE TicksLeft(x)' < Half
      BY <1>1 DEF Ahead
    <2>1. x \in Linked(list) /\ timer'[x] = timer[x]
      BY <1>1, <1>4, <1>5, <1>8
    <2>2. TicksLeft(x)' = TicksLeft(x)
      BY <1>1, <2>1 DEF TicksLeft
    <2> QED BY <2>1, <2>2 DEF TimerIInv, Ahead
  <1>13. HeldApart'
    <2>1. Linked(hold') = {t}
      BY <1>7 DEF Linked
    <2> QED BY <1>1, <1>5, <1>8, <2>1 DEF HeldApart
  <1>14. TimerIInv'
    BY <1>10, <1>11, <1>12, <1>13, Rebuilt
  <1> QED BY <1>1, <1>3, <1>4, <1>5, <1>7, <1>8, <1>14

(* The timeout function returned. *)
LEMMA ReturnStep ==
    ASSUME TimerIInv, CallbackReturns
    PROVE  TimerIInv'
  <1>1. /\ pc = "callback" /\ pc' = "check" /\ calling' = Nobody /\ UNCHANGED <<rt_tick, stopping>>
        /\ calling \in Timers
    BY DEF CallbackReturns, TimerIInv, TypeOK
  <1>2. CASE hold = <<>>
    <2>1. UNCHANGED <<list, hold, timer, earlier>>
      BY <1>2 DEF CallbackReturns
    <2>2. TypeOK'
      BY <1>1, <1>2, <2>1 DEF TimerIInv, TypeOK, PCs
    <2>3. HeldApart'
      BY <2>1 DEF HeldApart, TimerIInv
    <2> QED BY <1>1, <2>1, <2>2, <2>3, QuietStep
  <1>3. CASE hold # <<>> /\ timer[calling].periodic /\ timer[calling].activated
    <2>1. Started(calling)
      BY <1>3 DEF CallbackReturns
    <2>2. timer[calling].live
      BY <1>3, HoldTyped DEF HeldApart, TimerIInv
    <2> QED BY <1>1, <2>1, <2>2, StartStep
  <1>4. CASE hold # <<>> /\ ~(timer[calling].periodic /\ timer[calling].activated)
    <2>1. hold' = rt_list_remove(hold, calling) /\ UNCHANGED <<list, timer, earlier>>
      BY <1>4 DEF CallbackReturns
    <2>2. hold' = <<>>
      BY <1>1, <1>4, <2>1, HoldTyped, RemovedKeeps
    <2>3. TypeOK'
      BY <1>1, <2>1, <2>2 DEF TimerIInv, TypeOK, PCs
    <2>4. HeldApart'
      BY <2>2 DEF HeldApart, Linked
    <2> QED BY <1>1, <2>1, <2>3, <2>4, QuietStep
  <1> QED BY <1>2, <1>3, <1>4

LEMMA TimerKeeps ==
    ASSUME TimerIInv, Next
    PROVE  TimerIInv'
  <1>1. ASSUME NEW t \in Timers, rt_timer_start(t) PROVE TimerIInv'
    BY <1>1, StartStep DEF rt_timer_start
  <1>2. ASSUME NEW o \in Object PROVE Removed(o, FALSE) \in Object
    BY RemovedTyped
  <1>3. timer \in [Timers -> Object] /\ (stopping # Nobody => stopping \in Timers)
    BY DEF TimerIInv, TypeOK
  <1>4. ASSUME NEW t \in Timers, StopInside(t) PROVE TimerIInv'
    <2>1. Removed(timer[t], FALSE) \in Object
      BY <1>2, <1>3
    <2>2. /\ timer' = [timer EXCEPT ![t] = Removed(timer[t], FALSE)]
          /\ _timer_remove(t) /\ UNCHANGED <<rt_tick, pc, calling, stopping>>
      BY <1>4 DEF StopInside
    <2> QED BY <1>3, <2>1, <2>2, RemoveStep
  <1>5. ASSUME NEW t \in Timers, rt_timer_delete(t) PROVE TimerIInv'
    <2> DEFINE o == [Removed(timer[t], FALSE) EXCEPT !.live = FALSE]
    <2>1. o \in Object
      <3>1. Removed(timer[t], FALSE) \in Object
        BY <1>2, <1>3
      <3> QED BY <3>1 DEF Object
    <2>2. /\ timer' = [timer EXCEPT ![t] = o]
          /\ _timer_remove(t) /\ UNCHANGED <<rt_tick, pc, calling, stopping>>
      BY <1>5 DEF rt_timer_delete
    <2> HIDE DEF o
    <2> QED BY <1>3, <2>1, <2>2, RemoveStep
  <1>6. CASE rt_timer_stop
    <2>1. Removed(timer[stopping], FALSE) \in Object /\ stopping \in Timers
      BY <1>2, <1>3, <1>6 DEF rt_timer_stop
    <2>2. /\ timer' = [timer EXCEPT ![stopping] = Removed(timer[stopping], FALSE)]
          /\ _timer_remove(stopping) /\ UNCHANGED <<rt_tick, pc, calling>> /\ stopping' = Nobody
      BY <1>6 DEF rt_timer_stop
    <2> QED BY <2>1, <2>2, RemoveStep
  <1>7. ASSUME \/ \E t \in Timers : StopTests(t)
               \/ rt_timer_check \/ CheckEnds
        PROVE  TimerIInv'
    <2>1. UNCHANGED <<rt_tick, list, timer, hold, calling, earlier>>
      BY <1>7 DEF StopTests, rt_timer_check, CheckEnds
    <2>2. TypeOK'
      BY <1>7, <2>1 DEF TimerIInv, TypeOK, PCs, StopTests, rt_timer_check, CheckEnds
    <2>3. HeldApart'
      BY <2>1 DEF TimerIInv, HeldApart
    <2>4. pc' = "idle" => pc = "idle" \/ \A x \in Linked(list) : TicksLeft(x) # 0
      BY <1>7, DueFirst DEF StopTests, rt_timer_check, CheckEnds
    <2> QED BY <2>1, <2>2, <2>3, <2>4, QuietStep
  <1> QED BY <1>1, <1>4, <1>5, <1>6, <1>7, ControlStep, TimerInitStep, TickStep, FireStep,
             ReturnStep DEF Next

LEMMA TimerStutters ==
    ASSUME TimerIInv, UNCHANGED vars
    PROVE  TimerIInv'
  BY DEF vars, TimerIInv, TypeOK, Ahead, HeldApart, StartedEarlyCalledEarly, TicksLeft

LEMMA TimerBegins == Init => TimerIInv
  <1> SUFFICES ASSUME Init PROVE TimerIInv
    OBVIOUS
  <1>1. Linked(list) = {} /\ Linked(hold) = {} /\ DOMAIN list = {}
    BY DEF Init, Linked
  <1>2. timer \in [Timers -> Object]
    <2> DEFINE New == [live : {TRUE}, periodic : BOOLEAN, activated : {FALSE},
                       init_tick : Times, timeout_tick : {0}]
    <2>1. 0 \in 0 .. Wrap - 1
      BY Halves
    <2>2. ASSUME NEW o \in New PROVE o \in Object
      BY <2>1 DEF Object
    <2>3. timer \in [Timers -> New]
      BY DEF Init
    <2> HIDE DEF New
    <2> QED BY <2>2, <2>3
  <1>3. TypeOK
    BY <1>1, <1>2, TimerTimersAssumption DEF Init, TypeOK, PCs, NoDup
  <1>4. Ahead /\ HeldApart /\ StartedEarlyCalledEarly
    BY <1>1 DEF Ahead, HeldApart, StartedEarlyCalledEarly
  <1> QED BY <1>3, <1>4 DEF TimerIInv

LEMMA TimerInvariance == Spec => []TimerIInv
  <1>1. TimerIInv /\ [Next]_vars => TimerIInv'
    BY TimerKeeps, TimerStutters
  <1> QED BY <1>1, TimerBegins, PTL DEF Spec

(* What is linked on the timer list exists and is flagged active, and one   *)
(* timer at most is on the temporary list, whatever timeout functions do.   *)
THEOREM TimersTyped == Spec => []TypeOK
  <1>1. TimerIInv => TypeOK
    BY DEF TimerIInv
  <1> QED BY <1>1, TimerInvariance, PTL

(* The timer list is in the order of due ticks, ties in the order of       *)
(* starting, for any timers and any width of the tick, across its wrapping. *)
THEOREM TimersInOrder == Spec => []StartedEarlyCalledEarly
  <1>1. TimerIInv => StartedEarlyCalledEarly
    BY DEF TimerIInv
  <1> QED BY <1>1, TimerInvariance, PTL

-----------------------------------------------------------------------------
(* Timers are alarms *)

AlarmsLeft     == [t \in Timers |-> IF t \in Linked(list) THEN TicksLeft(t) ELSE -1]
AlarmsDelay    == [t \in Timers |-> timer[t].init_tick]
AlarmsPeriodic == [t \in Timers |-> timer[t].periodic]
AlarmsDealt    == calling # Nobody /\ hold = <<>>
AlarmsAgain    == IF hold = <<>> THEN FALSE ELSE timer[calling].activated

LEMMA LeftSet ==
    ASSUME NEW t \in Timers, Linked(list') = Linked(list) \cup {t},
           \A x \in Linked(list) \ {t} : TicksLeft(x)' = TicksLeft(x)
    PROVE  AlarmsLeft' = [AlarmsLeft EXCEPT ![t] = TicksLeft(t)']
  <1>1. ASSUME NEW x \in Timers
        PROVE  AlarmsLeft'[x] = [AlarmsLeft EXCEPT ![t] = TicksLeft(t)'][x]
    <2>1. CASE x = t
      BY <2>1 DEF AlarmsLeft
    <2>2. CASE x # t
      <3>1. x \in Linked(list') <=> x \in Linked(list)
        BY <2>2
      <3>2. x \in Linked(list) => TicksLeft(x)' = TicksLeft(x)
        BY <2>2
      <3>3. AlarmsLeft'[x] = AlarmsLeft[x]
        BY <3>1, <3>2 DEF AlarmsLeft
      <3> QED BY <2>2, <3>3 DEF AlarmsLeft
    <2> QED BY <2>1, <2>2
  <1> QED BY <1>1 DEF AlarmsLeft

LEMMA LeftOff ==
    ASSUME NEW t \in Timers, Linked(list') = Linked(list) \ {t},
           \A x \in Linked(list) \ {t} : TicksLeft(x)' = TicksLeft(x)
    PROVE  AlarmsLeft' = [AlarmsLeft EXCEPT ![t] = -1]
  <1>1. ASSUME NEW x \in Timers
        PROVE  AlarmsLeft'[x] = [AlarmsLeft EXCEPT ![t] = -1][x]
    <2>1. CASE x = t
      BY <2>1 DEF AlarmsLeft
    <2>2. CASE x # t
      <3>1. x \in Linked(list') <=> x \in Linked(list)
        BY <2>2
      <3>2. x \in Linked(list) => TicksLeft(x)' = TicksLeft(x)
        BY <2>2
      <3>3. AlarmsLeft'[x] = AlarmsLeft[x]
        BY <3>1, <3>2 DEF AlarmsLeft
      <3> QED BY <2>2, <3>3 DEF AlarmsLeft
    <2> QED BY <2>1, <2>2
  <1> QED BY <1>1 DEF AlarmsLeft

LEMMA LeftSame ==
    ASSUME Linked(list') = Linked(list), \A x \in Linked(list) : TicksLeft(x)' = TicksLeft(x)
    PROVE  AlarmsLeft' = AlarmsLeft
  BY DEF AlarmsLeft

(* Starting. *)
LEMMA StartedSets ==
    ASSUME TimerIInv, NEW t \in Timers, timer[t].live, Started(t), rt_tick' = rt_tick
    PROVE  /\ AlarmsLeft' = [AlarmsLeft EXCEPT ![t] = AlarmsDelay[t]]
           /\ AlarmsDelay' = AlarmsDelay /\ AlarmsPeriodic' = AlarmsPeriodic
           /\ hold' = IF hold = <<t>> THEN <<>> ELSE hold
           /\ \A x \in Timers \ {t} : timer'[x] = timer[x]
  <1>1. /\ Linked(list') = Linked(list) \cup {t}
        /\ hold' = IF hold = <<t>> THEN <<>> ELSE hold
        /\ timer'[t] = [timer[t] EXCEPT !.timeout_tick = timer'[t].timeout_tick,
                                        !.activated = TRUE]
        /\ \A x \in Timers \ {t} : timer'[x] = timer[x]
        /\ TicksLeft(t)' = timer[t].init_tick
    BY StartedKeeps
  <1>2. timer \in [Timers -> Object] /\ Linked(list) \subseteq Timers
    BY TimerTyped DEF TimerIInv, TypeOK
  <1>3. \A x \in Linked(list) \ {t} : TicksLeft(x)' = TicksLeft(x)
    BY <1>1, <1>2 DEF TicksLeft
  <1>4. AlarmsLeft' = [AlarmsLeft EXCEPT ![t] = TicksLeft(t)']
    BY <1>1, <1>3, LeftSet
  <1>5. timer'[t].init_tick = timer[t].init_tick /\ timer'[t].periodic = timer[t].periodic
    <2>1. timer[t] \in Object
      BY <1>2
    <2> QED BY <1>1, <2>1 DEF Object
  <1>6. AlarmsDelay' = AlarmsDelay /\ AlarmsPeriodic' = AlarmsPeriodic
    BY <1>1, <1>5 DEF AlarmsDelay, AlarmsPeriodic
  <1>7. TicksLeft(t)' = AlarmsDelay[t]
    BY <1>1 DEF AlarmsDelay
  <1> QED BY <1>1, <1>4, <1>6, <1>7

(* Taking off. *)
LEMMA RemovedPutsOff ==
    ASSUME TimerIInv, NEW t \in Timers, _timer_remove(t), NEW o,
           timer' = [timer EXCEPT ![t] = o], rt_tick' = rt_tick,
           o.init_tick = timer[t].init_tick, o.periodic = timer[t].periodic
    PROVE  /\ AlarmsLeft' = [AlarmsLeft EXCEPT ![t] = -1]
           /\ AlarmsDelay' = AlarmsDelay /\ AlarmsPeriodic' = AlarmsPeriodic
           /\ hold' = IF hold = <<t>> THEN <<>> ELSE hold
           /\ \A x \in Timers \ {t} : timer'[x] = timer[x]
  <1>1. Linked(list') = Linked(list) \ {t} /\ hold' = (IF hold = <<t>> THEN <<>> ELSE hold)
    BY RemovedKeeps DEF _timer_remove
  <1>2. timer \in [Timers -> Object] /\ Linked(list) \subseteq Timers
    BY TimerTyped DEF TimerIInv, TypeOK
  <1>3. timer'[t] = o /\ \A x \in Timers \ {t} : timer'[x] = timer[x]
    BY <1>2
  <1>4. \A x \in Linked(list) \ {t} : TicksLeft(x)' = TicksLeft(x)
    BY <1>2, <1>3 DEF TicksLeft
  <1>5. AlarmsLeft' = [AlarmsLeft EXCEPT ![t] = -1]
    BY <1>1, <1>4, LeftOff
  <1>6. AlarmsDelay' = AlarmsDelay /\ AlarmsPeriodic' = AlarmsPeriodic
    BY <1>3 DEF AlarmsDelay, AlarmsPeriodic
  <1> QED BY <1>1, <1>3, <1>5, <1>6

(* The function that runs has dealt with its timer, or another was. *)
LEMMA Dealing ==
    ASSUME TimerIInv, NEW t \in Timers, calling' = calling,
           hold' = IF hold = <<t>> THEN <<>> ELSE hold,
           \A x \in Timers \ {t} : timer'[x] = timer[x]
    PROVE  IF calling = t THEN AlarmsDealt' = TRUE /\ AlarmsAgain' = FALSE
                          ELSE AlarmsDealt' = AlarmsDealt /\ AlarmsAgain' = AlarmsAgain
  <1>1. CASE calling = t
    <2>1. hold' = <<>> /\ calling' # Nobody
      BY <1>1, HoldTyped, TimerTimersAssumption
    <2> QED BY <1>1, <2>1 DEF AlarmsDealt, AlarmsAgain
  <1>2. CASE calling # t
    <2>1. hold = <<>> \/ (hold = <<calling>> /\ calling \in Timers)
      BY HoldTyped
    <2>2. hold' = hold
      BY <1>2, <2>1
    <2>3. hold # <<>> => timer'[calling] = timer[calling]
      BY <1>2, <2>1
    <2> QED BY <1>2, <2>2, <2>3 DEF AlarmsDealt, AlarmsAgain
  <1> QED BY <1>1, <1>2

LEMMA SetIsStep ==
    ASSUME NEW t \in Timers, AlarmsLeft' = [AlarmsLeft EXCEPT ![t] = AlarmsDelay[t]],
           IF calling = t THEN AlarmsDealt' = TRUE /\ AlarmsAgain' = FALSE
                          ELSE AlarmsDealt' = AlarmsDealt /\ AlarmsAgain' = AlarmsAgain,
           rt_tick' = rt_tick, AlarmsDelay' = AlarmsDelay, AlarmsPeriodic' = AlarmsPeriodic,
           calling' = calling
    PROVE  A!Set(t)
  BY DEF A!Set, A!Deal, AlarmsLeft, AlarmsDelay, AlarmsPeriodic, AlarmsDealt, AlarmsAgain

LEMMA PutOffIsStep ==
    ASSUME NEW t \in Timers, AlarmsLeft' = [AlarmsLeft EXCEPT ![t] = -1],
           IF calling = t THEN AlarmsDealt' = TRUE /\ AlarmsAgain' = FALSE
                          ELSE AlarmsDealt' = AlarmsDealt /\ AlarmsAgain' = AlarmsAgain,
           rt_tick' = rt_tick, AlarmsDelay' = AlarmsDelay, AlarmsPeriodic' = AlarmsPeriodic,
           calling' = calling
    PROVE  A!PutOff(t)
  BY DEF A!PutOff, A!Deal, AlarmsLeft, AlarmsDelay, AlarmsPeriodic, AlarmsDealt, AlarmsAgain

LEMMA StartIsSet ==
    ASSUME TimerIInv, NEW t \in Timers, rt_timer_start(t)
    PROVE  A!Set(t)
  <1>1. timer[t].live /\ Started(t) /\ UNCHANGED <<rt_tick, pc, calling, stopping>>
    BY DEF rt_timer_start
  <1> QED BY <1>1, StartedSets, Dealing, SetIsStep

LEMMA StopIsPutOff ==
    ASSUME TimerIInv, NEW t \in Timers,
           StopInside(t) \/ rt_timer_delete(t) \/ (rt_timer_stop /\ t = stopping)
    PROVE  A!PutOff(t)
  <1> DEFINE r == Removed(timer[t], FALSE)
             o == timer'[t]
  <1>1. timer[t] \in Object
    BY DEF TimerIInv, TypeOK
  <1>2. /\ _timer_remove(t) /\ UNCHANGED <<rt_tick, pc, calling>>
        /\ \/ timer' = [timer EXCEPT ![t] = r]
           \/ timer' = [timer EXCEPT ![t] = [r EXCEPT !.live = FALSE]]
    BY DEF StopInside, rt_timer_delete, rt_timer_stop
  <1>3. r \in Object /\ r.init_tick = timer[t].init_tick /\ r.periodic = timer[t].periodic
    BY <1>1, RemovedTyped DEF Removed, Object
  <1> HIDE DEF r
  <1>4. timer \in [Timers -> Object]
    BY DEF TimerIInv, TypeOK
  <1>5. timer' = [timer EXCEPT ![t] = o]
    BY <1>2, <1>4
  <1>6. o.init_tick = timer[t].init_tick /\ o.periodic = timer[t].periodic
    <2>1. o = r \/ o = [r EXCEPT !.live = FALSE]
      BY <1>2, <1>4
    <2> QED BY <1>3, <2>1 DEF Object
  <1> HIDE DEF o
  <1> QED BY <1>2, <1>5, <1>6, RemovedPutsOff, Dealing, PutOffIsStep

LEMMA ControlIsChange ==
    ASSUME TimerIInv, NEW t \in Timers, NEW time \in Times, NEW per \in BOOLEAN,
           rt_timer_control(t, time, per) \/ rt_timer_init(t, time, per)
    PROVE  A!Change(t, time, per)
  <1>1. /\ timer \in [Timers -> Object] /\ Linked(list) \subseteq Timers
        /\ \A x \in Linked(list) : timer[x].live
    BY TimerTyped DEF TimerIInv, TypeOK
  <1>2. UNCHANGED <<rt_tick, list, pc, hold, calling, stopping, earlier>>
    BY DEF rt_timer_control, rt_timer_init
  <1>3. /\ timer'[t].init_tick = time /\ timer'[t].periodic = per
        /\ \A x \in Timers \ {t} : timer'[x] = timer[x]
    BY <1>1 DEF rt_timer_control, rt_timer_init, Object
  <1>4. timer[t].live => /\ timer'[t].timeout_tick = timer[t].timeout_tick
                         /\ timer'[t].activated = timer[t].activated
    BY <1>1 DEF rt_timer_control, rt_timer_init, Object
  <1>5. /\ AlarmsDelay' = [AlarmsDelay EXCEPT ![t] = time]
        /\ AlarmsPeriodic' = [AlarmsPeriodic EXCEPT ![t] = per]
    BY <1>3 DEF AlarmsDelay, AlarmsPeriodic
  <1>6. AlarmsLeft' = AlarmsLeft
    <2>1. \A x \in Linked(list) : timer'[x].timeout_tick = timer[x].timeout_tick
      BY <1>1, <1>3, <1>4
    <2>2. \A x \in Linked(list) : TicksLeft(x)' = TicksLeft(x)
      BY <1>2, <2>1 DEF TicksLeft
    <2> QED BY <1>2, <2>2, LeftSame
  <1>7. AlarmsDealt' = AlarmsDealt /\ AlarmsAgain' = AlarmsAgain
    <2>1. hold # <<>> => calling \in Timers /\ timer[calling].live
      BY HoldTyped DEF HeldApart, TimerIInv
    <2>2. hold # <<>> => timer'[calling].activated = timer[calling].activated
      BY <1>3, <1>4, <2>1
    <2> QED BY <1>2, <2>2 DEF AlarmsDealt, AlarmsAgain
  <1> QED BY <1>2, <1>5, <1>6, <1>7
          DEF A!Change, AlarmsLeft, AlarmsDelay, AlarmsPeriodic, AlarmsDealt, AlarmsAgain

LEMMA TickIsTick ==
    ASSUME TimerIInv, rt_tick_increase
    PROVE  A!Tick
  <1>1. /\ pc = "idle" /\ rt_tick' = (rt_tick + 1) % Wrap
        /\ UNCHANGED <<list, timer, hold, calling, stopping, earlier>>
    BY DEF rt_tick_increase
  <1>2. calling = Nobody
    BY <1>1 DEF TimerIInv, TypeOK
  <1>3. \A x \in Linked(list) : TicksLeft(x)' = TicksLeft(x) - 1 /\ TicksLeft(x) \in Nat
                                /\ TicksLeft(x) # 0
    BY <1>1, TickStep, TimerTyped DEF TimerIInv, Ahead
  <1>4. \A t \in Timers : AlarmsLeft[t] # 0
    BY <1>3 DEF AlarmsLeft
  <1>5. AlarmsLeft' = [t \in Timers |-> IF AlarmsLeft[t] = -1 THEN -1 ELSE AlarmsLeft[t] - 1]
    <2>1. ASSUME NEW t \in Timers
          PROVE  AlarmsLeft'[t] = IF AlarmsLeft[t] = -1 THEN -1 ELSE AlarmsLeft[t] - 1
      <3>1. CASE t \in Linked(list)
        <4>1. AlarmsLeft'[t] = TicksLeft(t) - 1 /\ AlarmsLeft[t] = TicksLeft(t)
          BY <1>1, <1>3, <3>1 DEF AlarmsLeft
        <4>2. TicksLeft(t) \in Nat
          BY <1>3, <3>1
        <4> QED BY <4>1, <4>2
      <3>2. CASE t \notin Linked(list)
        <4>1. AlarmsLeft'[t] = -1 /\ AlarmsLeft[t] = -1
          BY <1>1, <3>2 DEF AlarmsLeft
        <4> QED BY <4>1
      <3> QED BY <3>1, <3>2
    <2> QED BY <2>1 DEF AlarmsLeft
  <1>6. UNCHANGED <<AlarmsDelay, AlarmsPeriodic, AlarmsDealt, AlarmsAgain>>
    BY <1>1 DEF AlarmsDelay, AlarmsPeriodic, AlarmsDealt, AlarmsAgain
  <1> QED BY <1>1, <1>2, <1>4, <1>5, <1>6
          DEF A!Tick, AlarmsLeft, AlarmsDelay, AlarmsPeriodic, AlarmsDealt, AlarmsAgain

LEMMA FireIsRing ==
    ASSUME TimerIInv, CheckFires
    PROVE  \E t \in Timers : A!Ring(t)
  <1>0. PICK t \in Timers : t = calling'
    BY FireStep
  <1>1. /\ t \in Linked(list) /\ t \in Timers /\ TicksLeft(t) = 0
        /\ hold = <<>> /\ hold' = <<t>> /\ rt_tick' = rt_tick
        /\ Linked(list') = Linked(list) \ {t}
        /\ timer' = [timer EXCEPT ![t] = Removed(@, timer[t].periodic)]
    BY <1>0, FireStep
  <1>2. calling = Nobody /\ timer \in [Timers -> Object] /\ Linked(list) \subseteq Timers
    BY TimerTyped DEF CheckFires, TimerIInv, TypeOK
  <1>3. /\ timer'[t].activated = timer[t].periodic
        /\ timer'[t].periodic = timer[t].periodic
        /\ timer'[t].init_tick = timer[t].init_tick
        /\ \A x \in Timers \ {t} : timer'[x] = timer[x]
    BY <1>1, <1>2 DEF Removed, Object
  <1>4. AlarmsLeft[t] = 0
    BY <1>1 DEF AlarmsLeft
  <1>5. AlarmsLeft' = [AlarmsLeft EXCEPT ![t] = -1]
    <2>1. \A x \in Linked(list) \ {t} : TicksLeft(x)' = TicksLeft(x)
      BY <1>1, <1>2, <1>3 DEF TicksLeft
    <2> QED BY <1>1, <2>1, LeftOff
  <1>6. AlarmsDelay' = AlarmsDelay /\ AlarmsPeriodic' = AlarmsPeriodic
    BY <1>3 DEF AlarmsDelay, AlarmsPeriodic
  <1>7. AlarmsDealt' = AlarmsDealt /\ AlarmsAgain' = AlarmsPeriodic[t]
    <2>1. hold' # <<>> /\ calling' = t
      BY <1>0, <1>1
    <2> QED BY <1>1, <1>2, <1>3, <2>1 DEF AlarmsDealt, AlarmsAgain, AlarmsPeriodic
  <1>8. A!Ring(t)
    BY <1>0, <1>1, <1>2, <1>4, <1>5, <1>6, <1>7
       DEF A!Ring, AlarmsLeft, AlarmsDelay, AlarmsPeriodic, AlarmsDealt, AlarmsAgain
  <1> QED BY <1>8

LEMMA ReturnIsRung ==
    ASSUME TimerIInv, CallbackReturns
    PROVE  A!Rung
  <1>1. /\ pc = "callback" /\ calling' = Nobody /\ rt_tick' = rt_tick
        /\ calling \in Timers /\ calling # Nobody
        /\ timer \in [Timers -> Object]
    BY DEF CallbackReturns, TimerIInv, TypeOK
  <1>2. /\ AlarmsLeft' = (IF AlarmsDealt THEN AlarmsLeft
                          ELSE [AlarmsLeft EXCEPT ![calling] =
                                  IF AlarmsAgain /\ AlarmsPeriodic[calling]
                                  THEN AlarmsDelay[calling] ELSE -1])
        /\ hold' = <<>>
        /\ AlarmsDelay' = AlarmsDelay /\ AlarmsPeriodic' = AlarmsPeriodic
    <2>1. CASE hold = <<>>
      <3>1. UNCHANGED <<list, hold, timer, earlier>>
        BY <2>1 DEF CallbackReturns
      <3>2. AlarmsLeft' = AlarmsLeft /\ AlarmsDelay' = AlarmsDelay /\ AlarmsPeriodic' = AlarmsPeriodic
        BY <1>1, <3>1 DEF AlarmsLeft, AlarmsDelay, AlarmsPeriodic, TicksLeft
      <3> QED BY <1>1, <2>1, <3>1, <3>2 DEF AlarmsDealt
    <2>2. CASE hold # <<>> /\ timer[calling].periodic /\ timer[calling].activated
      <3>1. Started(calling) /\ timer[calling].live /\ hold = <<calling>>
        BY <2>2, HoldTyped DEF CallbackReturns, HeldApart, TimerIInv
      <3>2. /\ AlarmsLeft' = [AlarmsLeft EXCEPT ![calling] = AlarmsDelay[calling]]
            /\ AlarmsDelay' = AlarmsDelay /\ AlarmsPeriodic' = AlarmsPeriodic
            /\ hold' = <<>>
        BY <1>1, <3>1, StartedSets
      <3>3. ~AlarmsDealt /\ AlarmsAgain /\ AlarmsPeriodic[calling]
        BY <1>1, <2>2 DEF AlarmsDealt, AlarmsAgain, AlarmsPeriodic
      <3> QED BY <3>2, <3>3
    <2>3. CASE hold # <<>> /\ ~(timer[calling].periodic /\ timer[calling].activated)
      <3>1. hold' = rt_list_remove(hold, calling) /\ UNCHANGED <<list, timer, earlier>>
        BY <2>3 DEF CallbackReturns
      <3>2. hold' = <<>> /\ hold = <<calling>>
        BY <1>1, <2>3, <3>1, HoldTyped, RemovedKeeps
      <3>3. ~AlarmsDealt /\ ~(AlarmsAgain /\ AlarmsPeriodic[calling])
        BY <1>1, <2>3 DEF AlarmsDealt, AlarmsAgain, AlarmsPeriodic
      <3>4. AlarmsLeft' = AlarmsLeft /\ AlarmsDelay' = AlarmsDelay /\ AlarmsPeriodic' = AlarmsPeriodic
        BY <1>1, <3>1 DEF AlarmsLeft, AlarmsDelay, AlarmsPeriodic, TicksLeft
      <3>5. calling \notin Linked(list)
        BY <3>2, HoldTyped DEF HeldApart, TimerIInv
      <3>6. AlarmsLeft[calling] = -1
        BY <1>1, <3>5 DEF AlarmsLeft
      <3>7. AlarmsLeft = [AlarmsLeft EXCEPT ![calling] = -1]
        BY <3>6 DEF AlarmsLeft
      <3> QED BY <3>2, <3>3, <3>4, <3>7
    <2> QED BY <2>1, <2>2, <2>3
  <1>3. AlarmsDealt' = FALSE /\ AlarmsAgain' = FALSE
    BY <1>1, <1>2 DEF AlarmsDealt, AlarmsAgain
  <1> QED BY <1>1, <1>2, <1>3
          DEF A!Rung, AlarmsLeft, AlarmsDelay, AlarmsPeriodic, AlarmsDealt, AlarmsAgain

LEMMA QuietIsStutter ==
    ASSUME UNCHANGED <<rt_tick, list, timer, hold, calling>>
    PROVE  UNCHANGED A!vars
  BY DEF A!vars, TicksLeft

LEMMA BeginsAsAlarms == Init => A!Init
  <1> SUFFICES ASSUME Init PROVE A!Init
    OBVIOUS
  <1>1. Linked(list) = {} /\ calling = Nobody /\ hold = <<>> /\ rt_tick \in 0 .. Wrap - 1
    BY DEF Init, Linked
  <1>2. timer \in [Timers -> Object]
    BY TimerBegins DEF TimerIInv, TypeOK
  <1>3. AlarmsLeft = [t \in Timers |-> -1]
    BY <1>1 DEF AlarmsLeft
  <1>4. AlarmsDelay \in [Timers -> Times] /\ AlarmsPeriodic \in [Timers -> BOOLEAN]
    BY <1>2 DEF AlarmsDelay, AlarmsPeriodic, Object
  <1>5. AlarmsDealt = FALSE /\ AlarmsAgain = FALSE
    BY <1>1 DEF AlarmsDealt, AlarmsAgain
  <1> QED BY <1>1, <1>3, <1>4, <1>5
          DEF A!Init, AlarmsLeft, AlarmsDelay, AlarmsPeriodic, AlarmsDealt, AlarmsAgain

(* Every timer fires at its tick and at no other, once, whatever timeout    *)
(* functions do to their own or other timers: each step of timer.c is one   *)
(* of the abstract alarms, or none.                                        *)
THEOREM TimersAreAlarms == Spec => ImplementsAlarms
  <1>1. ASSUME TimerIInv, Next PROVE A!Next \/ UNCHANGED A!vars
    <2>1. ASSUME NEW t \in Timers, rt_timer_start(t) PROVE A!Next
      BY <1>1, <2>1, StartIsSet DEF A!Next
    <2>2. ASSUME NEW t \in Timers, StopInside(t) \/ rt_timer_delete(t) PROVE A!Next
      BY <1>1, <2>2, StopIsPutOff DEF A!Next
    <2>3. ASSUME rt_timer_stop PROVE A!Next
      <3>1. stopping \in Timers
        BY <1>1, <2>3 DEF rt_timer_stop, TimerIInv, TypeOK
      <3> QED BY <1>1, <2>3, <3>1, StopIsPutOff DEF A!Next
    <2>4. ASSUME NEW t \in Timers, NEW time \in Times, NEW per \in BOOLEAN,
                 rt_timer_control(t, time, per) \/ rt_timer_init(t, time, per)
          PROVE  A!Next
      BY <1>1, <2>4, ControlIsChange DEF A!Next
    <2>5. ASSUME rt_tick_increase PROVE A!Next
      BY <1>1, <2>5, TickIsTick DEF A!Next
    <2>6. ASSUME CheckFires PROVE A!Next
      BY <1>1, <2>6, FireIsRing DEF A!Next
    <2>7. ASSUME CallbackReturns PROVE A!Next
      BY <1>1, <2>7, ReturnIsRung DEF A!Next
    <2>8. ASSUME (\E t \in Timers : StopTests(t)) \/ rt_timer_check \/ CheckEnds
          PROVE  UNCHANGED A!vars
      BY <2>8, QuietIsStutter DEF StopTests, rt_timer_check, CheckEnds
    <2> QED BY <1>1, <2>1, <2>2, <2>3, <2>4, <2>5, <2>6, <2>7, <2>8 DEF Next
  <1>2. ASSUME UNCHANGED vars PROVE UNCHANGED A!vars
    BY <1>2, QuietIsStutter DEF vars
  <1>3. TimerIInv /\ [Next]_vars => [A!Next]_(A!vars)
    BY <1>1, <1>2
  <1> QED BY <1>3, BeginsAsAlarms, TimerInvariance, PTL DEF Spec, ImplementsAlarms, A!Spec
=============================================================================
