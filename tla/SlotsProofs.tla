---------------------------- MODULE SlotsProofs -----------------------------
(***************************************************************************)
(* Proofs about Slots: for every calendar, window, duration and business   *)
(* hours, what find_available_slots offers within its window is free; for  *)
(* a positive duration it is in business hours and not before the search   *)
(* starts, and what is not offered was not free or came too late.          *)
(***************************************************************************)
EXTENDS Slots, TLAPS

-----------------------------------------------------------------------------
(* Arithmetic *)

LEMMA Arithmetic ==
  ASSUME NEW m \in Nat, NEW n \in Nat, NEW d \in Nat \ {0}
  PROVE  /\ m * d \in Nat /\ (m + 1) * d = m * d + d
         /\ m < n => m * d + d <= n * d
         /\ m * d < n * d + d => m <= n
         /\ (m * d) % d = 0
BY SMT

LEMMA Division ==
  ASSUME NEW s \in Nat, NEW d \in Nat \ {0}
  PROVE  /\ s \div d \in Nat /\ s = (s \div d) * d + (s % d)
         /\ \A n \in Nat : n * d <= s /\ s < n * d + d => s \div d = n
<1>1. s \div d \in Nat /\ s = (s \div d) * d + (s % d)
  <2>1. s \div d \in Nat /\ s = d * (s \div d) + (s % d)
    OBVIOUS
  <2> QED BY <2>1
<1>2. ASSUME NEW n \in Nat, n * d <= s, s < n * d + d PROVE s \div d = n
  BY <1>2, SMT
<1> QED BY <1>1, <1>2

-----------------------------------------------------------------------------
(* Types *)

USE HoursAssumption, SearchAssumption

LEMMA TypeInit == Init => TypeOK
BY DEF Init, TypeOK

LEMMA TypeStep == TypeOK /\ [Next]_vars => TypeOK'
<1> SUFFICES ASSUME TypeOK, [Next]_vars
             PROVE  TypeOK'
  OBVIOUS
<1> USE DEF TypeOK, search
<1>1. CASE Query
  BY <1>1 DEF Query, Fetched, FirstDay
<1>2. CASE QueryFails
  BY <1>2 DEF QueryFails
<1>3. CASE StartDay
  BY <1>3 DEF StartDay
<1>4. CASE TrySlot
  <2>1. offered' \in Seq(Int) /\ Len(offered') <= MaxResults
    BY <1>4 DEF TrySlot, Room
  <2> QED
    BY <1>4, <2>1 DEF TrySlot
<1>5. CASE EndDay
  BY <1>5 DEF EndDay
<1>6. CASE Finish
  BY <1>6 DEF Finish
<1>7. CASE UNCHANGED vars
  BY <1>7 DEF vars
<1> QED
  BY <1>1, <1>2, <1>3, <1>4, <1>5, <1>6, <1>7 DEF Next, Step

\* Every variable keeps its type, and no more than max_results slots are
\* offered, for every calendar and search.
THEOREM TypeCorrect == Spec => []TypeOK
BY TypeInit, TypeStep, PTL DEF Spec

-----------------------------------------------------------------------------
(* The inductive invariant *)

\* The walk is on a day that opens no earlier than the search starts and, walking
\* forward, at a position not before that opening.
OnDay(n) == day = n * Day + Open /\ day >= from

Walking ==
  pc \in {"day", "slot", "done"} =>
    /\ busy = Fetched
    /\ \E n \in Nat : OnDay(n)
    /\ pc = "slot" => day < until /\ (duration > 0 => slot >= day)

\* Walking forward there is no position before the first midnight.
Forward == slot \in Nat /\ offered \in Seq(Nat)

\* What has been offered so far is free of what was fetched and, walking forward, in
\* hours.
Offers ==
  /\ pc \in {"query", "failed"} => offered = <<>>
  /\ \A k \in DOMAIN offered :
       Free(offered[k], busy) /\ (duration > 0 => InHours(offered[k]))

IInv == TypeOK /\ Walking /\ Offers /\ (duration > 0 => Forward)

LEMMA Multiples ==
  ASSUME NEW n \in Nat
  PROVE  n * Day \in Nat /\ n <= n * Day /\ (n + 1) * Day = n * Day + Day
BY SMT

LEMMA InitIInv == Init => IInv
BY TypeInit DEF Init, IInv, Walking, Offers, Forward

LEMMA ForwardStep == TypeOK /\ Forward /\ duration > 0 /\ [Next]_vars => Forward'
<1> SUFFICES ASSUME TypeOK, Forward, duration > 0, [Next]_vars
             PROVE  Forward'
  OBVIOUS
<1> USE DEF Forward
<1>1. CASE StartDay
  BY <1>1 DEF StartDay, TypeOK
<1>2. CASE TrySlot
  BY <1>2 DEF TrySlot, TypeOK
<1>3. CASE UNCHANGED <<slot, offered>>
  BY <1>3
<1>4. CASE Query \/ QueryFails \/ EndDay \/ Finish \/ UNCHANGED vars
  BY <1>3, <1>4 DEF Query, QueryFails, EndDay, Finish, vars
<1> QED
  BY <1>1, <1>2, <1>4 DEF Next, Step

LEMMA DurationKept == [Next]_vars => duration' = duration
BY DEF Next, Step, Query, QueryFails, StartDay, TrySlot, EndDay, Finish, vars, search

\* A step that touches neither the search nor its result keeps what was offered.
LEMMA OffersKept ==
  ASSUME Offers, UNCHANGED <<search, busy, offered>>, pc # "query", pc' \notin {"query", "failed"}
  PROVE  Offers'
BY DEF Offers, Free, Meets, InHours, search

LEMMA NextIInv == IInv /\ [Next]_vars => IInv'
<1> SUFFICES ASSUME IInv, [Next]_vars
             PROVE  Walking' /\ Offers'
  BY TypeStep, ForwardStep, DurationKept DEF IInv
<1> USE DEF IInv, search
<1>1. CASE Query
  <2>1. 0 \in Nat /\ 1 \in Nat /\ 0 * Day = 0 /\ 1 * Day = Day
    BY SMT
  <2>2. (\E n \in Nat : OnDay(n))'
    <3>1. CASE Open < from
      <4>1. OnDay(1)'
        BY <1>1, <2>1, <3>1 DEF Query, FirstDay, OnDay, TypeOK
      <4> QED
        BY <4>1, <2>1
    <3>2. CASE ~(Open < from)
      <4>1. OnDay(0)'
        BY <1>1, <2>1, <3>2 DEF Query, FirstDay, OnDay, TypeOK
      <4> QED
        BY <4>1, <2>1
    <3> QED
      BY <3>1, <3>2
  <2>3. busy' = Fetched'
    BY <1>1 DEF Query, Fetched
  <2> QED
    BY <1>1, <2>2, <2>3 DEF Query, Walking, Offers
<1>2. CASE QueryFails
  BY <1>2 DEF QueryFails, Walking, Offers
<1>3. CASE StartDay
  <2>1. Walking'
    BY <1>3 DEF StartDay, Walking, OnDay, Fetched, TypeOK
  <2> QED
    BY <1>3, <2>1, OffersKept DEF StartDay
<1>4. CASE TrySlot
  <2>1. Walking'
    BY <1>4 DEF TrySlot, Walking, OnDay, Fetched, TypeOK
  <2>2. CASE ~Free(slot, busy)
    <3>1. offered' = offered /\ pc = "slot" /\ pc' = "slot" /\ UNCHANGED <<search, busy>>
      BY <1>4, <2>2 DEF TrySlot
    <3> QED
      BY <2>1, <3>1, OffersKept
  <2>3. CASE Free(slot, busy)
    <3>1. ASSUME duration > 0 PROVE InHours(slot)
      <4>1. PICK n \in Nat : OnDay(n)
        BY <1>4 DEF TrySlot, Walking
      <4>2. n \in 0..until
        BY <1>4, <4>1, Multiples DEF TrySlot, Walking, OnDay, TypeOK
      <4>3. slot >= day /\ slot >= from /\ slot + duration <= day + (Close - Open)
        BY <1>4, <3>1, <4>1 DEF TrySlot, Walking, OnDay, Fits, Closing, TypeOK
      <4>4. n * Day + Open <= slot /\ slot + duration <= n * Day + Close
        BY <4>1, <4>3, Multiples DEF OnDay, TypeOK
      <4> QED
        BY <4>2, <4>3, <4>4 DEF InHours
    <3>2. /\ offered' = Append(offered, slot)
          /\ DOMAIN offered' = DOMAIN offered \union {Len(offered) + 1}
          /\ \A k \in DOMAIN offered : offered'[k] = offered[k]
          /\ offered'[Len(offered) + 1] = slot
      BY <1>4, <2>3 DEF TrySlot, TypeOK
    <3>3. \A k \in DOMAIN offered' :
            Free(offered'[k], busy) /\ (duration > 0 => InHours(offered'[k]))
      BY <2>3, <3>1, <3>2 DEF Offers
    <3>4. pc' = "slot" /\ duration' = duration /\ from' = from /\ until' = until /\ busy' = busy
      BY <1>4 DEF TrySlot
    <3>5. (\A k \in DOMAIN offered :
             Free(offered[k], busy) /\ (duration > 0 => InHours(offered[k])))'
      BY <3>3, <3>4 DEF Free, Meets, InHours
    <3> QED
      BY <2>1, <3>4, <3>5 DEF Offers
  <2> QED
    BY <2>1, <2>2, <2>3
<1>5. CASE EndDay
  <2>1. (\E n \in Nat : OnDay(n))'
    <3>1. PICK n \in Nat : OnDay(n)
      BY <1>5 DEF EndDay, Walking
    <3>2. OnDay(n + 1)'
      BY <1>5, <3>1, Multiples DEF EndDay, OnDay, TypeOK
    <3> QED
      BY <3>2
  <2>2. Walking'
    BY <1>5, <2>1 DEF EndDay, Walking, Fetched
  <2> QED
    BY <1>5, <2>2, OffersKept DEF EndDay
<1>6. CASE Finish
  <2>1. Walking'
    BY <1>6 DEF Finish, Walking, OnDay, Fetched
  <2> QED
    BY <1>6, <2>1, OffersKept DEF Finish
<1>7. CASE UNCHANGED vars
  BY <1>7 DEF vars, Walking, OnDay, Fetched, Offers, Free, Meets, InHours
<1> QED
  BY <1>1, <1>2, <1>3, <1>4, <1>5, <1>6, <1>7 DEF Next, Step

-----------------------------------------------------------------------------
(* What is offered *)

\* An entry the query did not return does not touch a slot inside the window.
LEMMA IInvImpliesFree == IInv => OfferedIsFree
<1> SUFFICES ASSUME IInv, NEW k \in DOMAIN offered, offered[k] >= from,
                    offered[k] + duration <= until, NEW e \in diary
             PROVE  ~Meets(offered[k], e)
  BY DEF OfferedIsFree, Free
<1>1. offered[k] \in Int /\ e.start \in Int /\ e.end \in Int
  BY DEF IInv, TypeOK
<1>2. offered # <<>>
  OBVIOUS
<1>3. busy = Fetched
  BY <1>2 DEF IInv, TypeOK, Walking, Offers
<1>4. CASE e \in busy
  BY <1>4 DEF IInv, Offers, Free
<1>5. CASE e \notin busy
  <2>1. e.start >= until \/ e.end <= from
    BY <1>1, <1>3, <1>5 DEF Fetched, IInv, TypeOK
  <2> QED
    BY <1>1, <2>1 DEF Meets, IInv, TypeOK
<1> QED
  BY <1>4, <1>5

\* A slot offered inside the search window is free, whatever the calendar holds.
THEOREM OffersAreFree == Spec => []OfferedIsFree
BY InitIInv, NextIInv, IInvImpliesFree, PTL DEF Spec

\* Every slot offered for a positive duration is in business hours and not before the
\* search starts, whatever the length of the window.
THEOREM OffersAreInHours == Spec => []OfferedInHours
<1>1. IInv => OfferedInHours
  BY DEF IInv, Offers, OfferedInHours
<1> QED
  BY <1>1, InitIInv, NextIInv, PTL DEF Spec
-----------------------------------------------------------------------------
(* Nothing is passed over *)

\* What the walk of a search for a positive duration keeps.
Ahead == TypeOK /\ duration > 0 /\ Forward

LEMMA AheadTyped ==
  ASSUME Ahead
  PROVE  duration \in Nat \ {0} /\ slot \in Nat /\ offered \in Seq(Nat)
BY DEF Ahead, Forward, TypeOK

LEMMA IInvAhead == IInv /\ duration > 0 => Ahead
BY DEF IInv, Ahead

\* The k-th position of the n-th day.
Opening(n) == n * Day + Open
At(n, k) == Opening(n) + k * duration

\* A position of the grid, on a day of the window and before its closing.
OnGrid(n, k) ==
  /\ Opening(n) >= from /\ Opening(n) < until
  /\ At(n, k) + duration <= n * Day + Close

LEMMA AtTyped ==
  ASSUME Ahead, NEW n \in Nat, NEW k \in Nat
  PROVE  /\ n * Day \in Nat /\ k * duration \in Nat /\ Opening(n) \in Nat /\ At(n, k) \in Nat
         /\ At(n, k) >= Opening(n) /\ At(n, k + 1) = At(n, k) + duration
         /\ duration \in Nat \ {0} /\ Day \in Nat \ {0} /\ from \in Nat /\ until \in Int
         /\ Open \in Nat /\ Close \in Nat /\ Open < Day /\ Close < Day
<1>1. duration \in Nat \ {0} /\ Day \in Nat \ {0} /\ from \in Nat /\ until \in Int
      /\ Open \in Nat /\ Close \in Nat /\ Open < Day /\ Close < Day
  BY DEF Ahead, Forward, TypeOK
<1>2. n * Day \in Nat /\ k * duration \in Nat /\ (k + 1) * duration = k * duration + duration
  BY <1>1, Arithmetic
<1> QED BY <1>1, <1>2 DEF Opening, At

\* The reference grid, position by position.
LEMMA GridIs ==
  ASSUME Ahead
  PROVE  Grid = {s \in Nat : \E n \in Nat, k \in Nat : s = At(n, k) /\ OnGrid(n, k)}
<1>1. ASSUME NEW s \in Grid PROVE s \in Nat /\ \E n \in Nat, k \in Nat : s = At(n, k) /\ OnGrid(n, k)
  <2> DEFINE n == s \div Day
             k == (s - Opening(n)) \div duration
  <2>1. s \in Nat /\ Day \in Nat \ {0} /\ duration \in Nat \ {0} /\ until \in Int /\ from \in Nat
        /\ Open \in Nat /\ Close \in Nat
    BY DEF Grid, Ahead, Forward, TypeOK
  <2>2. n \in Nat
    BY <2>1, Division
  <2> HIDE DEF n
  <2>3. Opening(n) \in Nat /\ n * Day \in Nat /\ Opening(n) = n * Day + Open
    BY <2>1, <2>2, Arithmetic DEF Opening
  <2>4. /\ Opening(n) \in from..(until - 1)
        /\ s >= Opening(n) /\ s + duration <= Opening(n) + (Close - Open)
        /\ (s - Opening(n)) % duration = 0
    BY DEF Grid, Opening, n
  <2>5. k \in Nat /\ s - Opening(n) = k * duration + 0 /\ k * duration \in Nat
    <3> DEFINE x == s - Opening(n)
    <3>1. x \in Nat /\ x % duration = 0
      BY <2>1, <2>3, <2>4
    <3> HIDE DEF x
    <3>2. x \div duration \in Nat /\ x = (x \div duration) * duration + (x % duration)
      BY <2>1, <3>1, Division
    <3>3. (x \div duration) * duration \in Nat
      BY <2>1, <3>2, Arithmetic
    <3>4. x \div duration = k
      BY DEF x
    <3> QED BY <3>1, <3>2, <3>3, <3>4 DEF x
  <2> HIDE DEF k
  <2>6. s = At(n, k)
    BY <2>1, <2>3, <2>5 DEF At
  <2>7. OnGrid(n, k)
    BY <2>1, <2>3, <2>4, <2>6 DEF OnGrid
  <2> QED BY <2>1, <2>2, <2>5, <2>6, <2>7
<1>2. ASSUME NEW n \in Nat, NEW k \in Nat, OnGrid(n, k) PROVE At(n, k) \in Grid
  <2> DEFINE s == At(n, k)
  <2>1. /\ n * Day \in Nat /\ k * duration \in Nat /\ Opening(n) \in Nat /\ s \in Nat
        /\ duration \in Nat \ {0} /\ Day \in Nat \ {0} /\ from \in Nat /\ until \in Int
        /\ Open \in Nat /\ Close \in Nat /\ Close < Day
        /\ Opening(n) = n * Day + Open /\ s = Opening(n) + k * duration
    BY AtTyped DEF Opening, At
  <2> HIDE DEF s
  <2>2. n * Day <= s /\ s < n * Day + Day /\ s >= Opening(n) /\ s + duration <= n * Day + Close
        /\ Opening(n) >= from /\ Opening(n) < until
    BY <1>2, <2>1 DEF OnGrid, s
  <2>3. s \div Day = n
    BY <2>1, <2>2, Division
  <2>4. (s - Opening(n)) % duration = 0
    <3>1. s - Opening(n) = k * duration
      BY <2>1
    <3> QED BY <2>1, <3>1, Arithmetic
  <2>5. s \in 0..(until + Day)
    BY <2>1, <2>2
  <2>6. (s \div Day) * Day + Open = Opening(n)
    BY <2>1, <2>3
  <2>7. /\ Opening(n) \in from..(until - 1)
        /\ s + duration <= Opening(n) + (Close - Open)
    BY <2>1, <2>2
  <2>8. s \in Grid
    BY <2>2, <2>4, <2>5, <2>6, <2>7 DEF Grid
  <2> QED BY <2>8 DEF s
<1>3. \A n \in Nat, k \in Nat : At(n, k) \in Nat
  BY AtTyped
<1> QED BY <1>1, <1>2, <1>3

\* The positions of the grid lie a duration apart, and on different days a night.
LEMMA GridApart ==
  ASSUME Ahead, NEW n \in Nat, NEW k \in Nat, NEW m \in Nat, NEW j \in Nat, OnGrid(m, j)
  PROVE  /\ m < n => At(m, j) < Opening(n)
         /\ n < m => At(m, j) >= Opening(n) + Day
         /\ n = m /\ At(m, j) >= At(n, k) => At(m, j) = At(n, k) \/ At(m, j) >= At(n, k) + duration
<1>1. /\ n * Day \in Nat /\ m * Day \in Nat /\ j * duration \in Nat /\ k * duration \in Nat
      /\ duration \in Nat \ {0} /\ Day \in Nat \ {0}
      /\ Open \in Nat /\ Close \in Nat /\ Open < Day /\ Close < Day
      /\ At(m, j) \in Nat /\ At(n, k) \in Nat
      /\ At(m, j) = m * Day + Open + j * duration /\ At(n, k) = n * Day + Open + k * duration
      /\ Opening(n) = n * Day + Open
    BY AtTyped DEF At, Opening
<1>2. (m < n => m * Day + Day <= n * Day) /\ (n < m => n * Day + Day <= m * Day)
  BY <1>1, Arithmetic
<1>3. At(m, j) + duration <= m * Day + Close
  BY DEF OnGrid
<1>4. m < n => At(m, j) < Opening(n)
  BY <1>1, <1>2, <1>3
<1>5. n < m => At(m, j) >= Opening(n) + Day
  BY <1>1, <1>2
<1>6. n = m /\ At(m, j) >= At(n, k) => At(m, j) = At(n, k) \/ At(m, j) >= At(n, k) + duration
  <2> SUFFICES ASSUME n = m, At(m, j) >= At(n, k), At(m, j) # At(n, k)
               PROVE  At(m, j) >= At(n, k) + duration
    OBVIOUS
  <2>1. k * duration < j * duration
    BY <1>1
  <2>2. (j < k => j * duration + duration <= k * duration) /\ (j = k => j * duration = k * duration)
    BY <1>1, Arithmetic
  <2>3. k < j
    BY <1>1, <2>1, <2>2
  <2>4. k * duration + duration <= j * duration
    BY <1>1, <2>3, Arithmetic
  <2> QED BY <1>1, <2>4
<1> QED BY <1>4, <1>5, <1>6

Offered == {offered[k] : k \in DOMAIN offered}
FreePositions == {s \in Grid : Free(s, busy)}
Reached == IF pc = "slot" THEN slot ELSE day

\* The walk is at a position of its day, the next day still to come.
Position ==
  /\ \E n \in Nat, k \in Nat : day = Opening(n) /\ slot = At(n, k)
  /\ slot < day + Day

\* What is free and before the position the walk is at was offered, unless the limit
\* was reached before it; what was offered is before it, of the grid and in order.
WalkInv ==
  pc \in {"day", "slot", "done"} =>
    /\ pc = "slot" => Position
    /\ pc = "done" => ~(day < until /\ Room)
    /\ Offered \subseteq FreePositions
    /\ \A t \in Offered : t < Reached
    /\ \A j, k \in DOMAIN offered : j < k => offered[j] < offered[k]
    /\ \A s \in FreePositions \ Offered : s < Reached => ~Room /\ \A t \in Offered : t < s

LEMMA GridKept ==
  ASSUME UNCHANGED <<search, busy>>
  PROVE  /\ Grid' = Grid /\ FreePositions' = FreePositions
         /\ \A n, k : Opening(n)' = Opening(n) /\ At(n, k)' = At(n, k) /\ (OnGrid(n, k)' <=> OnGrid(n, k))
BY DEF search, Grid, FreePositions, Free, Meets, Opening, At, OnGrid
\* A step that offers nothing passes over free positions only at the limit.
LEMMA WalkKept ==
  ASSUME Ahead, Ahead', WalkInv, pc \in {"day", "slot"}, UNCHANGED <<search, busy, offered>>,
         (pc = "slot" => Position)',
         (pc = "done" => ~(day < until /\ Room))',
         Reached <= Reached',
         \A s \in FreePositions : Reached <= s /\ s < Reached' => ~Room
  PROVE  WalkInv'
<1>1. FreePositions' = FreePositions /\ Offered' = Offered /\ Room' = Room /\ offered' = offered
  BY GridKept DEF Offered, Room
<1>2. /\ Reached \in Nat /\ Reached' \in Nat /\ \A t \in Offered : t \in Nat
      /\ \A s \in FreePositions : s \in Nat
  BY GridIs DEF Ahead, Forward, TypeOK, Reached, Offered, FreePositions
<1>3. \A t \in Offered : t < Reached'
  BY <1>2 DEF WalkInv
<1>4. ASSUME NEW s \in FreePositions \ Offered, s < Reached'
      PROVE  ~Room /\ \A t \in Offered : t < s
  <2>1. CASE s < Reached
    BY <1>4, <2>1 DEF WalkInv
  <2>2. CASE ~(s < Reached)
    BY <1>2, <1>4, <2>2 DEF WalkInv
  <2> QED BY <2>1, <2>2
<1>5. Offered \subseteq FreePositions /\ \A j, k \in DOMAIN offered : j < k => offered[j] < offered[k]
  BY DEF WalkInv
<1> QED BY <1>1, <1>3, <1>4, <1>5 DEF WalkInv

LEMMA WalkStep == IInv /\ WalkInv /\ duration > 0 /\ [Next]_vars => WalkInv'
<1> SUFFICES ASSUME IInv, WalkInv, duration > 0, [Next]_vars PROVE WalkInv'
  OBVIOUS
<1>0. Ahead /\ Ahead' /\ Walking
  BY TypeStep, ForwardStep, DurationKept, IInvAhead DEF IInv, Ahead
<1>00. \A s \in FreePositions :
         s \in Nat /\ \E m \in Nat, j \in Nat : s = At(m, j) /\ OnGrid(m, j)
  BY <1>0, GridIs DEF FreePositions
<1>1. CASE Query
  <2>1. offered' = <<>> /\ pc' = "day" /\ day' = FirstDay /\ UNCHANGED search
    BY <1>1 DEF Query, IInv, Offers
  <2>2. Offered' = {}
    BY <2>1 DEF Offered
  <2>3. ASSUME NEW s \in FreePositions', s < FirstDay PROVE FALSE
    <3>1. PICK m \in Nat, j \in Nat : s = At(m, j) /\ OnGrid(m, j)
      <4>1. s \in Grid
        BY <2>1, <2>3 DEF FreePositions, search, Grid
      <4> QED BY <1>0, <4>1, GridIs
    <3>2. /\ m * Day \in Nat /\ At(m, j) \in Nat /\ At(m, j) >= Opening(m) /\ Opening(m) = m * Day + Open
          /\ Opening(m) >= from /\ Open \in Nat /\ Day \in Nat \ {0} /\ from \in Nat
      BY <1>0, <3>1, AtTyped DEF OnGrid, Opening
    <3>3. CASE Open < from
      <4>1. m # 0
        <5>1. 0 * Day = 0
          BY <3>2
        <5> QED BY <3>2, <3>3, <5>1
      <4>2. 0 * Day + Day <= m * Day /\ 0 * Day = 0
        <5>1. 0 \in Nat /\ 0 < m
          BY <4>1
        <5>2. 0 * Day + Day <= m * Day
          BY <3>2, <5>1, Arithmetic
        <5>3. 0 * Day = 0
          BY <3>2
        <5> QED BY <5>2, <5>3
      <4> QED BY <2>3, <3>1, <3>2, <3>3, <4>2 DEF FirstDay
    <3>4. CASE ~(Open < from)
      BY <2>3, <3>1, <3>2, <3>4 DEF FirstDay
    <3> QED BY <3>3, <3>4
  <2>4. Reached' = FirstDay
    BY <2>1 DEF Reached
  <2>5. \A j, k \in DOMAIN offered' : FALSE
    BY <2>1
  <2> QED BY <2>1, <2>2, <2>3, <2>4, <2>5 DEF WalkInv
<1>2. CASE QueryFails
  BY <1>2 DEF QueryFails, WalkInv
<1>3. CASE StartDay
  <2>1. /\ pc = "day" /\ pc' = "slot" /\ slot' = day /\ day' = day /\ day < until
        /\ UNCHANGED <<search, busy, offered>>
    BY <1>3 DEF StartDay
  <2>2. PICK n \in Nat : day = Opening(n)
    BY <1>0, <2>1 DEF Walking, OnDay, Opening
  <2>3. slot' = At(n, 0)
    BY <1>0, <2>1, <2>2, AtTyped DEF At, Ahead, Forward, TypeOK
  <2>4. Position'
    <3>1. slot' < day' + Day
      BY <1>0, <2>1 DEF Ahead, Forward, TypeOK
    <3> QED BY <2>1, <2>2, <2>3, <3>1, GridKept DEF Position
  <2>5. Reached' = Reached /\ Reached \in Nat
    BY <1>0, <2>1 DEF Reached, Ahead, Forward, TypeOK
  <2>6. \A s \in FreePositions : ~(Reached <= s /\ s < Reached')
    BY <1>00, <2>5
  <2> QED BY <1>0, <2>1, <2>4, <2>5, <2>6, WalkKept
<1>4. CASE TrySlot
  <2>1. /\ pc = "slot" /\ pc' = "slot" /\ Fits /\ Room /\ day' = day
        /\ slot' = slot + duration /\ UNCHANGED <<search, busy>>
        /\ offered' = IF Free(slot, busy) THEN Append(offered, slot) ELSE offered
    BY <1>4 DEF TrySlot
  <2>2. PICK n \in Nat, k \in Nat : day = Opening(n) /\ slot = At(n, k)
    BY <2>1 DEF WalkInv, Position
  <2>3. /\ At(n, k + 1) = At(n, k) + duration /\ k + 1 \in Nat /\ duration \in Nat \ {0}
        /\ slot \in Nat /\ day \in Nat
    BY <1>0, <2>2, AtTyped
  <2>4. Position'
    <3>1. day' = Opening(n)' /\ slot' = At(n, k + 1)'
      BY <2>1, <2>2, <2>3, GridKept
    <3>2. slot' < day' + Day
      <4>1. Open \in Nat /\ Close \in Nat /\ Close < Day /\ Day \in Nat
        BY <1>0, AtTyped
      <4> QED BY <2>1, <2>3, <4>1 DEF Fits, Closing
    <3> QED BY <2>3, <3>1, <3>2 DEF Position
  <2>5. OnGrid(n, k)
    <3>1. day >= from /\ day < until
      BY <1>0, <2>1 DEF Walking, OnDay
    <3>2. slot + duration <= n * Day + Close
      <4>1. n * Day \in Nat /\ Open \in Nat /\ Close \in Nat
        BY <1>0, AtTyped
      <4> QED BY <2>1, <2>2, <2>3, <4>1 DEF Fits, Closing, Opening
    <3> QED BY <2>2, <3>1, <3>2 DEF OnGrid
  \* Between this position and the next there is none.
  <2>6. ASSUME NEW s \in FreePositions, slot <= s, s < slot + duration PROVE s = slot
    <3>1. PICK m \in Nat, j \in Nat : s = At(m, j) /\ OnGrid(m, j)
      BY <1>00
    <3>2. /\ n * Day \in Nat /\ Opening(n) = n * Day + Open /\ slot >= Opening(n)
          /\ Open \in Nat /\ Close \in Nat /\ Close < Day /\ Day \in Nat
          /\ slot + duration <= n * Day + Close
      BY <1>0, <2>2, <2>5, AtTyped DEF OnGrid, Opening
    <3>3. s \in Nat
      BY <1>00
    <3>4. ~(m < n) /\ ~(n < m)
      <4>1. ~(m < n)
        BY <1>0, <2>3, <2>6, <3>1, <3>2, <3>3, GridApart
      <4>2. ~(n < m)
        BY <1>0, <2>3, <2>6, <3>1, <3>2, <3>3, GridApart
      <4> QED BY <4>1, <4>2
    <3>5. n = m
      BY <3>4
    <3> QED BY <1>0, <2>2, <2>3, <2>6, <3>1, <3>3, <3>5, GridApart
  <2>7. CASE ~Free(slot, busy)
    <3>1. \A s \in FreePositions : ~(Reached <= s /\ s < Reached')
      <4> SUFFICES ASSUME NEW s \in FreePositions, slot <= s, s < slot + duration PROVE FALSE
        BY <2>1 DEF Reached
      <4> QED BY <2>6, <2>7 DEF FreePositions
    <3>2. Reached <= Reached'
      BY <2>1, <2>3 DEF Reached
    <3>3. UNCHANGED <<search, busy, offered>> /\ pc' # "done"
      BY <2>1, <2>7
    <3> QED BY <1>0, <2>1, <2>4, <3>1, <3>2, <3>3, WalkKept
  <2>8. CASE Free(slot, busy)
    <3>1. /\ offered' = Append(offered, slot) /\ offered \in Seq(Nat) /\ Len(offered) \in Nat
          /\ DOMAIN offered = 1..Len(offered) /\ DOMAIN offered' = 1..(Len(offered) + 1)
          /\ \A j \in DOMAIN offered : offered'[j] = offered[j]
          /\ offered'[Len(offered) + 1] = slot
      BY <1>0, <2>1, <2>3, <2>8 DEF Ahead, Forward, TypeOK
    <3>2. Offered' = Offered \union {slot}
      BY <3>1 DEF Offered
    <3>3. FreePositions' = FreePositions
      BY <2>1, GridKept
    <3>4. slot \in FreePositions
      BY <1>0, <2>2, <2>3, <2>5, <2>8, GridIs DEF FreePositions
    <3>5. \A t \in Offered : t < slot /\ t \in Nat
      BY <1>0, <2>1 DEF WalkInv, Reached, Ahead, Forward, TypeOK, Offered
    <3>6. \A t \in Offered' : t < Reached'
      BY <2>1, <2>3, <3>2, <3>5 DEF Reached
    <3>7. \A i, j \in DOMAIN offered' : i < j => offered'[i] < offered'[j]
      <4> SUFFICES ASSUME NEW i \in DOMAIN offered', NEW j \in DOMAIN offered', i < j
                   PROVE  offered'[i] < offered'[j]
        OBVIOUS
      <4>1. i \in DOMAIN offered /\ offered'[i] = offered[i] /\ offered[i] \in Offered
        BY <3>1 DEF Offered
      <4>2. CASE j \in DOMAIN offered
        BY <2>1, <3>1, <4>1, <4>2 DEF WalkInv
      <4>3. CASE j = Len(offered) + 1
        BY <3>1, <3>5, <4>1, <4>3
      <4> QED BY <3>1, <4>2, <4>3
    <3>8. \A s \in FreePositions' \ Offered' : ~(s < Reached')
      <4> SUFFICES ASSUME NEW s \in FreePositions, s \notin Offered, s # slot, s < slot + duration
                   PROVE  FALSE
        BY <2>1, <3>2, <3>3 DEF Reached
      <4>1. CASE s < slot
        BY <2>1, <4>1 DEF WalkInv, Reached
      <4>2. CASE ~(s < slot)
        BY <1>00, <2>3, <2>6, <4>2
      <4> QED BY <4>1, <4>2
    <3>9. Offered' \subseteq FreePositions'
      BY <2>1, <3>2, <3>3, <3>4 DEF WalkInv
    <3> QED BY <2>1, <2>4, <3>6, <3>7, <3>8, <3>9 DEF WalkInv
  <2> QED BY <2>7, <2>8
<1>5. CASE EndDay
  <2>1. /\ pc = "slot" /\ pc' = "day" /\ ~(Fits /\ Room) /\ day' = day + Day
        /\ UNCHANGED <<search, busy, offered, slot>>
    BY <1>5 DEF EndDay
  <2>2. PICK n \in Nat, k \in Nat : day = Opening(n) /\ slot = At(n, k)
    BY <2>1 DEF WalkInv, Position
  <2>3. /\ n * Day \in Nat /\ Opening(n) = n * Day + Open /\ slot \in Nat /\ slot >= Opening(n)
        /\ Open \in Nat /\ Close \in Nat /\ Close < Day /\ Day \in Nat \ {0}
        /\ duration \in Nat \ {0}
    BY <1>0, <2>2, AtTyped DEF Opening
  <2>4. Reached = slot /\ Reached' = day + Day
    BY <2>1 DEF Reached
  <2>5. ASSUME NEW s \in FreePositions, slot <= s, s < day + Day, Room PROVE FALSE
    <3>1. PICK m \in Nat, j \in Nat : s = At(m, j) /\ OnGrid(m, j)
      BY <1>00
    <3>2. s \in Nat
      BY <1>00
    <3>3. m = n
      <4>1. ~(m < n)
        BY <1>0, <2>2, <2>3, <2>5, <3>1, <3>2, GridApart
      <4>2. ~(n < m)
        BY <1>0, <2>2, <2>3, <2>5, <3>1, <3>2, GridApart
      <4> QED BY <4>1, <4>2
    <3>4. s + duration <= n * Day + Close
      BY <3>1, <3>3 DEF OnGrid
    <3>5. slot + duration <= day + (Close - Open)
      BY <2>2, <2>3, <2>5, <3>2, <3>4
    <3> QED BY <2>1, <2>5, <3>5 DEF Fits, Closing
  <2>6. Reached <= Reached'
    BY <1>0, <2>1, <2>3, <2>4 DEF WalkInv, Position, Ahead, Forward, TypeOK
  <2> QED BY <1>0, <2>1, <2>4, <2>5, <2>6, WalkKept
<1>6. CASE Finish
  <2>1. /\ pc = "day" /\ pc' = "done" /\ ~(day < until /\ Room)
        /\ UNCHANGED <<search, busy, day, slot, offered>>
    BY <1>6 DEF Finish
  <2>2. Reached' = Reached /\ Reached \in Nat /\ (pc = "done" => ~(day < until /\ Room))'
    BY <1>0, <2>1 DEF Reached, Ahead, Forward, TypeOK, search, Room
  <2>3. \A s \in FreePositions : ~(Reached <= s /\ s < Reached')
    BY <1>00, <2>2
  <2> QED BY <1>0, <2>1, <2>2, <2>3, WalkKept
<1>7. CASE UNCHANGED vars
  <2>1. UNCHANGED <<search, busy>> /\ UNCHANGED <<pc, day, slot, offered, until, duration>>
    BY <1>7 DEF vars, search
  <2>2. /\ FreePositions' = FreePositions /\ Offered' = Offered /\ Reached' = Reached
        /\ Room' = Room
    BY <2>1, GridKept DEF Offered, Reached, Room
  <2>3. Position => Position'
    BY <2>1, GridKept DEF Position
  <2> QED BY <2>1, <2>2, <2>3 DEF WalkInv
<1> QED BY <1>1, <1>2, <1>3, <1>4, <1>5, <1>6, <1>7 DEF Next, Step

\* A finished search for a positive duration offers the earliest free positions of the
\* grid, up to the limit and in order: the walk over days and slots, which stops when
\* there is enough, skips nothing free, whatever the hours, the window and the
\* calendar.
THEOREM SearchIsComplete == Spec => []NothingPassedOver
<1>1. IInv /\ (duration > 0 => WalkInv) => NothingPassedOver
  <2> SUFFICES ASSUME IInv, WalkInv, duration > 0, pc = "done"
               PROVE  /\ Offered \subseteq FreePositions
                      /\ Room => Offered = FreePositions
                      /\ \A s \in FreePositions \ Offered, t \in Offered : t < s
                      /\ \A j, k \in DOMAIN offered : j < k => offered[j] < offered[k]
    BY DEF NothingPassedOver, Offered, FreePositions
  <2>1. Ahead /\ day \in Nat /\ until \in Int /\ Reached = day
    BY IInvAhead DEF IInv, TypeOK, Reached
  <2>2. PICK n \in Nat : day = Opening(n)
    BY DEF IInv, Walking, OnDay, Opening
  <2>3. ASSUME NEW s \in FreePositions, Room PROVE s < day
    <3>1. PICK m \in Nat, j \in Nat : s = At(m, j) /\ OnGrid(m, j)
      BY <2>1, GridIs DEF FreePositions
    <3>2. Opening(m) < Opening(n)
      <4>1. Opening(m) \in Nat /\ Opening(m) < until /\ day >= until
        BY <2>1, <2>3, <3>1, AtTyped DEF OnGrid, WalkInv
      <4> QED BY <2>1, <2>2, <4>1
    <3>3. m < n
      <4>1. m * Day + Open < n * Day + Open /\ m * Day \in Nat /\ n * Day \in Nat
            /\ Open \in Nat /\ Day \in Nat \ {0}
        BY <2>1, <3>2, AtTyped DEF Opening
      <4>2. n < m => n * Day + Day <= m * Day
        BY <4>1, Arithmetic
      <4> QED BY <4>1, <4>2
    <3> QED BY <2>1, <2>2, <3>1, <3>3, GridApart
  <2>4. Room => Offered = FreePositions
    BY <2>1, <2>3 DEF WalkInv
  <2>5. ASSUME NEW s \in FreePositions \ Offered, NEW t \in Offered PROVE t < s
    <3>1. s \in Nat /\ t \in Nat /\ t < day
      BY <2>1, GridIs DEF FreePositions, Offered, WalkInv, Ahead, Forward, TypeOK
    <3>2. CASE s < day
      BY <2>1, <3>2 DEF WalkInv
    <3>3. CASE ~(s < day)
      BY <2>1, <3>1, <3>3
    <3> QED BY <3>2, <3>3
  <2> QED BY <2>4, <2>5 DEF WalkInv
<1>2. Init => (duration > 0 => WalkInv)
  BY DEF Init, WalkInv
<1>3. IInv /\ (duration > 0 => WalkInv) /\ [Next]_vars => (duration > 0 => WalkInv)'
  BY WalkStep, DurationKept
<1> QED BY <1>1, <1>2, <1>3, InitIInv, NextIInv, PTL DEF Spec

=============================================================================
