---------------------------- MODULE OOTimerProofs ----------------------------
(***************************************************************************)
(* Proofs about ooTimer.c, for any number of timers, any timeouts, any     *)
(* clock readings and any number of microseconds in a second.              *)
(***************************************************************************)
EXTENDS OOTimer, ListLemmas

-----------------------------------------------------------------------------
(* ooTimerInsertEntry puts a timer after all that expire earlier, and       *)
(* before one that does not.                                                *)
LEMMA PlaceProperties ==
  ASSUME NEW list \in Seq(Timer), NEW t \in Timer
  PROVE  /\ Place(list, t) \in 1 .. Len(list) + 1
         /\ \A i \in 1 .. Len(list) :
              i < Place(list, t) => Later(t.expireTime, list[i].expireTime)
         /\ Place(list, t) <= Len(list)
              => ~Later(t.expireTime, list[Place(list, t)].expireTime)
<1> DEFINE later == {i \in 1 .. Len(list) : ~Later(t.expireTime, list[i].expireTime)}
<1>1. CASE later = {}
  BY <1>1 DEF Place
<1>2. CASE later # {}
  <2>1. later \in SUBSET Nat
    OBVIOUS
  <2>2. \E i \in later : \A j \in later : i <= j
    BY <1>2, <2>1, LeastNatural
  <2>3. Place(list, t) = CHOOSE i \in later : \A j \in later : i <= j
    BY <1>2 DEF Place
  <2>4. Place(list, t) \in later /\ \A j \in later : Place(list, t) <= j
    BY <2>2, <2>3
  <2> QED
    BY <2>4
<1> QED
  BY <1>1, <1>2

(* Lateness is a strict weak order on times.                                *)
LEMMA LaterOrders ==
  ASSUME NEW t \in TimeVal, NEW u \in TimeVal, NEW v \in TimeVal
  PROVE  /\ Later(t, u) => ~Later(u, t)
         /\ ~Later(t, u) /\ ~Later(u, v) => ~Later(t, v)
BY TimerAssumption DEF TimeVal, Later

(* Inserting a timer keeps a list in order, without duplicates, and adds    *)
(* nothing else.                                                            *)
LEMMA InsertEntryKeeps ==
  ASSUME NEW list \in Seq(Timer), NEW t \in Timer,
         InOrder(list), Distinct(list), t.id \notin Listed(list)
  PROVE  LET new == InsertEntry(list, t)
         IN  /\ new \in Seq(Timer)
             /\ InOrder(new) /\ Distinct(new)
             /\ Listed(new) = Listed(list) \cup {t.id}
<1> DEFINE p   == Place(list, t)
           new == InsertEntry(list, t)
<1>0. Len(list) \in Nat /\ \A i \in 1 .. Len(list) : list[i] \in Timer
  OBVIOUS
<1>1. /\ p \in 1 .. Len(list) + 1
      /\ \A i \in 1 .. Len(list) : i < p => Later(t.expireTime, list[i].expireTime)
      /\ p <= Len(list) => ~Later(t.expireTime, list[p].expireTime)
  BY PlaceProperties
<1>2. /\ new \in Seq(Timer) /\ Len(new) = Len(list) + 1
      /\ \A i \in 1 .. Len(list) + 1 :
           new[i] = IF i < p THEN list[i] ELSE IF i = p THEN t ELSE list[i - 1]
  <2>1. new = InsertAt(list, p, t)
    BY DEF InsertEntry
  <2> HIDE DEF p, new
  <2>2. /\ InsertAt(list, p, t) \in Seq(Timer)
        /\ Len(InsertAt(list, p, t)) = Len(list) + 1
        /\ \A i \in 1 .. Len(list) + 1 : InsertAt(list, p, t)[i] =
             IF i < p THEN list[i] ELSE IF i = p THEN t ELSE list[i - 1]
    BY <1>1, InsertAtElements
  <2> QED
    BY <2>1, <2>2
<1> HIDE DEF p, new
<1>3. InOrder(new)
  <2> SUFFICES ASSUME NEW i \in 1 .. Len(list) + 1, NEW j \in 1 .. Len(list) + 1, i < j
               PROVE  ~Later(new[i].expireTime, new[j].expireTime)
    BY <1>2 DEF InOrder
  <2>1. /\ t.expireTime \in TimeVal
        /\ \A k \in 1 .. Len(list) : list[k].expireTime \in TimeVal
    BY <1>0 DEF Timer
  <2>2. CASE j < p
    <3>1. new[i] = list[i] /\ new[j] = list[j] /\ i \in 1 .. Len(list) /\ j \in 1 .. Len(list)
      BY <1>0, <1>1, <1>2, <2>2
    <3> QED
      BY <3>1 DEF InOrder
  <2>3. CASE j = p
    BY <1>0, <1>1, <1>2, <2>1, <2>3, LaterOrders
  <2>4. CASE i < p /\ p < j
    <3>1. new[i] = list[i] /\ new[j] = list[j - 1] /\ i \in 1 .. Len(list)
          /\ j - 1 \in 1 .. Len(list) /\ i < j - 1
      BY <1>0, <1>1, <1>2, <2>4
    <3> QED
      BY <3>1 DEF InOrder
  <2>5. CASE i = p
    <3>0. p \in 1 .. Len(list) /\ j \in 1 .. Len(list) + 1 /\ p < j
      BY <1>0, <1>1, <2>5
    <3>1. new[i] = t /\ new[j] = list[j - 1] /\ j - 1 \in 1 .. Len(list)
          /\ p \in 1 .. Len(list) /\ (p = j - 1 \/ p < j - 1)
      BY <1>0, <1>2, <2>5, <3>0
    <3>2. ~Later(t.expireTime, list[p].expireTime)
      BY <1>1, <3>1
    <3>3. p < j - 1 => ~Later(list[p].expireTime, list[j - 1].expireTime)
      BY <3>1 DEF InOrder
    <3> QED
      BY <2>1, <3>1, <3>2, <3>3, LaterOrders
  <2>6. CASE p < i
    <3>1. new[i] = list[i - 1] /\ new[j] = list[j - 1] /\ i - 1 \in 1 .. Len(list)
          /\ j - 1 \in 1 .. Len(list) /\ i - 1 < j - 1
      BY <1>0, <1>1, <1>2, <2>6
    <3> QED
      BY <3>1 DEF InOrder
  <2> QED
    BY <1>1, <2>2, <2>3, <2>4, <2>5, <2>6
<1>4. Distinct(new)
  <2> SUFFICES ASSUME NEW i \in 1 .. Len(list) + 1, NEW j \in 1 .. Len(list) + 1,
                      new[i].id = new[j].id
               PROVE  i = j
    BY <1>2 DEF Distinct
  <2>1. \A k \in 1 .. Len(list) : list[k].id # t.id
    BY DEF Listed
  <2>2. \A k \in 1 .. Len(list) + 1 : k # p =>
          \E m \in 1 .. Len(list) : new[k] = list[m] /\ m = IF k < p THEN k ELSE k - 1
    BY <1>0, <1>1, <1>2
  <2>3. CASE i = p \/ j = p
    BY <1>1, <1>2, <2>1, <2>2, <2>3
  <2>4. CASE i # p /\ j # p
    BY <1>0, <1>1, <2>2, <2>4 DEF Distinct
  <2> QED
    BY <2>3, <2>4
<1>5. Listed(new) = Listed(list) \cup {t.id}
  <2>1. ASSUME NEW k \in 1 .. Len(list) + 1
        PROVE  new[k].id \in Listed(list) \cup {t.id}
    <3>1. CASE k = p
      BY <1>2, <2>1, <3>1
    <3>2. CASE k # p
      <4>1. \E m \in 1 .. Len(list) : new[k] = list[m]
        BY <1>0, <1>1, <1>2, <3>2
      <4> QED
        BY <4>1 DEF Listed
    <3> QED
      BY <3>1, <3>2
  <2>2. ASSUME NEW m \in 1 .. Len(list)
        PROVE  list[m].id \in Listed(new)
    <3>1. CASE m < p
      BY <1>0, <1>2, <3>1 DEF Listed
    <3>2. CASE m >= p
      <4>1. m + 1 \in 1 .. Len(list) + 1 /\ new[m + 1] = list[m]
        BY <1>0, <1>1, <1>2, <3>2
      <4> QED
        BY <1>2, <4>1 DEF Listed
    <3> QED
      BY <1>0, <1>1, <3>1, <3>2
  <2>3. t.id \in Listed(new)
    BY <1>1, <1>2 DEF Listed
  <2>4. Listed(new) = {new[k].id : k \in 1 .. Len(list) + 1}
    BY <1>2 DEF Listed
  <2> QED
    BY <2>1, <2>2, <2>3, <2>4 DEF Listed
<1> QED
  BY <1>2, <1>3, <1>4, <1>5 DEF new

(* Removing a timer keeps a list in order, without duplicates, and takes    *)
(* nothing else away.                                                       *)
LEMMA FindAndRemoveKeeps ==
  ASSUME NEW list \in Seq(Timer), NEW id, InOrder(list), Distinct(list)
  PROVE  LET new == FindAndRemove(list, id)
         IN  /\ new \in Seq(Timer)
             /\ InOrder(new) /\ Distinct(new)
             /\ Listed(new) = Listed(list) \ {id}
<1> DEFINE p   == Position(list, id)
           new == FindAndRemove(list, id)
<1>1. CASE id \notin Listed(list)
  BY <1>1 DEF FindAndRemove
<1>2. CASE id \in Listed(list)
  <2>0. Len(list) \in Nat
    OBVIOUS
  <2>1. p \in 1 .. Len(list) /\ list[p].id = id
    BY <1>2 DEF Position, Listed
  <2>2. /\ new \in Seq(Timer) /\ Len(new) = Len(list) - 1
        /\ \A i \in 1 .. Len(list) - 1 : new[i] = IF i < p THEN list[i] ELSE list[i + 1]
    BY <1>2, <2>1, RemoveAtElements DEF FindAndRemove
  <2> HIDE DEF p, new
  <2>3. \A i \in 1 .. Len(list) - 1 :
          \E k \in 1 .. Len(list) :
            new[i] = list[k] /\ k # p /\ k = IF i < p THEN i ELSE i + 1
    BY <2>0, <2>1, <2>2
  <2>4. InOrder(new)
    BY <2>0, <2>1, <2>2, <2>3 DEF InOrder
  <2>5. Distinct(new)
    BY SMTT(30), <2>0, <2>1, <2>2, <2>3 DEF Distinct
  <2>6. ASSUME NEW i \in 1 .. Len(new)
        PROVE  new[i].id \in Listed(list) \ {id}
    <3>1. PICK k \in 1 .. Len(list) : new[i] = list[k] /\ k # p
      BY <2>0, <2>2, <2>3
    <3>2. list[k].id # id
      BY <2>1, <3>1 DEF Distinct
    <3> QED
      BY <3>1, <3>2 DEF Listed
  <2>7. ASSUME NEW m \in 1 .. Len(list), list[m].id # id
        PROVE  list[m].id \in Listed(new)
    <3>1. CASE m < p
      BY <2>0, <2>1, <2>2, <3>1 DEF Listed
    <3>2. CASE m > p
      <4>1. m - 1 \in 1 .. Len(list) - 1 /\ new[m - 1] = list[m]
        BY <2>0, <2>1, <2>2, <3>2
      <4> QED
        BY <2>2, <4>1 DEF Listed
    <3> QED
      BY <2>0, <2>1, <2>7, <3>1, <3>2
  <2>8. Listed(new) = Listed(list) \ {id}
    BY <2>6, <2>7 DEF Listed
  <2> QED
    BY <2>2, <2>4, <2>5, <2>8 DEF new
<1> QED
  BY <1>1, <1>2-----------------------------------------------------------------------------
(* The inductive invariant: order and identity together, because a          *)
(* re-registered timer is found by its address and put back by its time.    *)
IInv == TypeOK /\ Sorted /\ FiredIsListed

LEMMA InitIInv == Init => IInv
<1> SUFFICES ASSUME Init
             PROVE  IInv
  OBVIOUS
<1>1. TypeOK
  BY TimerAssumption DEF Init, TypeOK
<1>2. Sorted /\ FiredIsListed
  BY DEF Init, Sorted, InOrder, FiredIsListed, Distinct
<1> QED
  BY <1>1, <1>2 DEF IInv

(* What a step needs to know of the lists it starts from.                   *)
LEMMA ExpireTimeType ==
  ASSUME TypeOK, NEW timeout \in Delta
  PROVE  ExpireTime(timeout) \in TimeVal
BY TimerAssumption DEF TypeOK, ExpireTime, TimeVal

LEMMA NextIInv == IInv /\ [Next]_vars => IInv'
<1> SUFFICES ASSUME IInv, [Next]_vars
             PROVE  IInv'
  OBVIOUS
<1> USE DEF IInv, Sorted, FiredIsListed
<1>0. timers \in Seq(Timer) /\ InOrder(timers) /\ Distinct(timers)
  BY DEF TypeOK
<1>1. ASSUME NEW id \in TimerId, NEW timeout \in Delta, NEW reRegister \in BOOLEAN,
             Create(id, timeout, reRegister)
      PROVE  IInv'
  <2> DEFINE t == [id |-> id, expireTime |-> ExpireTime(timeout),
                   timeout |-> timeout, reRegister |-> reRegister]
  <2>1. t \in Timer /\ t.id = id
    BY ExpireTimeType DEF Timer
  <2>2. timers' = InsertEntry(timers, t) /\ id \notin Listed(timers)
    BY <1>1 DEF Create
  <2> HIDE DEF t
  <2>3. /\ timers' \in Seq(Timer) /\ InOrder(timers') /\ Distinct(timers')
        /\ Listed(timers') = Listed(timers) \cup {id}
    BY <1>0, <2>1, <2>2, InsertEntryKeeps
  <2>4. UNCHANGED << now, loop, current >>
    BY <1>1 DEF Create
  <2> QED
    BY <2>3, <2>4 DEF TypeOK, InOrder, Distinct
<1>2. ASSUME NEW id \in TimerId, Delete(id)
      PROVE  IInv'
  <2>1. /\ timers' \in Seq(Timer) /\ InOrder(timers') /\ Distinct(timers')
        /\ Listed(timers') = Listed(timers) \ {id}
    BY <1>0, <1>2, FindAndRemoveKeeps DEF Delete
  <2>2. UNCHANGED << now, loop, current >> /\ (loop = "callback" => id # current)
    BY <1>2 DEF Delete
  <2> QED
    BY <2>1, <2>2 DEF TypeOK, InOrder, Distinct
<1>3. CASE FireExpired
  BY <1>3 DEF FireExpired, TypeOK, InOrder, Distinct
<1>4. CASE Fire
  <2> DEFINE t == Head(timers)
             u == [t EXCEPT !.expireTime = ExpireTime(t.timeout)]
  <2>1. /\ t = timers[1] /\ t \in Timer /\ 1 \in 1 .. Len(timers)
    BY <1>0, <1>4 DEF Fire, HeadExpired
  <2>2. t.id \in Listed(timers) /\ t.id \in TimerId
    BY <2>1 DEF Listed, Timer
  <2>3. u \in Timer /\ u.id = t.id
    BY <2>1, ExpireTimeType DEF Timer
  <2>4. /\ current' = t.id /\ loop' = "callback" /\ now' = now
        /\ timers' = IF t.reRegister THEN InsertEntry(FindAndRemove(timers, t.id), u) ELSE timers
    BY <1>4 DEF Fire
  <2> HIDE DEF t, u
  <2>5. /\ timers' \in Seq(Timer) /\ InOrder(timers') /\ Distinct(timers')
        /\ Listed(timers') = Listed(timers)
    <3>1. CASE t.reRegister
      <4> DEFINE rest == FindAndRemove(timers, t.id)
      <4>1. /\ rest \in Seq(Timer) /\ InOrder(rest) /\ Distinct(rest)
            /\ Listed(rest) = Listed(timers) \ {t.id}
        BY <1>0, FindAndRemoveKeeps
      <4>2. timers' = InsertEntry(rest, u)
        BY <2>4, <3>1
      <4> HIDE DEF rest
      <4>3. /\ timers' \in Seq(Timer) /\ InOrder(timers') /\ Distinct(timers')
            /\ Listed(timers') = Listed(rest) \cup {u.id}
        BY <2>3, <4>1, <4>2, InsertEntryKeeps
      <4> QED
        BY <2>2, <2>3, <4>1, <4>3
    <3>2. CASE ~t.reRegister
      BY <1>0, <2>4, <3>2
    <3> QED
      BY <3>1, <3>2
  <2> QED
    BY <2>2, <2>4, <2>5 DEF TypeOK, InOrder, Distinct
<1>5. CASE Done
  BY <1>5 DEF Done, TypeOK, InOrder, Distinct
<1>6. CASE Clock
  BY <1>6, TimerAssumption DEF Clock, TypeOK, InOrder, Distinct, Listed
<1>7. ASSUME NEW stat \in {0, 1}, CallbackReturns(stat)
      PROVE  IInv'
  <2>1. /\ timers' \in Seq(Timer) /\ InOrder(timers') /\ Distinct(timers')
    BY <1>0, <1>7, FindAndRemoveKeeps DEF CallbackReturns
  <2>2. loop' = "test" /\ UNCHANGED << now, current >>
    BY <1>7 DEF CallbackReturns
  <2> QED
    BY <2>1, <2>2 DEF TypeOK, InOrder, Distinct
<1>8. CASE UNCHANGED vars
  BY <1>8 DEF vars, TypeOK, InOrder, Distinct, Listed
<1> QED
  BY <1>1, <1>2, <1>3, <1>4, <1>5, <1>6, <1>7, <1>8 DEF Next

(* Every reachable state satisfies the inductive invariant.                 *)
THEOREM Invariance == Spec => []IInv
BY InitIInv, NextIInv, PTL DEF Spec

(* The timer list, the clock and the loop always have their types.          *)
THEOREM TypeCorrect == Spec => []TypeOK
BY Invariance, PTL DEF IInv

(* ooTimerInsertEntry, ooTimerDelete and ooTimerReset keep the list in      *)
(* order of expiry, with the clock set at will.                             *)
THEOREM StaysSorted == Spec => []Sorted
BY Invariance, PTL DEF IInv

(* What ooTimerFireExpired deletes after a callback is in the list, and     *)
(* listed once.                                                             *)
THEOREM FiredStaysListed == Spec => []FiredIsListed
BY Invariance, PTL DEF IInv

(* ooTimerFireExpired never returns with an expired timer in the list.      *)
THEOREM FiresAllExpired == Spec => NoneLeftExpired
<1>1. ASSUME IInv, [Next]_vars, loop = "test", loop' = "out"
      PROVE  \A i \in 1 .. Len(timers) : ~Expired(timers[i])
  <2>1. ~HeadExpired
    BY <1>1 DEF Next, vars, Create, Delete, FireExpired, Fire, CallbackReturns, Done, Clock, MayCall
  <2> SUFFICES ASSUME NEW i \in 1 .. Len(timers)
               PROVE  ~Expired(timers[i])
    OBVIOUS
  <2>2. timers \in Seq(Timer) /\ now \in TimeVal
    BY <1>1 DEF IInv, TypeOK
  <2>3. /\ 1 \in 1 .. Len(timers) /\ Head(timers) = timers[1] /\ timers # << >>
        /\ (i = 1 \/ 1 < i)
    BY <2>2
  <2>4. ~Later(now, timers[1].expireTime)
    BY <2>1, <2>3 DEF HeadExpired, Expired
  <2>5. 1 < i => ~Later(timers[1].expireTime, timers[i].expireTime)
    BY <1>1, <2>3 DEF IInv, Sorted, InOrder
  <2>6. timers[1].expireTime \in TimeVal /\ timers[i].expireTime \in TimeVal
    <3>1. timers[1] \in Timer /\ timers[i] \in Timer
      BY <2>2, <2>3
    <3> QED
      BY <3>1 DEF Timer
  <2> QED
    BY <2>2, <2>3, <2>4, <2>5, <2>6, LaterOrders DEF Expired
<1> QED
  BY <1>1, Invariance, PTL DEF Spec, NoneLeftExpired

(* Sleeping for ooTimerNextTimeout ends exactly at the first expiry.        *)
THEOREM SleepsUntilFirstExpiry == Spec => []WakesAtFirstExpiry
<1>1. ASSUME IInv
      PROVE  WakesAtFirstExpiry
  <2> SUFFICES ASSUME timers # << >>, \A i \in 1 .. Len(timers) : ~Expired(timers[i])
               PROVE  /\ \A i \in 1 .. Len(timers) : ~Later(Wake, timers[i].expireTime)
                      /\ \E i \in 1 .. Len(timers) : Wake = timers[i].expireTime
    BY DEF WakesAtFirstExpiry
  <2>1. timers \in Seq(Timer) /\ now \in TimeVal
    BY <1>1 DEF IInv, TypeOK
  <2>2. 1 \in 1 .. Len(timers) /\ Head(timers) = timers[1] /\ timers[1] \in Timer
    BY <2>1
  <2>3. timers[1].expireTime \in TimeVal
    BY <2>2 DEF Timer
  <2>4. ~Later(now, timers[1].expireTime)
    BY <2>2 DEF Expired
  <2> DEFINE first == timers[1].expireTime
  <2>5. Wake = first
    <3>1. /\ first.sec \in Nat /\ first.usec \in 0 .. MicroSec - 1
          /\ now.sec \in Nat /\ now.usec \in 0 .. MicroSec - 1
          /\ first = [sec |-> first.sec, usec |-> first.usec]
      BY <2>1, <2>3 DEF TimeVal
    <3>2. Head(timers).expireTime = first
      BY <2>2
    <3>3. now.sec < first.sec \/ (now.sec = first.sec /\ now.usec <= first.usec)
      BY <2>4, <3>1 DEF Later
    <3> HIDE DEF first
    <3>4. NextTimeout = IF first.usec >= now.usec
                        THEN [sec |-> first.sec - now.sec, usec |-> first.usec - now.usec]
                        ELSE [sec |-> first.sec - now.sec - 1,
                              usec |-> first.usec - now.usec + MicroSec]
      <4>1. CASE first.usec >= now.usec
        BY <3>1, <3>2, <3>3, <4>1 DEF NextTimeout
      <4>2. CASE first.usec < now.usec
        BY <3>1, <3>2, <3>3, <4>2 DEF NextTimeout
      <4> QED
        BY <3>1, <4>1, <4>2
    <3>5. CASE first.usec >= now.usec
      <4>1. /\ NextTimeout.sec = first.sec - now.sec
            /\ NextTimeout.usec = first.usec - now.usec
        BY <3>4, <3>5
      <4>2. now.usec + NextTimeout.usec = first.usec /\ now.sec + NextTimeout.sec = first.sec
        BY <3>1, <4>1
      <4>3. first.usec < MicroSec
        BY <3>1, TimerAssumption
      <4> QED
        BY <3>1, <4>2, <4>3 DEF Wake
    <3>6. CASE first.usec < now.usec
      BY <3>1, <3>4, <3>6, TimerAssumption DEF Wake
    <3> QED
      BY <3>1, <3>5, <3>6
  <2>6. ASSUME NEW i \in 1 .. Len(timers)
        PROVE  ~Later(first, timers[i].expireTime)
    <3>0. timers[i] \in Timer
      BY <2>1
    <3>1. timers[i].expireTime \in TimeVal
      BY <3>0 DEF Timer
    <3>2. CASE i = 1
      BY <2>3, <3>2, LaterOrders
    <3>3. CASE 1 < i
      BY <1>1, <2>2, <3>3 DEF IInv, Sorted, InOrder
    <3> QED
      BY <2>1, <3>2, <3>3
  <2> QED
    BY <2>2, <2>5, <2>6
<1> QED
  BY <1>1, Invariance, PTL
=============================================================================
