------------------------------- MODULE OOTimer -------------------------------
(***************************************************************************)
(* ooTimer.c: one list of timers (a call's timerList, or the gatekeeper    *)
(* client's), kept in order of expiry, and the loop that fires what has    *)
(* expired.  The loop looks only at the head of the list and reads the     *)
(* clock anew each time; between two looks the callback of the timer it    *)
(* fired may start and delete other timers.                                *)
(***************************************************************************)
EXTENDS Integers, SequencesExt

CONSTANTS
  TimerId,       \* timers that can exist at a time, known to the code by address
  Delta,         \* whole seconds that callers ask for
  ClockReading,  \* what ooGetTimeOfDay may return
  MicroSec       \* microseconds in a second, 1000000 in the code

TimeVal == [sec : Nat, usec : 0 .. MicroSec - 1]

ASSUME TimerAssumption ==
  /\ MicroSec \in Nat \ {0}
  /\ Delta \subseteq Nat
  /\ ClockReading \subseteq TimeVal
  /\ ClockReading # {}

VARIABLES
  timers,   \* the list
  now,      \* the time of day
  loop,     \* "out" of ooTimerFireExpired, at its "test", or in a "callback"
  current   \* in a callback: the timer that has fired

vars == << timers, now, loop, current >>

Timer == [id : TimerId, expireTime : TimeVal, timeout : Delta, reRegister : BOOLEAN]

(* ooCompareTimeouts; also the comparisons of ooTimerExpired.               *)
Later(t, u) == t.sec > u.sec \/ (t.sec = u.sec /\ t.usec > u.usec)

(* Mutant of ExpireTime: seconds and microseconds mixed up.                 *)
ExpireTimeInMicroSec(timeout) == [sec |-> now.sec, usec |-> now.usec + timeout]

(* ooTimerComputeExpireTime: the timeout has no microseconds, so nothing is *)
(* carried.                                                                 *)
ExpireTime(timeout) == [sec |-> now.sec + timeout, usec |-> now.usec]

(* ooTimerExpired *)
Expired(t) == Later(now, t.expireTime)

(* What the loop of ooTimerFireExpired tests. *)
HeadExpired == timers # << >> /\ Expired(Head(timers))

(* Mutant of InsertEntry: at the end of the list.                           *)
InsertEntryLast(list, t) == Append(list, t)

(* ooTimerInsertEntry: before the first timer that does not expire earlier. *)
Place(list, t) ==
  LET later == {i \in 1 .. Len(list) : ~Later(t.expireTime, list[i].expireTime)}
  IN  IF later = {} THEN Len(list) + 1 ELSE CHOOSE i \in later : \A j \in later : i <= j
InsertEntry(list, t) == InsertAt(list, Place(list, t), t)

(* dListFindAndRemove, on the timer's address. *)
Position(list, id) == CHOOSE i \in 1 .. Len(list) : list[i].id = id
Listed(list) == {list[i].id : i \in 1 .. Len(list)}
FindAndRemove(list, id) ==
  IF id \in Listed(list) THEN RemoveAt(list, Position(list, id)) ELSE list

(* Mutant of NextTimeout: the second that was borrowed is not paid back.    *)
NextTimeoutUnborrowed ==
  LET t    == Head(timers).expireTime
      sec  == IF t.sec > now.sec THEN t.sec - now.sec ELSE 0
      usec == t.usec - now.usec
  IN  [sec |-> sec, usec |-> IF usec >= 0 THEN usec ELSE usec + MicroSec]

(* ooTimerNextTimeout: how long select may sleep, for a list that is not    *)
(* empty.                                                                   *)
NextTimeout ==
  LET t    == Head(timers).expireTime
      sec  == IF t.sec > now.sec THEN t.sec - now.sec ELSE 0
      usec == t.usec - now.usec
  IN  IF usec >= 0 THEN [sec |-> sec, usec |-> usec]
      ELSE IF sec = 0 THEN [sec |-> 0, usec |-> 0]
      ELSE [sec |-> sec - 1, usec |-> usec + MicroSec]
-----------------------------------------------------------------------------
Init ==
  /\ timers = << >>
  /\ now \in ClockReading
  /\ loop = "out"
  /\ current \in TimerId

(* The stack and the callbacks create and delete timers, never inside the   *)
(* loop's own test.                                                         *)
MayCall == loop \in {"out", "callback"}

(* ooTimerCreate *)
Create(id, timeout, reRegister) ==
  /\ MayCall
  /\ id \notin Listed(timers)
  /\ loop = "callback" => id # current
  /\ timers' = InsertEntry(timers, [id |-> id, expireTime |-> ExpireTime(timeout),
                                    timeout |-> timeout, reRegister |-> reRegister])
  /\ UNCHANGED << now, loop, current >>

(* ooTimerDelete: no callback deletes the timer it was called for.          *)
Delete(id) ==
  /\ MayCall
  /\ id \in Listed(timers)
  /\ loop = "callback" => id # current
  /\ timers' = FindAndRemove(timers, id)
  /\ UNCHANGED << now, loop, current >>

(* ooTimerFireExpired is called. *)
FireExpired ==
  /\ loop = "out"
  /\ loop' = "test"
  /\ UNCHANGED << timers, now, current >>

(* Mutant of Fire: a timer that is not periodic is deleted before its       *)
(* callback, and again after it.                                            *)
FireUnlinked ==
  /\ loop = "test" /\ HeadExpired
  /\ LET t == Head(timers)
     IN  /\ current' = t.id
         /\ timers' = IF t.reRegister
                      THEN InsertEntry(FindAndRemove(timers, t.id),
                                       [t EXCEPT !.expireTime = ExpireTime(t.timeout)])
                      ELSE FindAndRemove(timers, t.id)
  /\ loop' = "callback"
  /\ UNCHANGED now

(* Its test finds the head expired: a periodic timer is moved to its next   *)
(* place (ooTimerReset), and the callback starts.                           *)
Fire ==
  /\ loop = "test" /\ HeadExpired
  /\ LET t == Head(timers)
     IN  /\ current' = t.id
         /\ timers' = IF t.reRegister
                      THEN InsertEntry(FindAndRemove(timers, t.id),
                                       [t EXCEPT !.expireTime = ExpireTime(t.timeout)])
                      ELSE timers
  /\ loop' = "callback"
  /\ UNCHANGED now

(* The callback returns: a timer that is not periodic, or whose callback    *)
(* failed, is deleted.                                                      *)
CallbackReturns(stat) ==
  /\ loop = "callback"
  /\ LET t == timers[Position(timers, current)]
     IN  timers' = IF stat # 0 \/ ~t.reRegister
                   THEN FindAndRemove(timers, current) ELSE timers
  /\ loop' = "test"
  /\ UNCHANGED << now, current >>

(* Its test finds nothing expired at the head: it returns. *)
Done ==
  /\ loop = "test" /\ ~HeadExpired
  /\ loop' = "out"
  /\ UNCHANGED << timers, now, current >>

(* The time of day passes, and may be set back. *)
Clock ==
  /\ now' \in ClockReading
  /\ UNCHANGED << timers, loop, current >>

Next ==
  \/ \E id \in TimerId, timeout \in Delta, reRegister \in BOOLEAN :
       Create(id, timeout, reRegister)
  \/ \E id \in TimerId : Delete(id)
  \/ FireExpired \/ Fire \/ Done \/ Clock
  \/ \E stat \in {0, 1} : CallbackReturns(stat)

Spec == Init /\ [][Next]_vars
-----------------------------------------------------------------------------
(* The timers, the clock and the loop have their types.                     *)
TypeOK ==
  /\ timers \in Seq(Timer)
  /\ now \in TimeVal
  /\ loop \in {"out", "test", "callback"}
  /\ current \in TimerId

InOrder(list) ==
  \A i, j \in 1 .. Len(list) :
    i < j => ~Later(list[i].expireTime, list[j].expireTime)

(* The list is in order of expiry, whatever is created, deleted, fired or   *)
(* re-registered, and however the clock is set: the loop's test of the head *)
(* alone is enough.                                                         *)
Sorted == InOrder(timers)

Distinct(list) ==
  \A i, j \in 1 .. Len(list) : list[i].id = list[j].id => i = j

(* No timer is listed twice, and the timer whose callback runs is listed    *)
(* until the callback has returned: what is freed then is a timer the list  *)
(* held, and nothing that was freed is left in it.                          *)
FiredIsListed ==
  /\ Distinct(timers)
  /\ loop = "callback" => current \in Listed(timers)

(* ooTimerFireExpired returns only when nothing in the whole list, and not  *)
(* just the head, has expired, although callbacks have changed the list.    *)
NoneLeftExpired ==
  [][loop = "test" /\ loop' = "out"
       => \A i \in 1 .. Len(timers) : ~Expired(timers[i])]_vars

(* When a select that starts now and sleeps for ooTimerNextTimeout wakes.   *)
Wake ==
  LET usec == now.usec + NextTimeout.usec
  IN  IF usec < MicroSec THEN [sec |-> now.sec + NextTimeout.sec, usec |-> usec]
      ELSE [sec |-> now.sec + NextTimeout.sec + 1, usec |-> usec - MicroSec]

(* While nothing has expired, a select that sleeps for ooTimerNextTimeout   *)
(* wakes up at the first expiry in the list: not after any, and not before  *)
(* all.                                                                     *)
WakesAtFirstExpiry ==
  (timers # << >> /\ \A i \in 1 .. Len(timers) : ~Expired(timers[i])) =>
     /\ \A i \in 1 .. Len(timers) : ~Later(Wake, timers[i].expireTime)
     /\ \E i \in 1 .. Len(timers) : Wake = timers[i].expireTime
=============================================================================
