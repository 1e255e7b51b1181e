--------------------------- MODULE GkSessionProofs ---------------------------
(***************************************************************************)
(* Theorems about GkSession, for any calls, references, answers, retries   *)
(* and numbers: the types, and that the client is never without a timer    *)
(* that moves it.  NeverIdles reads three fields of the client; a lemma    *)
(* for each operator of OOGkClient says what becomes of them.              *)
(***************************************************************************)
EXTENDS GkSession, ListLemmas

SameState(g, h) ==
  h.state = g.state /\ h.regTimeout = g.regTimeout /\ h.timers = g.timers

(* NeverIdles, of a client. *)
Moves(g) ==
  /\ g.state = "Idle" => g.timers.GRQ > 0
  /\ g.state = "Discovered" => g.timers.RRQ > 0
  /\ g.state = "Registered" /\ g.regTimeout => g.timers.REG + g.timers.RRQ > 0

TimerTypes == {"GRQ", "RRQ", "REG"}

LEMMA ClientFields ==
  ASSUME NEW g \in Client
  PROVE  /\ g.state \in ClientState /\ g.discoveryComplete \in BOOLEAN
         /\ g.grqRetries \in Nat /\ g.rrqRetries \in Nat
         /\ g.requestSeqNum \in 0 .. SeqNumbers - 1 /\ g.regTimeout \in BOOLEAN
         /\ g.timers \in Timers /\ g.arqTimers \in Seq(Call \cup {"NULL"})
         /\ g.callsPendingList \in Seq(AdmissionInfo)
         /\ g.callsAdmittedList \in Seq(AdmissionInfo)
         /\ g.onTheWay \in OnTheWay
  BY DEF Client

LEMMA TimersFields ==
  ASSUME NEW t \in Timers
  PROVE  t.GRQ \in Nat /\ t.RRQ \in Nat /\ t.REG \in Nat
  BY DEF Timers
-----------------------------------------------------------------------------
(* One field changes.                                                       *)

LEMMA StateField ==
  ASSUME NEW g \in Client, NEW s \in ClientState
  PROVE  /\ [g EXCEPT !.state = s] \in Client
         /\ [g EXCEPT !.state = s].state = s
         /\ [g EXCEPT !.state = s].regTimeout = g.regTimeout
         /\ [g EXCEPT !.state = s].timers = g.timers
  BY DEF Client

LEMMA TimersField ==
  ASSUME NEW g \in Client, NEW t \in Timers
  PROVE  /\ [g EXCEPT !.timers = t] \in Client
         /\ [g EXCEPT !.timers = t].timers = t
         /\ [g EXCEPT !.timers = t].state = g.state
         /\ [g EXCEPT !.timers = t].regTimeout = g.regTimeout
  BY DEF Client

LEMMA OnTheWayField ==
  ASSUME NEW g \in Client, NEW w \in OnTheWay
  PROVE  /\ [g EXCEPT !.onTheWay = w] \in Client
         /\ SameState(g, [g EXCEPT !.onTheWay = w])
  BY DEF Client, SameState

LEMMA SeqNumField ==
  ASSUME NEW g \in Client, NEW n \in 0 .. SeqNumbers - 1
  PROVE  /\ [g EXCEPT !.requestSeqNum = n] \in Client
         /\ SameState(g, [g EXCEPT !.requestSeqNum = n])
         /\ [g EXCEPT !.requestSeqNum = n].onTheWay = g.onTheWay
         /\ [g EXCEPT !.requestSeqNum = n].callsPendingList = g.callsPendingList
         /\ [g EXCEPT !.requestSeqNum = n].callsAdmittedList = g.callsAdmittedList
         /\ [g EXCEPT !.requestSeqNum = n].arqTimers = g.arqTimers
  BY DEF Client, SameState

LEMMA ArqTimersField ==
  ASSUME NEW g \in Client, NEW l \in Seq(Call \cup {"NULL"})
  PROVE  /\ [g EXCEPT !.arqTimers = l] \in Client
         /\ SameState(g, [g EXCEPT !.arqTimers = l])
         /\ [g EXCEPT !.arqTimers = l].callsPendingList = g.callsPendingList
         /\ [g EXCEPT !.arqTimers = l].callsAdmittedList = g.callsAdmittedList
  BY DEF Client, SameState

LEMMA PendingField ==
  ASSUME NEW g \in Client, NEW l \in Seq(AdmissionInfo)
  PROVE  /\ [g EXCEPT !.callsPendingList = l] \in Client
         /\ SameState(g, [g EXCEPT !.callsPendingList = l])
         /\ [g EXCEPT !.callsPendingList = l].arqTimers = g.arqTimers
         /\ [g EXCEPT !.callsPendingList = l].callsAdmittedList = g.callsAdmittedList
  BY DEF Client, SameState

LEMMA DiscoveryField ==
  ASSUME NEW g \in Client, NEW b \in BOOLEAN
  PROVE  /\ [g EXCEPT !.discoveryComplete = b] \in Client
         /\ SameState(g, [g EXCEPT !.discoveryComplete = b])
  BY DEF Client, SameState

LEMMA RetriesField ==
  ASSUME NEW g \in Client, NEW n \in Nat
  PROVE  /\ [g EXCEPT !.grqRetries = n] \in Client
         /\ SameState(g, [g EXCEPT !.grqRetries = n])
         /\ [g EXCEPT !.rrqRetries = n] \in Client
         /\ SameState(g, [g EXCEPT !.rrqRetries = n])
  BY DEF Client, SameState

LEMMA RegTimeoutField ==
  ASSUME NEW g \in Client, NEW b \in BOOLEAN
  PROVE  /\ [g EXCEPT !.regTimeout = b] \in Client
         /\ [g EXCEPT !.regTimeout = b].state = g.state
         /\ [g EXCEPT !.regTimeout = b].regTimeout = b
         /\ [g EXCEPT !.regTimeout = b].timers = g.timers
  BY DEF Client

LEMMA AdmittedField ==
  ASSUME NEW g \in Client, NEW l \in Seq(AdmissionInfo)
  PROVE  /\ [g EXCEPT !.callsAdmittedList = l] \in Client
         /\ SameState(g, [g EXCEPT !.callsAdmittedList = l])
  BY DEF Client, SameState
-----------------------------------------------------------------------------
(* Numbers, timers, and requests.                                           *)

LEMMA NumberTaken ==
  ASSUME NEW g \in Client
  PROVE  /\ RequestNumber(g) \in 1 .. SeqNumbers - 1
         /\ TakeSeq(g) \in Client /\ SameState(g, TakeSeq(g))
         /\ TakeSeq(g).onTheWay = g.onTheWay
         /\ TakeSeq(g).arqTimers = g.arqTimers
         /\ TakeSeq(g).callsPendingList = g.callsPendingList
         /\ TakeSeq(g).callsAdmittedList = g.callsAdmittedList
<1>1. SeqNumbers \in Nat /\ SeqNumbers > 1
  BY GkAssumption
<1>2. RequestNumber(g) \in 1 .. SeqNumbers - 1
  BY <1>1, ClientFields DEF RequestNumber
<1>3. (RequestNumber(g) + 1) % SeqNumbers \in 0 .. SeqNumbers - 1
  BY <1>1, <1>2
<1>4. QED
  BY <1>2, <1>3, SeqNumField DEF TakeSeq

LEMMA TimerAdded ==
  ASSUME NEW g \in Client, NEW type \in TimerTypes
  PROVE  /\ AddTimer(g, type) \in Client
         /\ AddTimer(g, type).state = g.state
         /\ AddTimer(g, type).regTimeout = g.regTimeout
         /\ AddTimer(g, type).timers = [g.timers EXCEPT ![type] = @ + 1]
<1> DEFINE t == [g.timers EXCEPT ![type] = @ + 1]
<1>1. t \in Timers
  BY SMTT(30), ClientFields DEF Timers, TimerTypes
<1>2. AddTimer(g, type) = [g EXCEPT !.timers = t]
  BY DEF AddTimer
<1> HIDE DEF t
<1>3. QED
  BY <1>1, <1>2, TimersField DEF t

LEMMA TimerDeleted ==
  ASSUME NEW g \in Client, NEW type \in TimerTypes
  PROVE  /\ DeleteTimer(g, type) \in Client
         /\ DeleteTimer(g, type).state = g.state
         /\ DeleteTimer(g, type).regTimeout = g.regTimeout
         /\ DeleteTimer(g, type).timers =
              [g.timers EXCEPT ![type] = IF @ > 0 THEN @ - 1 ELSE 0]
<1> DEFINE t == [g.timers EXCEPT ![type] = IF @ > 0 THEN @ - 1 ELSE 0]
<1>1. t \in Timers
  BY ClientFields DEF Timers, TimerTypes
<1>2. DeleteTimer(g, type) = [g EXCEPT !.timers = t]
  BY DEF DeleteTimer
<1> HIDE DEF t
<1>3. QED
  BY <1>1, <1>2, TimersField DEF t

(* A request that is sent starts a timer of its type; one that is not fails *)
(* the client.                                                              *)
StartsTimer(g, h, type) ==
  /\ h.state = g.state /\ h.regTimeout = g.regTimeout
  /\ h.timers = [g.timers EXCEPT ![type] = @ + 1]

LEMMA CountedOnTheWay ==
  ASSUME NEW g \in Client, NEW type \in {"GRQ", "RRQ"}
  PROVE  /\ [g EXCEPT !.onTheWay[type] = @ + 1] \in Client
         /\ SameState(g, [g EXCEPT !.onTheWay[type] = @ + 1])
<1> DEFINE w == [g.onTheWay EXCEPT ![type] = @ + 1]
<1>1. g.onTheWay \in OnTheWay
  BY ClientFields
<1>2. w \in OnTheWay
  BY <1>1 DEF OnTheWay
<1> HIDE DEF w
<1>3. [g EXCEPT !.onTheWay = w] \in Client /\ SameState(g, [g EXCEPT !.onTheWay = w])
  BY <1>2, OnTheWayField
<1>4. QED
  BY <1>3 DEF w

LEMMA RequestSent ==
  ASSUME NEW g \in Client, NEW type \in {"GRQ", "RRQ"}
  PROVE  /\ Request(g, type, TRUE) \in Client
         /\ StartsTimer(g, Request(g, type, TRUE), type)
<1> DEFINE n == TakeSeq(g)
           h == [n EXCEPT !.onTheWay[type] = @ + 1]
<1>1. n \in Client /\ SameState(g, n)
  BY NumberTaken
<1>2. Request(g, type, TRUE) = AddTimer(h, type)
  BY Zenon DEF Request
<1> HIDE DEF n
<1>3. h \in Client /\ SameState(n, h)
  BY <1>1, CountedOnTheWay
<1> HIDE DEF h
<1>4. h.state = g.state /\ h.regTimeout = g.regTimeout /\ h.timers = g.timers
  BY <1>1, <1>3 DEF SameState
<1>5. type \in TimerTypes
  BY DEF TimerTypes
<1>6. /\ AddTimer(h, type) \in Client
      /\ AddTimer(h, type).state = h.state
      /\ AddTimer(h, type).regTimeout = h.regTimeout
      /\ AddTimer(h, type).timers = [h.timers EXCEPT ![type] = @ + 1]
  BY <1>3, <1>5, TimerAdded
<1>7. QED
  BY <1>2, <1>4, <1>6, Zenon DEF StartsTimer

LEMMA RequestFails ==
  ASSUME NEW g \in Client, NEW type \in {"GRQ", "RRQ"}
  PROVE  /\ Request(g, type, FALSE) \in Client
         /\ Request(g, type, FALSE).state = "Failed"
<1> DEFINE n == TakeSeq(g)
           h == [n EXCEPT !.state = "Failed"]
<1>1. n \in Client
  BY NumberTaken
<1>2. Request(g, type, FALSE) = h
  BY Zenon DEF Request, Fails
<1> HIDE DEF n
<1>3. "Failed" \in ClientState
  BY DEF ClientState
<1>4. h \in Client /\ h.state = "Failed"
  BY <1>1, <1>3, StateField
<1> HIDE DEF h
<1>5. QED
  BY <1>2, <1>4, Zenon

(* What SendGRQ and SendRRQ leave. *)
Requested(g, h, type) ==
  h \in Client /\ (StartsTimer(g, h, type) \/ h.state = "Failed")

LEMMA Sends ==
  ASSUME NEW g \in Client, NEW ok \in BOOLEAN
  PROVE  Requested(g, SendGRQ(g, ok), "GRQ") /\ Requested(g, SendRRQ(g, ok), "RRQ")
<1>1. CASE ok = TRUE
  BY <1>1, RequestSent DEF SendGRQ, SendRRQ, Requested
<1>2. CASE ok = FALSE
  BY <1>2, RequestFails DEF SendGRQ, SendRRQ, Requested
<1>3. QED
  BY <1>1, <1>2

LEMMA ClientGivesUp ==
  ASSUME NEW g \in Client
  PROVE  /\ GivesUp(g) \in Client /\ Fails(g) \in Client
         /\ GivesUp(g).state = "GkErr" /\ Fails(g).state = "Failed"
  BY StateField DEF GivesUp, Fails, ClientState
-----------------------------------------------------------------------------
(* Discovery and registration: what each function leaves.                   *)

Good(h) == h \in Client /\ Moves(h)

Gone == {"None", "GkErr", "Failed"}

LEMMA GoodSame ==
  ASSUME NEW g, Good(g), NEW h \in Client, SameState(g, h)
  PROVE  Good(h)
  BY DEF Good, Moves, SameState

LEMMA GoodGone ==
  ASSUME NEW h \in Client, h.state \in Gone
  PROVE  Good(h)
  BY DEF Good, Moves, Gone

LEMMA SendGRQGood ==
  ASSUME NEW g \in Client, g.state = "Idle", NEW ok \in BOOLEAN
  PROVE  Good(SendGRQ(g, ok))
<1> DEFINE h == SendGRQ(g, ok)
<1>1. Requested(g, h, "GRQ")
  BY Sends
<1>2. g.timers \in Timers
  BY ClientFields
<1> SUFFICES Good(h)
  OBVIOUS
<1> HIDE DEF h
<1>3. CASE StartsTimer(g, h, "GRQ")
  BY <1>1, <1>2, <1>3 DEF Requested, StartsTimer, Good, Moves, Timers
<1>4. CASE h.state = "Failed"
  BY <1>1, <1>4, GoodGone DEF Requested, Gone
<1>5. QED
  BY <1>1, <1>3, <1>4 DEF Requested

LEMMA SendRRQGood ==
  ASSUME NEW g \in Client, g.state = "Discovered", NEW ok \in BOOLEAN
  PROVE  Good(SendRRQ(g, ok))
<1> DEFINE h == SendRRQ(g, ok)
<1>1. Requested(g, h, "RRQ")
  BY Sends
<1>2. g.timers \in Timers
  BY ClientFields
<1> SUFFICES Good(h)
  OBVIOUS
<1> HIDE DEF h
<1>3. CASE StartsTimer(g, h, "RRQ")
  BY <1>1, <1>2, <1>3 DEF Requested, StartsTimer, Good, Moves, Timers
<1>4. CASE h.state = "Failed"
  BY <1>1, <1>4, GoodGone DEF Requested, Gone
<1>5. QED
  BY <1>1, <1>3, <1>4 DEF Requested

LEMMA StartGood ==
  ASSUME NEW g \in Client, g.state = "Idle", NEW ok \in BOOLEAN
  PROVE  Good(Start(g, ok))
<1> DEFINE h == [g EXCEPT !.discoveryComplete = FALSE]
<1>1. h \in Client /\ SameState(g, h)
  BY DiscoveryField
<1> HIDE DEF h
<1>2. h.state = "Idle"
  BY <1>1 DEF SameState
<1>3. Good(SendGRQ(h, ok))
  BY <1>1, <1>2, SendGRQGood
<1>4. QED
  BY <1>3 DEF Start, h

LEMMA GivesUpGood ==
  ASSUME NEW g \in Client
  PROVE  Good(GivesUp(g)) /\ Good(Fails(g))
  BY ClientGivesUp, GoodGone DEF Gone

LEMMA GatekeeperRejectGood ==
  ASSUME NEW g, Good(g)
  PROVE  Good(HandleGatekeeperReject(g))
<1>1. DeleteTimer(g, "GRQ") \in Client
  BY TimerDeleted DEF Good, TimerTypes
<1>2. QED
  BY <1>1, GivesUpGood DEF HandleGatekeeperReject

LEMMA GatekeeperConfirmGood ==
  ASSUME NEW g, Good(g), NEW answer, NEW ok \in BOOLEAN
  PROVE  Good(HandleGatekeeperConfirm(g, answer, ok))
<1> DEFINE d == [g EXCEPT !.discoveryComplete = TRUE]
           e == [d EXCEPT !.state = "Discovered"]
           h == DeleteTimer(e, "GRQ")
<1>1. g \in Client
  BY DEF Good
<1>2. d \in Client
  BY <1>1, DiscoveryField
<1>3. e \in Client /\ e.state = "Discovered"
  <2> HIDE DEF d
  <2>1. QED
    BY <1>2, StateField DEF ClientState
<1>4. h \in Client /\ h.state = "Discovered"
  <2> HIDE DEF e
  <2>1. QED
    BY <1>3, TimerDeleted DEF TimerTypes
<1>5. Good(SendRRQ(h, ok))
  <2> HIDE DEF h
  <2>1. QED
    BY <1>4, SendRRQGood
<1>6. e = [g EXCEPT !.discoveryComplete = TRUE, !.state = "Discovered"]
  BY DEF Client
<1> HIDE DEF d, e
<1>7. Good(SendRRQ(DeleteTimer(
             [g EXCEPT !.discoveryComplete = TRUE, !.state = "Discovered"], "GRQ"), ok))
  BY <1>5, <1>6
<1>8. Good(g) /\ Good(GivesUp(g))
  BY <1>1, GivesUpGood
<1>9. QED
  BY <1>7, <1>8, Zenon DEF HandleGatekeeperConfirm

LEMMA RegistrationConfirmGood ==
  ASSUME NEW g, Good(g), NEW answer
  PROVE  Good(HandleRegistrationConfirm(g, answer))
<1> DEFINE k == [g EXCEPT !.regTimeout = TRUE]
           h == IF answer = "RCF" THEN AddTimer(k, "REG") ELSE [g EXCEPT !.regTimeout = FALSE]
           d == DeleteTimer(h, "RRQ")
           f == [d EXCEPT !.state = "Registered"]
<1>1. g \in Client
  BY DEF Good
<1>2. k \in Client /\ k.timers \in Timers
  BY <1>1, RegTimeoutField, ClientFields
<1>3. h \in Client
  <2>1. AddTimer(k, "REG") \in Client
    <3> HIDE DEF k
    <3>1. QED
      BY <1>2, TimerAdded DEF TimerTypes
  <2>2. QED
    BY <1>1, <2>1, RegTimeoutField, Zenon
<1>4. h.regTimeout => h.timers.REG > 0
  <2>1. CASE answer = "RCF"
    <3>1. h = AddTimer(k, "REG")
      BY <2>1
    <3> HIDE DEF k, h
    <3>2. h.timers = [k.timers EXCEPT !["REG"] = @ + 1]
      BY <1>2, <3>1, TimerAdded DEF TimerTypes
    <3>3. QED
      BY <1>2, <3>2 DEF Timers
  <2>2. CASE answer # "RCF"
    BY <1>1, <2>2, RegTimeoutField
  <2>3. QED
    BY <2>1, <2>2
<1> HIDE DEF h
<1>5. /\ d \in Client /\ d.regTimeout = h.regTimeout
      /\ d.timers = [h.timers EXCEPT !["RRQ"] = IF @ > 0 THEN @ - 1 ELSE 0]
  BY <1>3, TimerDeleted DEF TimerTypes
<1> HIDE DEF d
<1>6. h.timers \in Timers /\ d.timers \in Timers
  BY <1>3, <1>5, ClientFields
<1>7. d.regTimeout => d.timers.REG + d.timers.RRQ > 0
  BY <1>4, <1>5, <1>6 DEF Timers
<1>8. /\ f \in Client /\ f.state = "Registered"
      /\ f.regTimeout = d.regTimeout /\ f.timers = d.timers
  BY <1>5, StateField DEF ClientState
<1> HIDE DEF f
<1>9. Good(f)
  BY <1>7, <1>8 DEF Good, Moves
<1>10. QED
  BY <1>9, Zenon DEF HandleRegistrationConfirm, f, d, h, k

LEMMA RegistrationRejectGood ==
  ASSUME NEW g \in Client, NEW answer, NEW ok \in BOOLEAN
  PROVE  Good(HandleRegistrationReject(g, answer, ok))
<1> DEFINE h == DeleteTimer(g, "RRQ")
           i == [h EXCEPT !.discoveryComplete = FALSE, !.state = "Idle",
                          !.rrqRetries = 0, !.grqRetries = 0]
           d == [h EXCEPT !.state = "Discovered", !.rrqRetries = 0]
<1>1. h \in Client
  BY TimerDeleted DEF TimerTypes
<1> HIDE DEF h
<1>2. i \in Client /\ i.state = "Idle"
  BY <1>1 DEF Client, ClientState
<1>3. d \in Client /\ d.state = "Discovered"
  BY <1>1 DEF Client, ClientState
<1> HIDE DEF i, d
<1>4. Good(SendGRQ(i, ok)) /\ Good(SendRRQ(d, ok)) /\ Good(GivesUp(h))
  BY <1>1, <1>2, <1>3, SendGRQGood, SendRRQGood, GivesUpGood
<1>5. QED
  BY <1>4, Zenon DEF HandleRegistrationReject, h, i, d

LEMMA UnregistrationRequestGood ==
  ASSUME NEW g, Good(g), NEW everything, NEW okUCF, NEW ok \in BOOLEAN
  PROVE  Good(HandleUnregistrationRequest(g, everything, okUCF, ok))
<1> DEFINE h == IF okUCF THEN g ELSE Fails(g)
           d == [h EXCEPT !.rrqRetries = 0, !.state = "Discovered"]
<1>1. Good(g) /\ Good(Fails(g))
  BY GivesUpGood DEF Good
<1>2. Good(h)
  BY <1>1, Zenon
<1> HIDE DEF h
<1>3. d \in Client /\ d.state = "Discovered"
  BY <1>2 DEF Client, ClientState, Good
<1> HIDE DEF d
<1>4. Good(SendRRQ(d, ok))
  BY <1>3, SendRRQGood
<1>5. QED
  BY <1>2, <1>4, Zenon DEF HandleUnregistrationRequest, h, d

(* The timer that has fired is replaced by that of the request.             *)
LEMMA Replaced ==
  ASSUME NEW g, Good(g), NEW h, NEW type \in {"GRQ", "RRQ"}, NEW over \in TimerTypes,
         Requested(g, h, type), over = type \/ (over = "REG" /\ type = "RRQ")
  PROVE  Good(DeleteTimer(h, over))
<1> DEFINE d == DeleteTimer(h, over)
<1>1. h \in Client /\ h.timers \in Timers /\ g.timers \in Timers
  BY ClientFields DEF Requested, Good
<1>2. /\ d \in Client /\ d.state = h.state /\ d.regTimeout = h.regTimeout
      /\ d.timers = [h.timers EXCEPT ![over] = IF @ > 0 THEN @ - 1 ELSE 0]
  BY <1>1, TimerDeleted
<1> SUFFICES Good(d)
  OBVIOUS
<1> HIDE DEF d
<1>3. CASE StartsTimer(g, h, type)
  <2>1. /\ d.state = g.state /\ d.regTimeout = g.regTimeout
        /\ h.timers = [g.timers EXCEPT ![type] = @ + 1]
    BY <1>2, <1>3 DEF StartsTimer
  <2>2. CASE over = type
    <3>1. d.timers = g.timers
      BY <1>1, <1>2, <2>1, <2>2 DEF Timers
    <3>2. QED
      BY <1>2, <2>1, <3>1 DEF Good, Moves
  <2>3. CASE over = "REG" /\ type = "RRQ"
    <3>1. d.timers.GRQ = g.timers.GRQ /\ d.timers.RRQ > 0 /\ d.timers.REG >= 0
      BY <1>1, <1>2, <2>1, <2>3 DEF Timers
    <3>2. d.timers.REG \in Nat /\ d.timers.RRQ \in Nat
      BY <1>2, ClientFields, TimersFields
    <3>3. QED
      BY <1>2, <2>1, <3>1, <3>2 DEF Good, Moves
  <2>4. QED
    BY <2>2, <2>3
<1>4. CASE h.state = "Failed"
  BY <1>2, <1>4, GoodGone DEF Gone
<1>5. QED
  BY <1>3, <1>4 DEF Requested

LEMMA REGTimerGood ==
  ASSUME NEW g, Good(g), NEW ok \in BOOLEAN
  PROVE  Good(REGTimerExpired(g, ok))
<1>1. Requested(g, SendRRQ(g, ok), "RRQ")
  BY Sends DEF Good
<1>2. Good(DeleteTimer(SendRRQ(g, ok), "REG"))
  BY <1>1, Replaced DEF TimerTypes
<1>3. QED
  BY <1>2 DEF REGTimerExpired

LEMMA GRQTimerGood ==
  ASSUME NEW g, Good(g), NEW ok \in BOOLEAN
  PROVE  Good(GRQTimerExpired(g, ok))
<1> DEFINE s == SendGRQ(g, ok)
           n == IF ok THEN s.grqRetries + 1 ELSE s.grqRetries
           h == [s EXCEPT !.grqRetries = n]
<1>1. Requested(g, s, "GRQ")
  BY Sends DEF Good
<1> HIDE DEF s
<1>2. n \in Nat
  <2>1. s.grqRetries \in Nat
    BY <1>1, ClientFields DEF Requested
  <2>2. QED
    BY <2>1
<1> HIDE DEF n
<1>3. h \in Client /\ SameState(s, h)
  BY <1>1, <1>2, RetriesField DEF Requested
<1> HIDE DEF h
<1>4. Requested(g, h, "GRQ")
  BY <1>1, <1>3 DEF Requested, SameState, StartsTimer
<1>5. Good(DeleteTimer(h, "GRQ"))
  BY <1>4, Replaced DEF TimerTypes
<1>6. Good(DeleteTimer(GivesUp(g), "GRQ"))
  <2>1. GivesUp(g) \in Client /\ GivesUp(g).state = "GkErr"
    BY ClientGivesUp DEF Good
  <2>2. QED
    BY <2>1, TimerDeleted, GoodGone DEF TimerTypes, Gone
<1>7. QED
  BY <1>5, <1>6, Zenon DEF GRQTimerExpired, h, n, s

LEMMA RRQTimerGood ==
  ASSUME NEW g, Good(g), NEW ok \in BOOLEAN
  PROVE  Good(RRQTimerExpired(g, ok))
<1> DEFINE s == SendRRQ(g, ok)
           n == IF ok THEN s.rrqRetries + 1 ELSE s.rrqRetries
           h == [s EXCEPT !.rrqRetries = n]
<1>1. Requested(g, s, "RRQ")
  BY Sends DEF Good
<1> HIDE DEF s
<1>2. n \in Nat
  <2>1. s.rrqRetries \in Nat
    BY <1>1, ClientFields DEF Requested
  <2>2. QED
    BY <2>1
<1> HIDE DEF n
<1>3. h \in Client /\ SameState(s, h)
  BY <1>1, <1>2, RetriesField DEF Requested
<1> HIDE DEF h
<1>4. Requested(g, h, "RRQ")
  BY <1>1, <1>3 DEF Requested, SameState, StartsTimer
<1>5. Good(DeleteTimer(h, "RRQ"))
  BY <1>4, Replaced DEF TimerTypes
<1>6. Good(DeleteTimer(GivesUp(g), "RRQ"))
  <2>1. GivesUp(g) \in Client /\ GivesUp(g).state = "GkErr"
    BY ClientGivesUp DEF Good
  <2>2. QED
    BY <2>1, TimerDeleted, GoodGone DEF TimerTypes, Gone
<1>7. QED
  BY <1>5, <1>6, Zenon DEF RRQTimerExpired, h, n, s
-----------------------------------------------------------------------------
(* Lists: the first entry that matches is one of the list, and a list from  *)
(* which it has been taken is still one.                                    *)

(* The searches, each with a name to cite it by. *)
FirstSeq(s, seq)         == SelectInSeq(s, LAMBDA e : e.seq = seq)
FirstReference(s, c)     == SelectInSeq(s, LAMBDA e : SameReference(e.call, c))
WithoutSeq(s, seq)       == RemoveFirstMatch(s, LAMBDA e : e.seq = seq)
WithoutReference(s, c)   == RemoveFirstMatch(s, LAMBDA e : SameReference(e.call, c))
WithoutValue(s, v)       == RemoveFirstMatch(s, LAMBDA p : p = v)
WithoutTimer(s, c)       == RemoveFirstMatch(s, LAMBDA p : p # "NULL" /\ SameReference(p, c))

LEMMA SelectedSeq ==
  ASSUME NEW S, NEW s \in Seq(S), NEW seq
  PROVE  FirstSeq(s, seq) \in 0 .. Len(s)
<1> DEFINE I == {i \in 1 .. Len(s) : s[i].seq = seq}
<1>1. FirstSeq(s, seq) = IF I # {} THEN Min(I) ELSE 0
  BY DEF FirstSeq, SelectInSeq
<1>2. Len(s) \in Nat /\ I \in SUBSET (1 .. Len(s))
  OBVIOUS
<1> HIDE DEF I
<1>3. I # {} => Min(I) \in 1 .. Len(s)
  BY <1>2, LeastIndex
<1>4. QED
  BY <1>1, <1>2, <1>3

LEMMA SelectedReference ==
  ASSUME NEW S, NEW s \in Seq(S), NEW c
  PROVE  FirstReference(s, c) \in 0 .. Len(s)
<1> DEFINE I == {i \in 1 .. Len(s) : SameReference(s[i].call, c)}
<1>1. FirstReference(s, c) = IF I # {} THEN Min(I) ELSE 0
  BY DEF FirstReference, SelectInSeq
<1>2. Len(s) \in Nat /\ I \in SUBSET (1 .. Len(s))
  OBVIOUS
<1> HIDE DEF I
<1>3. I # {} => Min(I) \in 1 .. Len(s)
  BY <1>2, LeastIndex
<1>4. QED
  BY <1>1, <1>2, <1>3

LEMMA RemovedSeq ==
  ASSUME NEW S, NEW s \in Seq(S), NEW seq
  PROVE  WithoutSeq(s, seq) \in Seq(S)
<1> DEFINE I == {i \in 1 .. Len(s) : s[i].seq = seq}
<1>1. CASE I = {}
  BY <1>1 DEF WithoutSeq, RemoveFirstMatch
<1>2. CASE I # {}
  <2>1. WithoutSeq(s, seq) = RemoveAt(s, Min(I))
    BY <1>2 DEF WithoutSeq, RemoveFirstMatch, SelectInSeq
  <2>2. Len(s) \in Nat /\ I \in SUBSET (1 .. Len(s))
    OBVIOUS
  <2> HIDE DEF I
  <2>3. QED
    BY <1>2, <2>1, <2>2, LeastIndex, RemoveAtType
<1>3. QED
  BY <1>1, <1>2

LEMMA RemovedReference ==
  ASSUME NEW S, NEW s \in Seq(S), NEW c
  PROVE  WithoutReference(s, c) \in Seq(S)
<1> DEFINE I == {i \in 1 .. Len(s) : SameReference(s[i].call, c)}
<1>1. CASE I = {}
  BY <1>1 DEF WithoutReference, RemoveFirstMatch
<1>2. CASE I # {}
  <2>1. WithoutReference(s, c) = RemoveAt(s, Min(I))
    BY <1>2 DEF WithoutReference, RemoveFirstMatch, SelectInSeq
  <2>2. Len(s) \in Nat /\ I \in SUBSET (1 .. Len(s))
    OBVIOUS
  <2> HIDE DEF I
  <2>3. QED
    BY <1>2, <2>1, <2>2, LeastIndex, RemoveAtType
<1>3. QED
  BY <1>1, <1>2

LEMMA RemovedTimer ==
  ASSUME NEW S, NEW s \in Seq(S), NEW v
  PROVE  WithoutValue(s, v) \in Seq(S)
<1> DEFINE I == {i \in 1 .. Len(s) : s[i] = v}
<1>1. CASE I = {}
  BY <1>1 DEF WithoutValue, RemoveFirstMatch
<1>2. CASE I # {}
  <2>1. WithoutValue(s, v) = RemoveAt(s, Min(I))
    BY <1>2 DEF WithoutValue, RemoveFirstMatch, SelectInSeq
  <2>2. Len(s) \in Nat /\ I \in SUBSET (1 .. Len(s))
    OBVIOUS
  <2> HIDE DEF I
  <2>3. QED
    BY <1>2, <2>1, <2>2, LeastIndex, RemoveAtType
<1>3. QED
  BY <1>1, <1>2

LEMMA RemovedOwner ==
  ASSUME NEW S, NEW s \in Seq(S), NEW c
  PROVE  WithoutTimer(s, c) \in Seq(S)
<1> DEFINE I == {i \in 1 .. Len(s) : s[i] # "NULL" /\ SameReference(s[i], c)}
<1>1. CASE I = {}
  BY <1>1 DEF WithoutTimer, RemoveFirstMatch
<1>2. CASE I # {}
  <2>1. WithoutTimer(s, c) = RemoveAt(s, Min(I))
    BY <1>2 DEF WithoutTimer, RemoveFirstMatch, SelectInSeq
  <2>2. Len(s) \in Nat /\ I \in SUBSET (1 .. Len(s))
    OBVIOUS
  <2> HIDE DEF I
  <2>3. QED
    BY <1>2, <2>1, <2>2, LeastIndex, RemoveAtType
<1>3. QED
  BY <1>1, <1>2

-----------------------------------------------------------------------------
(* Admission: what each function leaves.                                    *)

Owners == Call \cup {"NULL"}

LEMMA ListFields ==
  ASSUME NEW g \in Client, NEW a \in Seq(Owners),
         NEW b \in Seq(AdmissionInfo), NEW c \in Seq(AdmissionInfo)
  PROVE  /\ [g EXCEPT !.arqTimers = a, !.callsPendingList = b,
                       !.callsAdmittedList = c] \in Client
         /\ SameState(g, [g EXCEPT !.arqTimers = a, !.callsPendingList = b,
                                   !.callsAdmittedList = c])
         /\ [g EXCEPT !.arqTimers = a, !.callsPendingList = b] \in Client
         /\ SameState(g, [g EXCEPT !.arqTimers = a, !.callsPendingList = b])
         /\ [g EXCEPT !.callsPendingList = b, !.callsAdmittedList = c] \in Client
         /\ SameState(g, [g EXCEPT !.callsPendingList = b, !.callsAdmittedList = c])
         /\ [g EXCEPT !.callsPendingList = b, !.callsAdmittedList = c].arqTimers
              = g.arqTimers
  BY DEF Client, SameState, Owners

(* The lists change, or the client has failed; a timer may have been added. *)
Listed(g, h) ==
  /\ h \in Client
  /\ SameState(g, h) \/ h.state \in Gone
  /\ Len(h.arqTimers) >= Len(g.arqTimers)

LEMMA ListedGood ==
  ASSUME NEW g, Good(g), NEW h, Listed(g, h)
  PROVE  Good(h)
  BY GoodSame, GoodGone DEF Listed

LEMMA ARQTimerAdded ==
  ASSUME NEW g \in Client, NEW p \in Owners, NEW ok \in BOOLEAN
  PROVE  Listed(g, AddARQTimer(g, p, ok))
<1>1. g.arqTimers \in Seq(Owners)
  BY ClientFields DEF Owners
<1>2. CASE ok = TRUE
  <2> DEFINE l == Append(g.arqTimers, p)
             h == [g EXCEPT !.arqTimers = l]
  <2>1. l \in Seq(Owners) /\ Len(l) >= Len(g.arqTimers)
    BY <1>1
  <2>2. AddARQTimer(g, p, ok) = h
    BY <1>2 DEF AddARQTimer
  <2> HIDE DEF l
  <2>3. h \in Client /\ SameState(g, h) /\ h.arqTimers = l
    BY <2>1 DEF Client, SameState, Owners
  <2> HIDE DEF h
  <2>4. QED
    BY <2>1, <2>2, <2>3 DEF Listed
<1>3. CASE ok = FALSE
  <2>1. AddARQTimer(g, p, ok) = Fails(g)
    BY <1>3 DEF AddARQTimer
  <2>2. Fails(g).arqTimers = g.arqTimers
    BY DEF Fails, Client
  <2>3. QED
    BY <1>1, <2>1, <2>2, ClientGivesUp DEF Listed, Gone
<1>4. QED
  BY <1>2, <1>3

LEMMA ListedTwice ==
  ASSUME NEW g \in Client, NEW h \in Client, NEW k,
         SameState(g, h), h.arqTimers = g.arqTimers, Listed(h, k)
  PROVE  Listed(g, k)
  BY DEF Listed, SameState

LEMMA AdmissionRequestSent ==
  ASSUME NEW g \in Client, NEW c \in Call, NEW ok \in BOOLEAN
  PROVE  Listed(g, SendAdmissionRequest(g, c, ok))
<1> DEFINE entry == [call |-> c, retries |-> 0, seq |-> RequestNumber(g)]
           n == TakeSeq(g)
           l == Append(n.callsPendingList, entry)
           h == [n EXCEPT !.callsPendingList = l]
<1>1. entry \in AdmissionInfo
  BY NumberTaken DEF AdmissionInfo
<1>2. n \in Client /\ SameState(g, n) /\ n.arqTimers = g.arqTimers
  BY NumberTaken
<1>3. SendAdmissionRequest(g, c, ok) = AddARQTimer(h, c, ok)
  BY Zenon DEF SendAdmissionRequest
<1> HIDE DEF entry, n
<1>4. l \in Seq(AdmissionInfo)
  BY <1>1, <1>2, ClientFields
<1> HIDE DEF l
<1>5. h \in Client /\ SameState(n, h) /\ h.arqTimers = n.arqTimers
  BY <1>2, <1>4, PendingField
<1> HIDE DEF h
<1>6. Listed(h, AddARQTimer(h, c, ok))
  BY <1>5, ARQTimerAdded DEF Owners
<1>7. SameState(g, h) /\ h.arqTimers = g.arqTimers
  BY <1>2, <1>5 DEF SameState
<1>8. QED
  BY <1>3, <1>5, <1>6, <1>7, ListedTwice

LEMMA AdmissionRequestSentAgain ==
  ASSUME NEW g \in Client, NEW c, NEW ok \in BOOLEAN
  PROVE  Listed(g, ResendAdmissionRequest(g, c, ok))
<1> DEFINE pending == g.callsPendingList
           i == FirstReference(pending, c)
           n == TakeSeq(g)
           l == [pending EXCEPT ![i].seq = RequestNumber(g)]
           h == [n EXCEPT !.callsPendingList = l]
<1>1. /\ n \in Client /\ SameState(g, n) /\ n.arqTimers = g.arqTimers
      /\ n.callsPendingList = pending
  BY NumberTaken
<1>2. RequestNumber(g) \in 1 .. SeqNumbers - 1
  BY NumberTaken
<1>3. pending \in Seq(AdmissionInfo)
  BY ClientFields
<1>4. i \in 0 .. Len(pending)
  BY <1>3, SelectedReference
<1>5. ASSUME NEW p \in Owners
      PROVE  Listed(g, AddARQTimer(n, p, ok))
  <2> HIDE DEF n
  <2>1. QED
    BY <1>1, <1>5, ARQTimerAdded, ListedTwice
<1>6. CASE i # 0
  <2>1. pending[i] \in AdmissionInfo /\ pending[i].call \in Owners
    <3>1. pending[i] \in AdmissionInfo
      <4> HIDE DEF pending, i
      <4>1. QED
        BY <1>3, <1>4, <1>6, ElementOfSeq
    <3>2. QED
      BY <3>1 DEF AdmissionInfo, Owners
  <2>2. ResendAdmissionRequest(g, c, ok)
          = AddARQTimer([n EXCEPT !.callsPendingList[i].seq = RequestNumber(g)],
                        pending[i].call, ok)
    BY <1>6, Zenon DEF ResendAdmissionRequest, FirstReference
  <2>3. [n EXCEPT !.callsPendingList[i].seq = RequestNumber(g)]
          = [n EXCEPT !.callsPendingList = [n.callsPendingList EXCEPT ![i].seq = RequestNumber(g)]]
    BY Zenon
  <2>4. [n EXCEPT !.callsPendingList[i].seq = RequestNumber(g)] = h
    BY <1>1, <2>3, Zenon
  <2>5. l \in Seq(AdmissionInfo)
    <3> DEFINE e == [pending[i] EXCEPT !.seq = RequestNumber(g)]
    <3>1. e \in AdmissionInfo
      BY <1>2, <2>1 DEF AdmissionInfo
    <3>2. l = [pending EXCEPT ![i] = e]
      BY Zenon
    <3> HIDE DEF e, pending, i
    <3>3. QED
      BY SMTT(30), <1>3, <1>4, <1>6, <3>1, <3>2, ExceptSeq
  <2> HIDE DEF n, l
  <2>6. h \in Client /\ SameState(n, h) /\ h.arqTimers = n.arqTimers
    BY <1>1, <2>5, PendingField
  <2> HIDE DEF h
  <2>7. SameState(g, h) /\ h.arqTimers = g.arqTimers
    BY <1>1, <2>6 DEF SameState
  <2>8. Listed(g, AddARQTimer(h, pending[i].call, ok))
    BY <2>1, <2>6, <2>7, ARQTimerAdded, ListedTwice
  <2>9. QED
    BY <2>2, <2>4, <2>8, Zenon
<1>7. CASE i = 0 /\ pending # << >>
  <2>1. Last(pending).call \in Owners
    <3>1. Len(pending) \in 1 .. Len(pending)
      BY <1>3, <1>7, EmptySeq
    <3>2. pending[Len(pending)] \in AdmissionInfo
      BY <1>3, <3>1, ElementOfSeq
    <3>3. QED
      BY <3>2 DEF Last, AdmissionInfo, Owners
  <2>2. ResendAdmissionRequest(g, c, ok) = AddARQTimer(n, Last(pending).call, ok)
    BY <1>7, Zenon DEF ResendAdmissionRequest, FirstReference
  <2>3. QED
    BY <2>1, <2>2, <1>5, Zenon
<1>8. CASE i = 0 /\ pending = << >>
  <2>1. ResendAdmissionRequest(g, c, ok) = AddARQTimer(n, "NULL", ok)
    BY <1>8, Zenon DEF ResendAdmissionRequest, FirstReference
  <2>2. "NULL" \in Owners
    BY DEF Owners
  <2>3. QED
    BY <2>1, <2>2, <1>5, Zenon
<1>9. QED
  BY <1>6, <1>7, <1>8, Zenon

LEMMA AdmissionConfirmGood ==
  ASSUME NEW g, Good(g), NEW seq
  PROVE  Good(HandleAdmissionConfirm(g, seq))
<1> DEFINE i == FirstSeq(g.callsPendingList, seq)
           entry == g.callsPendingList[i]
           a == WithoutValue(g.arqTimers, entry.call)
           b == RemoveAt(g.callsPendingList, i)
           c == Append(g.callsAdmittedList, entry)
           h == [g EXCEPT !.arqTimers = a, !.callsPendingList = b, !.callsAdmittedList = c]
<1>1. g \in Client
  BY DEF Good
<1>2. /\ g.callsPendingList \in Seq(AdmissionInfo)
      /\ g.callsAdmittedList \in Seq(AdmissionInfo) /\ g.arqTimers \in Seq(Owners)
  BY <1>1, ClientFields DEF Owners
<1>3. i \in 0 .. Len(g.callsPendingList)
  BY <1>2, SelectedSeq
<1>4. CASE i # 0
  <2>1. HandleAdmissionConfirm(g, seq) = h
    BY <1>4, Zenon DEF HandleAdmissionConfirm, FirstSeq, WithoutValue
  <2>2. a \in Seq(Owners)
    BY <1>2, RemovedTimer
  <2> HIDE DEF i, a
  <2>3. b \in Seq(AdmissionInfo) /\ c \in Seq(AdmissionInfo)
    BY <1>2, <1>3, <1>4, RemoveAtType
  <2> HIDE DEF b, c
  <2>4. h \in Client /\ SameState(g, h)
    BY <1>1, <2>2, <2>3, ListFields
  <2>5. QED
    BY <2>1, <2>4, GoodSame
<1>5. CASE i = 0
  BY <1>5, Zenon DEF HandleAdmissionConfirm, FirstSeq, WithoutValue
<1>6. QED
  BY <1>4, <1>5

LEMMA AdmissionRejectGood ==
  ASSUME NEW g, Good(g), NEW seq
  PROVE  Good(HandleAdmissionReject(g, seq))
<1> DEFINE b == WithoutSeq(g.callsPendingList, seq)
           h == [g EXCEPT !.callsPendingList = b]
<1>1. g \in Client
  BY DEF Good
<1>2. b \in Seq(AdmissionInfo)
  BY <1>1, ClientFields, RemovedSeq
<1>3. HandleAdmissionReject(g, seq) = h
  BY Zenon DEF HandleAdmissionReject, WithoutSeq
<1> HIDE DEF b
<1>4. h \in Client /\ SameState(g, h)
  BY <1>1, <1>2, PendingField
<1>5. QED
  BY <1>3, <1>4, GoodSame

LEMMA DisengageGood ==
  ASSUME NEW g, Good(g), NEW c, NEW ok \in BOOLEAN
  PROVE  Good(SendDisengageRequest(g, c, ok))
<1> DEFINE n == TakeSeq(g)
           f == IF ok THEN n ELSE Fails(n)
           l == WithoutReference(f.callsAdmittedList, c)
           h == [f EXCEPT !.callsAdmittedList = l]
<1>1. n \in Client /\ SameState(g, n)
  BY NumberTaken DEF Good
<1>2. Good(n)
  BY <1>1, GoodSame
<1>3. Good(Fails(n))
  BY <1>1, GivesUpGood
<1>4. Good(f)
  BY <1>2, <1>3, Zenon
<1>5. SendDisengageRequest(g, c, ok) = h
  BY Zenon DEF SendDisengageRequest, WithoutReference
<1> HIDE DEF f
<1>6. l \in Seq(AdmissionInfo)
  BY <1>4, ClientFields, RemovedReference DEF Good
<1> HIDE DEF l
<1>7. h \in Client /\ SameState(f, h)
  BY <1>4, <1>6, AdmittedField DEF Good
<1>8. QED
  BY <1>4, <1>5, <1>7, GoodSame

LEMMA CleanCallGood ==
  ASSUME NEW g, Good(g), NEW c
  PROVE  Good(CleanCall(g, c))
<1> DEFINE l == WithoutReference(g.callsAdmittedList, c)
           a == WithoutTimer(g.arqTimers, c)
           b == WithoutReference(g.callsPendingList, c)
           h == [g EXCEPT !.callsAdmittedList = l]
           k == [g EXCEPT !.arqTimers = a, !.callsPendingList = b]
<1>1. g \in Client
  BY DEF Good
<1>2. g.arqTimers \in Seq(Owners)
  BY <1>1, ClientFields DEF Owners
<1>3. l \in Seq(AdmissionInfo) /\ a \in Seq(Owners) /\ b \in Seq(AdmissionInfo)
  BY <1>1, <1>2, ClientFields, RemovedReference, RemovedOwner
<1>4. CleanCall(g, c) = h \/ CleanCall(g, c) = k
  BY Zenon DEF CleanCall, WithoutReference, WithoutTimer
<1> HIDE DEF l, a, b
<1>5. /\ h \in Client /\ SameState(g, h)
      /\ k \in Client /\ SameState(g, k)
  BY <1>1, <1>3, AdmittedField, ListFields
<1> HIDE DEF h, k
<1>6. QED
  BY <1>4, <1>5, GoodSame

LEMMA RetryCounted ==
  ASSUME NEW l \in Seq(AdmissionInfo), NEW c
  PROVE  CountRetry(l, c) \in Seq(AdmissionInfo)
<1> DEFINE e(i) == [l[i] EXCEPT !.retries = @ + 1]
<1>1. ASSUME NEW i \in 1 .. Len(l)
      PROVE  l[i] \in AdmissionInfo /\ e(i) \in AdmissionInfo
  <2>1. l[i] \in AdmissionInfo
    BY <1>1, ElementOfSeq
  <2>2. QED
    BY SMTT(30), <2>1 DEF AdmissionInfo
<1>2. DOMAIN l = 1 .. Len(l) /\ Len(l) \in Nat
  BY LenProperties
<1>3. CountRetry(l, c) = [i \in 1 .. Len(l) |-> IF l[i].call = c THEN e(i) ELSE l[i]]
  BY <1>2, Zenon DEF CountRetry
<1> HIDE DEF e
<1>4. QED
  BY <1>1, <1>2, <1>3

LEMMA RetriesCounted ==
  ASSUME NEW g \in Client, NEW h, NEW c, Listed(g, h)
  PROVE  Listed(g, [h EXCEPT !.callsPendingList = CountRetry(@, c),
                             !.callsAdmittedList = CountRetry(@, c)])
<1> DEFINE a == CountRetry(h.callsPendingList, c)
           b == CountRetry(h.callsAdmittedList, c)
           k == [h EXCEPT !.callsPendingList = a, !.callsAdmittedList = b]
<1>1. h \in Client
  BY DEF Listed
<1>2. a \in Seq(AdmissionInfo) /\ b \in Seq(AdmissionInfo)
  BY <1>1, ClientFields, RetryCounted
<1>3. [h EXCEPT !.callsPendingList = CountRetry(@, c),
                !.callsAdmittedList = CountRetry(@, c)] = k
  BY <1>1 DEF Client
<1> HIDE DEF a, b
<1>4. h.arqTimers \in Seq(Owners)
  BY <1>1, ClientFields DEF Owners
<1>5. k \in Client /\ SameState(h, k) /\ k.arqTimers = h.arqTimers
  BY <1>1, <1>2, <1>4, ListFields
<1> HIDE DEF k
<1>6. Listed(g, k)
  BY <1>5 DEF Listed, SameState
<1>7. QED
  BY <1>3, <1>6

LEMMA ARQTimerGood ==
  ASSUME NEW g, Good(g), NEW i \in DOMAIN g.arqTimers, NEW ok \in BOOLEAN, NEW stale
  PROVE  Good(ARQTimerExpired(g, i, ok, stale))
<1> DEFINE c == g.arqTimers[i]
           r == ResendAdmissionRequest(g, c, ok)
           q == [r EXCEPT !.callsPendingList = CountRetry(@, c),
                          !.callsAdmittedList = CountRetry(@, c)]
           h == IF RetriesOf(g, c, stale) >= MaxRetries THEN GivesUp(g)
                ELSE IF ok THEN q ELSE r
           l == RemoveAt(h.arqTimers, i)
           k == [h EXCEPT !.arqTimers = l]
<1>1. g \in Client
  BY DEF Good
<1>2. Listed(g, r)
  BY <1>1, AdmissionRequestSentAgain
<1>3. Listed(g, q)
  <2> HIDE DEF r, c
  <2>1. QED
    BY <1>1, <1>2, RetriesCounted
<1>4. Listed(g, GivesUp(g))
  <2>1. GivesUp(g).arqTimers = g.arqTimers
    BY <1>1 DEF GivesUp, Client
  <2>2. Len(g.arqTimers) \in Nat
    BY <1>1, ClientFields, LenProperties
  <2>3. QED
    BY <1>1, <2>1, <2>2, ClientGivesUp DEF Listed, Gone
<1>5. Listed(g, h)
  <2> HIDE DEF r, q
  <2>1. QED
    BY <1>2, <1>3, <1>4, Zenon
<1>6. ARQTimerExpired(g, i, ok, stale) = k
  BY Zenon DEF ARQTimerExpired
<1> HIDE DEF h
<1>7. h \in Client /\ h.arqTimers \in Seq(Owners) /\ g.arqTimers \in Seq(Owners)
  BY <1>1, <1>5, ClientFields DEF Listed, Owners
<1>8. i \in 1 .. Len(h.arqTimers)
  BY <1>5, <1>7, LenProperties DEF Listed
<1>9. l \in Seq(Owners)
  BY <1>7, <1>8, RemoveAtType
<1> HIDE DEF l
<1>10. k \in Client /\ SameState(h, k)
  BY <1>7, <1>9, ArqTimersField DEF Owners
<1> HIDE DEF k
<1>11. Good(h)
  BY <1>5, ListedGood
<1>12. QED
  BY <1>6, <1>10, <1>11, GoodSame

LEMMA InitialClientType ==
  InitialClient \in Client /\ InitialClient.state = "Idle"
<1> DEFINE t == [GRQ |-> 0, RRQ |-> 0, REG |-> 0]
           w == [GRQ |-> 0, RRQ |-> 0]
           e == << >>
<1>1. t \in Timers /\ w \in OnTheWay
  BY DEF Timers, OnTheWay
<1>2. e \in Seq(Call \cup {"NULL"}) /\ e \in Seq(AdmissionInfo)
  BY EmptySeq
<1>3. 0 \in 0 .. SeqNumbers - 1
  BY GkAssumption
<1>4. InitialClient =
        [state |-> "Idle", discoveryComplete |-> FALSE,
         grqRetries |-> 0, rrqRetries |-> 0,
         requestSeqNum |-> 0, regTimeout |-> TRUE, timers |-> t,
         arqTimers |-> e, callsPendingList |-> e, callsAdmittedList |-> e, onTheWay |-> w]
  BY DEF InitialClient
<1> HIDE DEF t, w, e
<1>5. QED
  BY <1>1, <1>2, <1>3, <1>4 DEF Client, ClientState

LEMMA NoClientGood == Good(NoClient)
<1>1. NoClient \in Client /\ NoClient.state = "None"
  BY InitialClientType, StateField DEF NoClient, ClientState
<1>2. QED
  BY <1>1, GoodGone DEF Gone

LEMMA SurvivesGood ==
  ASSUME NEW g, Good(g)
  PROVE  Good(Survives(g))
  BY NoClientGood DEF Survives

LEMMA AnswerTaken ==
  ASSUME gk \in Client, NEW type \in {"GRQ", "RRQ"}, gk.onTheWay[type] > 0
  PROVE  TakeAnswerTo(type) \in Client /\ SameState(gk, TakeAnswerTo(type))
<1> DEFINE w == [gk.onTheWay EXCEPT ![type] = @ - 1]
<1>1. gk.onTheWay \in OnTheWay
  BY ClientFields
<1>2. w \in OnTheWay
  BY <1>1 DEF OnTheWay
<1>3. TakeAnswerTo(type) = [gk EXCEPT !.onTheWay = w]
  BY Zenon DEF TakeAnswerTo
<1> HIDE DEF w
<1>4. QED
  BY <1>2, <1>3, OnTheWayField
-----------------------------------------------------------------------------
(* The invariant, by its two parts: the client, and everything else.        *)

ClientInv ==
  /\ gk \in Client
  /\ stack = "running" => Moves(gk)
  /\ stack = "new" => gk.state = "Idle"

LEMMA ClientKept ==
  ASSUME ClientInv, [Next]_vars
  PROVE  ClientInv'
<1>1. gk \in Client
  BY DEF ClientInv
<1>2. stack = "running" => Good(gk)
  BY DEF ClientInv, Good
<1>3. ASSUME stack = "running", stack' = stack, Good(gk') PROVE ClientInv'
  BY <1>3 DEF ClientInv, Good
<1>4. ASSUME Crash PROVE ClientInv'
  BY <1>4, NoClientGood DEF Crash, ClientInv, Good
<1>5. ASSUME NEW ok \in BOOLEAN, StartStack(ok) PROVE ClientInv'
  <2>1. Good(Start(gk, ok)) /\ Good(NoClient)
    BY <1>1, <1>5, StartGood, NoClientGood DEF StartStack, ClientInv
  <2>2. Good(gk') /\ stack' = "running"
    BY <1>5, <2>1, Zenon DEF StartStack
  <2>3. QED
    BY <2>2 DEF ClientInv, Good
<1>6. ASSUME NEW ok \in BOOLEAN, GRQTimer(ok) \/ RRQTimer(ok) \/ REGTimer(ok)
      PROVE ClientInv'
  <2>1. stack = "running" /\ stack' = stack
    BY <1>6 DEF GRQTimer, RRQTimer, REGTimer, MayExpire, onlyGk
  <2>2. Good(gk')
    BY <1>2, <1>6, <2>1, GRQTimerGood, RRQTimerGood, REGTimerGood
       DEF GRQTimer, RRQTimer, REGTimer
  <2>3. QED
    BY <1>3, <2>1, <2>2
<1>7. ASSUME NEW answer, NEW ok \in BOOLEAN, ReceiveGatekeeperAnswer(answer, ok)
      PROVE ClientInv'
  <2>1. stack = "running" /\ stack' = stack /\ gk.onTheWay["GRQ"] > 0
    BY <1>7 DEF ReceiveGatekeeperAnswer, Listening, onlyGk
  <2>2. Good(TakeAnswerTo("GRQ"))
    BY <1>1, <1>2, <2>1, AnswerTaken, GoodSame
  <2>3. Good(gk')
    BY <1>7, <2>2, GatekeeperConfirmGood, GatekeeperRejectGood, SurvivesGood
       DEF ReceiveGatekeeperAnswer
  <2>4. QED
    BY <1>3, <2>1, <2>3
<1>8. ASSUME NEW answer, NEW ok \in BOOLEAN, ReceiveRegistrationAnswer(answer, ok)
      PROVE ClientInv'
  <2>1. stack = "running" /\ stack' = stack /\ gk.onTheWay["RRQ"] > 0
    BY <1>8 DEF ReceiveRegistrationAnswer, Listening
  <2>2. Good(TakeAnswerTo("RRQ")) /\ TakeAnswerTo("RRQ") \in Client
    BY <1>1, <1>2, <2>1, AnswerTaken, GoodSame
  <2>3. Good(gk')
    BY <1>8, <2>2, RegistrationConfirmGood, RegistrationRejectGood, SurvivesGood
       DEF ReceiveRegistrationAnswer
  <2>4. QED
    BY <1>3, <2>1, <2>3
<1>9. ASSUME NEW everything, NEW okUCF, NEW ok \in BOOLEAN,
             ReceiveURQ(everything, okUCF, ok)
      PROVE ClientInv'
  <2>1. stack = "running" /\ stack' = stack
    BY <1>9 DEF ReceiveURQ, Listening
  <2>2. Good(gk')
    BY <1>2, <1>9, <2>1, UnregistrationRequestGood, SurvivesGood DEF ReceiveURQ
  <2>3. QED
    BY <1>3, <2>1, <2>2
<1>10. ASSUME NEW i, NEW ok \in BOOLEAN, NEW stale, ARQTimer(i, ok, stale)
       PROVE ClientInv'
  <2>1. stack = "running" /\ i \in DOMAIN gk.arqTimers
    BY <1>10 DEF ARQTimer
  <2>2. Crash \/ (stack' = stack /\ gk' = ARQTimerExpired(gk, i, ok, stale))
    BY <1>10, Zenon DEF ARQTimer
  <2>3. Good(ARQTimerExpired(gk, i, ok, stale))
    BY <1>2, <2>1, ARQTimerGood
  <2>4. QED
    BY <1>3, <1>4, <2>1, <2>2, <2>3
<1>11. ASSUME NEW m, NEW connects, ReceiveACF(m, connects) \/ ReceiveARJ(m)
       PROVE ClientInv'
  <2>1. stack = "running" /\ stack' = stack
    BY <1>11 DEF ReceiveACF, ReceiveARJ, Listening
  <2>2. Good(gk')
    BY <1>2, <1>11, <2>1, AdmissionConfirmGood, AdmissionRejectGood DEF ReceiveACF, ReceiveARJ
  <2>3. QED
    BY <1>3, <2>1, <2>2
<1>12. ASSUME NEW c \in Call, NEW ok \in BOOLEAN, MakeCall(c, ok) \/ ReceiveSetup(c, ok)
       PROVE ClientInv'
  <2>1. stack = "running" /\ stack' = stack
    BY <1>12 DEF MakeCall, ReceiveSetup, InPass
  <2>2. gk' = gk \/ gk' = SendAdmissionRequest(gk, c, ok)
    BY <1>12, Zenon DEF MakeCall, ReceiveSetup
  <2>3. Good(SendAdmissionRequest(gk, c, ok))
    BY <1>1, <1>2, <2>1, AdmissionRequestSent, ListedGood
  <2>4. QED
    BY <1>2, <1>3, <2>1, <2>2, <2>3
<1>13. ASSUME NEW c, NEW ok \in BOOLEAN, SendReleaseComplete(c, ok) \/ ReceiveReleaseComplete(c, ok)
       PROVE ClientInv'
  <2>1. stack = "running" /\ stack' = stack
    BY <1>13 DEF SendReleaseComplete, ReceiveReleaseComplete, InPass
  <2>2. gk' = gk \/ gk' = SendDisengageRequest(gk, c, ok)
    BY <1>13, Zenon DEF SendReleaseComplete, ReceiveReleaseComplete, Disengage
  <2>3. QED
    BY <1>2, <1>3, <2>1, <2>2, DisengageGood
<1>14. ASSUME NEW c, EndCall(c) PROVE ClientInv'
  <2>1. stack = "running"
    BY <1>14 DEF EndCall, InPass
  <2>2. Crash \/ (stack' = stack /\ (gk' = gk \/ gk' = CleanCall(gk, c)))
    BY <1>14, Zenon DEF EndCall
  <2>3. QED
    BY <1>2, <1>3, <1>4, <2>1, <2>2, CleanCallGood
<1>15. ASSUME StopMonitor PROVE ClientInv'
  BY <1>15, NoClientGood DEF StopMonitor, ClientInv, Good
<1>16. ASSUME NEW type \in MayLose, Lose(type) PROVE ClientInv'
  <2>1. type \in {"GRQ", "RRQ"}
    BY SessionAssumption
  <2>2. gk' \in Client /\ SameState(gk, gk') /\ stack' = stack
    BY <1>1, <1>16, <2>1, AnswerTaken DEF Lose, onlyGk
  <2>3. QED
    BY <2>2 DEF ClientInv, Moves, SameState
<1>17. ASSUME UNCHANGED << gk, stack >> PROVE ClientInv'
  BY <1>17 DEF ClientInv
<1>18. ASSUME NEW c, HangUp(c) \/ CallEstbTimer(c) \/ SessionTimer(c) \/ PeerCloses(c)
       PROVE ClientInv'
  BY <1>17, <1>18 DEF HangUp, CallEstbTimer, SessionTimer, PeerCloses, onlyCall
<1>19. ASSUME NEW m, GkAdmits(m) \/ GkRejects(m) PROVE ClientInv'
  BY <1>17, <1>19 DEF GkAdmits, GkRejects
<1>20. SendOk \subseteq BOOLEAN
  BY SessionAssumption
<1>21. CASE RegistrationStep
  BY <1>5, <1>6, <1>7, <1>8, <1>9, <1>20, <1>21 DEF RegistrationStep
<1>22. CASE AdmissionStep
  BY <1>10, <1>11, <1>19, <1>20, <1>22 DEF AdmissionStep
<1>23. ASSUME NEW c \in Call, CallStep(c) PROVE ClientInv'
  BY <1>12, <1>13, <1>14, <1>18, <1>20, <1>23 DEF CallStep
<1>24. CASE UNCHANGED vars
  BY <1>17, <1>24 DEF vars
<1>25. QED
  BY <1>15, <1>16, <1>21, <1>22, <1>23, <1>24 DEF Next

(* The client is never left without a timer that moves it, whatever the     *)
(* gatekeeper answers, and in whatever order (NeverIdles).                  *)
THEOREM NeverIdle == Spec => []NeverIdles
<1>1. Init => ClientInv
  BY InitialClientType DEF Init, ClientInv
<1>2. ClientInv /\ [Next]_vars => ClientInv'
  BY ClientKept
<1>3. ClientInv => NeverIdles
  BY DEF ClientInv, NeverIdles, Moves
<1>4. QED
  BY <1>1, <1>2, <1>3, PTL DEF Spec
-----------------------------------------------------------------------------
(* Types.                                                                   *)

CallsInv   == call \in [Call -> CallRecord]
NetworkInv == requests \subseteq Message /\ answers \subseteq Answer /\ granted \subseteq Call
CountInv   ==
  /\ stack \in {"new", "running", "stopped", "crashed"}
  /\ upsets \in 0 .. MaxUpsets /\ unanswered \in 0 .. MaxRetries

LEMMA CallRecords ==
  ASSUME NEW x \in CallRecord, NEW c, NEW connects \in BOOLEAN
  PROVE  /\ InitialCall \in CallRecord
         /\ Cleaned(x) \in CallRecord
         /\ MarkClear(x) \in CallRecord
         /\ CallAdmitted(c, x, connects) \in CallRecord
<1>1. InitialCall \in CallRecord
  BY DEF InitialCall, CallRecord
<1>2. Cleaned(x) \in CallRecord
  BY DEF Cleaned, InitialCall, CallRecord
<1>3. MarkClear(x) \in CallRecord
  BY DEF MarkClear, CallRecord, Ending
<1>4. [x EXCEPT !.h225 = TRUE] \in CallRecord
  BY DEF CallRecord
<1>5. CallAdmitted(c, x, connects) \in CallRecord
  BY <1>3, <1>4, Zenon DEF CallAdmitted
<1>6. QED
  BY <1>1, <1>2, <1>3, <1>5

(* What a step of one call leaves of the calls. *)
LEMMA OneCall ==
  ASSUME CallsInv, NEW c \in Call, NEW x \in CallRecord, call' = [call EXCEPT ![c] = x]
  PROVE  CallsInv'
  BY DEF CallsInv

LEMMA CallsKept ==
  ASSUME CallsInv, [Next]_vars
  PROVE  CallsInv'
<1>1. ASSUME NEW c \in Call PROVE call[c] \in CallRecord
  BY DEF CallsInv
<1>2. ASSUME UNCHANGED call PROVE CallsInv'
  BY <1>2 DEF CallsInv
<1>3. ASSUME StopMonitor PROVE CallsInv'
  BY <1>1, <1>3, CallRecords DEF StopMonitor, CallsInv
<1>4. ASSUME NEW m, NEW connects \in BOOLEAN, ReceiveACF(m, connects) PROVE CallsInv'
  <2> DEFINE x(c) == IF c \in CallWithNumber(m.seq) THEN CallAdmitted(c, call[c], connects)
                     ELSE call[c]
  <2>1. \A c \in Call : x(c) \in CallRecord
    BY <1>1, CallRecords
  <2>2. call' = [c \in Call |-> x(c)]
    BY <1>4 DEF ReceiveACF
  <2> HIDE DEF x
  <2>3. QED
    BY <2>1, <2>2 DEF CallsInv
<1>5. ASSUME NEW m, ReceiveARJ(m) PROVE CallsInv'
  <2> DEFINE x(c) == IF c \in CallWithNumber(m.seq) THEN [call[c] EXCEPT !.callState = "CLEAR"]
                     ELSE call[c]
  <2>1. \A c \in Call : x(c) \in CallRecord
    BY <1>1 DEF CallRecord, Ending
  <2>2. call' = [c \in Call |-> x(c)]
    BY <1>5 DEF ReceiveARJ
  <2> HIDE DEF x
  <2>3. QED
    BY <2>1, <2>2 DEF CallsInv
<1>6. ASSUME NEW c \in Call, NEW ok, MakeCall(c, ok) \/ ReceiveSetup(c, ok) PROVE CallsInv'
  <2>1. ASSUME NEW h \in BOOLEAN
        PROVE  [InitialCall EXCEPT !.callState = "CREATED", !.h225 = h] \in CallRecord
    BY DEF InitialCall, CallRecord, NotEnding
  <2>2. [InitialCall EXCEPT !.callState = "CREATED"] \in CallRecord
    BY DEF InitialCall, CallRecord, NotEnding
  <2>3. ASSUME NEW x \in CallRecord PROVE Asked(c, x) \in CallRecord
    BY DEF Asked, CallRecord, NotEnding
  <2>4. \E x \in CallRecord : call' = [call EXCEPT ![c] = x]
    <3>1. CASE MakeCall(c, ok)
      BY <2>2, <2>3, <3>1, CallRecords DEF MakeCall
    <3>2. CASE ReceiveSetup(c, ok)
      BY <2>1, <2>3, <3>2, CallRecords DEF ReceiveSetup
    <3>3. QED
      BY <1>6, <3>1, <3>2
  <2>5. QED
    BY <2>4, OneCall
<1>7. ASSUME NEW c \in Call,
             \/ HangUp(c) \/ CallEstbTimer(c) \/ EndCall(c) \/ SessionTimer(c) \/ PeerCloses(c)
             \/ \E ok : SendReleaseComplete(c, ok) \/ ReceiveReleaseComplete(c, ok)
      PROVE CallsInv'
  <2>1. call[c] \in CallRecord
    BY <1>1
  <2>2. Cleaned(call[c]) \in CallRecord /\ MarkClear(call[c]) \in CallRecord
    BY <2>1, CallRecords
  <2>3. /\ [call[c] EXCEPT !.callState = "CLEARED"] \in CallRecord
        /\ [call[c] EXCEPT !.release = "queued"] \in CallRecord
        /\ [call[c] EXCEPT !.callState = "CLEAR_RELEASESENT", !.release = "sent",
                           !.sessionTimer = TRUE] \in CallRecord
        /\ [call[c] EXCEPT !.callState = "CLEARED", !.sessionTimer = FALSE] \in CallRecord
        /\ [call[c] EXCEPT !.callState = "CLEARED", !.h225 = FALSE] \in CallRecord
        /\ [call[c] EXCEPT !.sessionTimer = FALSE,
                           !.callState = IF @ = "CLEAR_RELEASESENT" THEN "CLEARED" ELSE @]
             \in CallRecord
    BY <2>1 DEF CallRecord, Ending
  <2>4. CASE HangUp(c) \/ CallEstbTimer(c)
    BY <2>2, <2>4 DEF HangUp, CallEstbTimer, CallsInv
  <2>5. CASE EndCall(c)
    BY <2>2, <2>3, <2>5 DEF EndCall, CallsInv
  <2>6. CASE SessionTimer(c) \/ PeerCloses(c)
    BY <2>3, <2>6 DEF SessionTimer, PeerCloses, CallsInv
  <2>7. CASE \E ok : SendReleaseComplete(c, ok) \/ ReceiveReleaseComplete(c, ok)
    BY <2>3, <2>7 DEF SendReleaseComplete, ReceiveReleaseComplete, CallsInv
  <2>8. QED
    BY <1>7, <2>4, <2>5, <2>6, <2>7
<1>8. CASE RegistrationStep
  BY <1>2, <1>8 DEF RegistrationStep, StartStack, GRQTimer, RRQTimer, REGTimer,
       ReceiveGatekeeperAnswer, ReceiveRegistrationAnswer, ReceiveURQ, onlyGk
<1>9. CASE AdmissionStep
  <2>1. ASSUME NEW i, NEW ok, NEW stale, ARQTimer(i, ok, stale) PROVE CallsInv'
    BY <1>2, <2>1 DEF ARQTimer
  <2>2. ASSUME NEW m, GkAdmits(m) \/ GkRejects(m) PROVE CallsInv'
    BY <1>2, <2>2 DEF GkAdmits, GkRejects
  <2>3. QED
    BY <1>4, <1>5, <1>9, <2>1, <2>2 DEF AdmissionStep
<1>10. ASSUME NEW c \in Call, CallStep(c) PROVE CallsInv'
  BY <1>6, <1>7, <1>10 DEF CallStep
<1>11. ASSUME NEW type, Lose(type) PROVE CallsInv'
  BY <1>2, <1>11 DEF Lose, onlyGk
<1>12. CASE UNCHANGED vars
  BY <1>2, <1>12 DEF vars
<1>13. QED
  BY <1>3, <1>8, <1>9, <1>10, <1>11, <1>12 DEF Next

LEMMA NetworkKept ==
  ASSUME ClientInv, NetworkInv, [Next]_vars
  PROVE  NetworkInv'
<1>1. ASSUME UNCHANGED << requests, answers, granted >> PROVE NetworkInv'
  BY <1>1 DEF NetworkInv
<1>2. ASSUME requests' = {}, answers' = {}, granted' = granted PROVE NetworkInv'
  BY <1>2 DEF NetworkInv
<1>3. ASSUME NEW c \in Call, requests' = requests \cup {[call |-> c, seq |-> RequestNumber(gk)]},
             UNCHANGED << answers, granted >>
      PROVE  NetworkInv'
  <2>1. RequestNumber(gk) \in 1 .. SeqNumbers - 1
    BY NumberTaken DEF ClientInv
  <2>2. QED
    BY <1>3, <2>1 DEF NetworkInv, Message
<1>4. CASE RegistrationStep
  BY <1>1, <1>4 DEF RegistrationStep, StartStack, GRQTimer, RRQTimer, REGTimer,
       ReceiveGatekeeperAnswer, ReceiveRegistrationAnswer, ReceiveURQ, onlyGk
<1>5. ASSUME NEW i, NEW ok, NEW stale, ARQTimer(i, ok, stale) PROVE NetworkInv'
  <2>1. gk.arqTimers[i] \in Owners
    <3>1. gk.arqTimers \in Seq(Owners)
      BY ClientFields DEF ClientInv, Owners
    <3>2. i \in 1 .. Len(gk.arqTimers)
      BY <1>5, <3>1, LenProperties DEF ARQTimer
    <3>3. QED
      BY <3>1, <3>2, ElementOfSeq
  <2>2. granted' = granted
    BY <1>5 DEF ARQTimer
  <2>3. CASE Crash
    BY <1>2, <2>2, <2>3 DEF Crash
  <2>4. CASE ~Crash
    <3>1. gk.arqTimers[i] \in Call /\ answers' = answers
      BY <1>5, <2>1, <2>4, Zenon DEF ARQTimer, Owners
    <3>2. \/ requests' = requests
          \/ requests' = requests \cup {[call |-> gk.arqTimers[i], seq |-> RequestNumber(gk)]}
      BY <1>5, <2>4, Zenon DEF ARQTimer
    <3>3. QED
      BY <1>1, <1>3, <2>2, <3>1, <3>2
  <2>5. QED
    BY <2>3, <2>4
<1>6. ASSUME NEW m, NEW connects, ReceiveACF(m, connects) \/ ReceiveARJ(m) PROVE NetworkInv'
  BY <1>6 DEF ReceiveACF, ReceiveARJ, NetworkInv
<1>7. ASSUME NEW m \in requests, GkAdmits(m) \/ GkRejects(m) PROVE NetworkInv'
  <2>1. m.call \in Call /\ m.seq \in 1 .. SeqNumbers - 1
    BY DEF NetworkInv, Message
  <2>2. CASE GkAdmits(m)
    BY <2>1, <2>2 DEF GkAdmits, NetworkInv, Answer
  <2>3. CASE GkRejects(m)
    BY <2>1, <2>3 DEF GkRejects, NetworkInv, Answer
  <2>4. QED
    BY <1>7, <2>2, <2>3
<1>8. CASE AdmissionStep
  BY <1>5, <1>6, <1>7, <1>8 DEF AdmissionStep
<1>9. ASSUME NEW c \in Call, CallStep(c) PROVE NetworkInv'
  <2>1. ASSUME NEW ok, MakeCall(c, ok) \/ ReceiveSetup(c, ok) PROVE NetworkInv'
    <3>1. UNCHANGED << answers, granted >>
      BY <2>1 DEF MakeCall, ReceiveSetup
    <3>2. \/ requests' = requests
          \/ requests' = requests \cup {[call |-> c, seq |-> RequestNumber(gk)]}
      BY <2>1, Zenon DEF MakeCall, ReceiveSetup, Sent, ARQ
    <3>3. QED
      BY <1>1, <1>3, <3>1, <3>2
  <2>2. ASSUME NEW ok, SendReleaseComplete(c, ok) \/ ReceiveReleaseComplete(c, ok)
        PROVE  NetworkInv'
    BY <1>1, <2>2 DEF SendReleaseComplete, ReceiveReleaseComplete
  <2>3. ASSUME EndCall(c) PROVE NetworkInv'
    BY <1>1, <1>2, <2>3 DEF EndCall, Crash
  <2>4. ASSUME HangUp(c) \/ CallEstbTimer(c) \/ SessionTimer(c) \/ PeerCloses(c)
        PROVE  NetworkInv'
    BY <1>1, <2>4 DEF HangUp, CallEstbTimer, SessionTimer, PeerCloses, onlyCall
  <2>5. QED
    BY <1>9, <2>1, <2>2, <2>3, <2>4 DEF CallStep
<1>10. ASSUME NEW type, Lose(type) PROVE NetworkInv'
  BY <1>1, <1>10 DEF Lose, onlyGk
<1>11. CASE StopMonitor
  BY <1>2, <1>11 DEF StopMonitor
<1>12. CASE UNCHANGED vars
  BY <1>1, <1>12 DEF vars
<1>13. QED
  BY <1>4, <1>8, <1>9, <1>10, <1>11, <1>12 DEF Next

LEMMA CountKept ==
  ASSUME CountInv, [Next]_vars
  PROVE  CountInv'
<1>1. ASSUME UNCHANGED << stack, upsets, unanswered >> PROVE CountInv'
  BY <1>1 DEF CountInv
<1>2. ASSUME stack' \in {"running", "stopped", "crashed"}, UNCHANGED << upsets, unanswered >>
      PROVE  CountInv'
  BY <1>2 DEF CountInv
<1>3. MaxUpsets \in Nat /\ MaxRetries \in Nat
  BY SessionAssumption, GkAssumption
<1>4. CASE RegistrationStep
  <2>1. ASSUME NEW ok, StartStack(ok) PROVE CountInv'
    BY <1>2, <2>1 DEF StartStack
  <2>2. ASSUME NEW ok, RRQTimer(ok) PROVE CountInv'
    BY <1>3, <2>2 DEF RRQTimer, CountInv
  <2>3. ASSUME NEW ok, GRQTimer(ok) \/ REGTimer(ok) PROVE CountInv'
    BY <1>1, <2>3 DEF GRQTimer, REGTimer, onlyGk
  <2>4. ASSUME NEW answer, NEW ok, ReceiveGatekeeperAnswer(answer, ok) PROVE CountInv'
    BY <1>1, <2>4 DEF ReceiveGatekeeperAnswer, onlyGk
  <2>5. ASSUME NEW answer, NEW ok, ReceiveRegistrationAnswer(answer, ok) PROVE CountInv'
    <3>1. upsets' = upsets \/ (upsets < MaxUpsets /\ upsets' = upsets + 1)
      BY <2>5, Zenon DEF ReceiveRegistrationAnswer
    <3>2. unanswered' = 0 /\ stack' = stack
      BY <2>5 DEF ReceiveRegistrationAnswer
    <3>3. QED
      BY <1>3, <3>1, <3>2 DEF CountInv
  <2>6. ASSUME NEW everything, NEW okUCF, NEW ok, ReceiveURQ(everything, okUCF, ok)
        PROVE  CountInv'
    BY <1>3, <2>6 DEF ReceiveURQ, CountInv
  <2>7. QED
    BY <1>4, <2>1, <2>2, <2>3, <2>4, <2>5, <2>6 DEF RegistrationStep
<1>5. CASE AdmissionStep
  BY <1>1, <1>2, <1>5
     DEF AdmissionStep, ARQTimer, Crash, ReceiveACF, ReceiveARJ, GkAdmits, GkRejects
<1>6. ASSUME NEW c \in Call, CallStep(c) PROVE CountInv'
  BY <1>1, <1>2, <1>6
     DEF CallStep, MakeCall, ReceiveSetup, SendReleaseComplete, ReceiveReleaseComplete,
         EndCall, Crash, HangUp, CallEstbTimer, SessionTimer, PeerCloses, onlyCall
<1>7. ASSUME NEW type, Lose(type) PROVE CountInv'
  BY <1>1, <1>7 DEF Lose, onlyGk
<1>8. CASE StopMonitor
  BY <1>2, <1>8 DEF StopMonitor
<1>9. CASE UNCHANGED vars
  BY <1>1, <1>9 DEF vars
<1>10. QED
  BY <1>4, <1>5, <1>6, <1>7, <1>8, <1>9 DEF Next

(* Every variable keeps its type: no list holds anything but entries, no    *)
(* number leaves its 16 bits, no counter of timers goes below zero.         *)
THEOREM TypeCorrect == Spec => []TypeOK
<1> DEFINE Inv == ClientInv /\ CallsInv /\ NetworkInv /\ CountInv
<1>1. Init => Inv
  BY InitialClientType, GkAssumption, SessionAssumption
     DEF Init, ClientInv, CallsInv, NetworkInv, CountInv, InitialCall, CallRecord
<1>2. Inv /\ [Next]_vars => Inv'
  BY ClientKept, CallsKept, NetworkKept, CountKept
<1>3. Inv => TypeOK
  BY DEF ClientInv, CallsInv, NetworkInv, CountInv, TypeOK
<1>4. QED
  BY <1>1, <1>2, <1>3, PTL DEF Spec
-----------------------------------------------------------------------------
(***************************************************************************)
(* What ooGkClient.c keeps of the calls it asks the gatekeeper about: that  *)
(* GkSession implements CallAdmission, and that the lists and the timers   *)
(* hold nothing of a call that is gone.  A call has one entry, in one of   *)
(* the two lists; what a function does to the entries is to leave them     *)
(* alone, to add one, to move one, or to drop one.                         *)
(***************************************************************************)

(* No call has two entries of a list. *)
Once(l) == \A i, j \in 1 .. Len(l) : l[i].call = l[j].call => i = j

PendingCalls(g)  == CallsIn(g.callsPendingList)
AdmittedCalls(g) == CallsIn(g.callsAdmittedList)

OneEntry(g) ==
  /\ Once(g.callsPendingList) /\ Once(g.callsAdmittedList)
  /\ PendingCalls(g) \cap AdmittedCalls(g) = {}
-----------------------------------------------------------------------------
(* Lists.                                                                   *)

LEMMA CallsOf ==
  ASSUME NEW l \in Seq(AdmissionInfo)
  PROVE  /\ CallsIn(l) = {l[i].call : i \in 1 .. Len(l)}
         /\ CallsIn(l) \subseteq Call
<1>1. DOMAIN l = 1 .. Len(l) /\ \A i \in 1 .. Len(l) : l[i] \in AdmissionInfo
  BY LenProperties, ElementOfSeq
<1>2. QED
  BY <1>1 DEF CallsIn, AdmissionInfo

(* The same calls, at the same places. *)
SameCalls(l, m) ==
  Len(m) = Len(l) /\ \A i \in 1 .. Len(l) : m[i].call = l[i].call

LEMMA SameCallsKeep ==
  ASSUME NEW l \in Seq(AdmissionInfo), NEW m \in Seq(AdmissionInfo), SameCalls(l, m)
  PROVE  CallsIn(m) = CallsIn(l) /\ (Once(l) => Once(m))
<1>1. /\ CallsIn(l) = {l[i].call : i \in 1 .. Len(l)}
      /\ CallsIn(m) = {m[i].call : i \in 1 .. Len(m)}
  BY CallsOf
<1>2. QED
  BY <1>1 DEF SameCalls, Once

LEMMA CallAppended ==
  ASSUME NEW l \in Seq(AdmissionInfo), NEW e \in AdmissionInfo
  PROVE  /\ Append(l, e) \in Seq(AdmissionInfo)
         /\ CallsIn(Append(l, e)) = CallsIn(l) \cup {e.call}
         /\ Once(l) /\ e.call \notin CallsIn(l) => Once(Append(l, e))
<1> DEFINE m == Append(l, e)
<1>1. /\ m \in Seq(AdmissionInfo) /\ Len(m) = Len(l) + 1 /\ Len(l) \in Nat
      /\ m[Len(l) + 1] = e /\ \A i \in 1 .. Len(l) : m[i] = l[i]
  BY AppendProperties
<1> HIDE DEF m
<1>2. /\ CallsIn(l) = {l[i].call : i \in 1 .. Len(l)}
      /\ CallsIn(m) = {m[i].call : i \in 1 .. Len(m)}
  BY <1>1, CallsOf
<1>3. CallsIn(m) = CallsIn(l) \cup {e.call}
  BY <1>1, <1>2
<1>4. Once(l) /\ e.call \notin CallsIn(l) => Once(m)
  BY <1>1, <1>2 DEF Once
<1>5. QED
  BY <1>1, <1>3, <1>4 DEF m

LEMMA CallRemoved ==
  ASSUME NEW l \in Seq(AdmissionInfo), NEW p \in 1 .. Len(l), Once(l)
  PROVE  /\ RemoveAt(l, p) \in Seq(AdmissionInfo)
         /\ CallsIn(RemoveAt(l, p)) = CallsIn(l) \ {l[p].call}
         /\ Once(RemoveAt(l, p))
<1> DEFINE m == RemoveAt(l, p)
<1>1. /\ m \in Seq(AdmissionInfo) /\ Len(m) = Len(l) - 1 /\ Len(l) \in Nat
      /\ \A i \in 1 .. Len(l) - 1 : m[i] = IF i < p THEN l[i] ELSE l[i + 1]
  BY RemoveAtElements, LenProperties
<1> HIDE DEF m
<1>2. /\ CallsIn(l) = {l[i].call : i \in 1 .. Len(l)}
      /\ CallsIn(m) = {m[i].call : i \in 1 .. Len(m)}
  BY <1>1, CallsOf
<1>3. Once(m)
  <2> SUFFICES ASSUME NEW i \in 1 .. Len(m), NEW j \in 1 .. Len(m), m[i].call = m[j].call
               PROVE  i = j
    BY DEF Once
  <2> DEFINE at(n) == IF n < p THEN n ELSE n + 1
  <2>1. ASSUME NEW n \in 1 .. Len(m)
        PROVE  at(n) \in 1 .. Len(l) /\ m[n] = l[at(n)]
    BY <1>1
  <2>2. at(i) = at(j)
    <3> HIDE DEF at
    <3> QED
      BY <2>1 DEF Once
  <2> QED
    BY <1>1, <2>2
<1>4. CallsIn(m) \subseteq CallsIn(l) \ {l[p].call}
  <2>1. ASSUME NEW i \in 1 .. Len(m)
        PROVE  m[i].call \in CallsIn(l) /\ m[i].call # l[p].call
    <3>1. CASE i < p
      BY <1>1, <1>2, <3>1 DEF Once
    <3>2. CASE ~(i < p)
      <4>1. i + 1 \in 1 .. Len(l) /\ i + 1 # p /\ m[i] = l[i + 1]
        BY <1>1, <3>2
      <4>2. QED
        BY <1>2, <4>1 DEF Once
    <3>3. QED
      BY <3>1, <3>2
  <2>2. QED
    BY <1>2, <2>1
<1>5. CallsIn(l) \ {l[p].call} \subseteq CallsIn(m)
  <2>1. ASSUME NEW i \in 1 .. Len(l), i # p
        PROVE  l[i].call \in CallsIn(m)
    <3>1. CASE i < p
      BY <1>1, <1>2, <2>1, <3>1
    <3>2. CASE i > p
      <4>1. i - 1 \in 1 .. Len(m) /\ m[i - 1] = l[i]
        BY <1>1, <3>2
      <4>2. QED
        BY <1>2, <4>1
    <3>3. QED
      BY <1>1, <2>1, <3>1, <3>2
  <2>2. QED
    BY <1>2, <2>1
<1>6. QED
  BY <1>1, <1>3, <1>4, <1>5 DEF m

(* The first entry that matches goes, if there is one. *)
Loses(l, m, Ds) ==
  /\ m \in Seq(AdmissionInfo) /\ Once(m)
  /\ \/ CallsIn(m) = CallsIn(l) /\ Ds = {}
     \/ \E d \in Ds : CallsIn(m) = CallsIn(l) \ {d}

LEMMA ReferenceLost ==
  ASSUME NEW l \in Seq(AdmissionInfo), Once(l), NEW c
  PROVE  Loses(l, WithoutReference(l, c), {d \in CallsIn(l) : SameReference(d, c)})
<1> DEFINE I  == {i \in 1 .. Len(l) : SameReference(l[i].call, c)}
           Ds == {d \in CallsIn(l) : SameReference(d, c)}
<1>1. CallsIn(l) = {l[i].call : i \in 1 .. Len(l)} /\ Len(l) \in Nat
  BY CallsOf, LenProperties
<1>2. CASE I = {}
  <2>1. WithoutReference(l, c) = l
    BY <1>2 DEF WithoutReference, RemoveFirstMatch
  <2>2. Ds = {}
    BY <1>1, <1>2
  <2>3. QED
    BY <2>1, <2>2 DEF Loses
<1>3. CASE I # {}
  <2>1. WithoutReference(l, c) = RemoveAt(l, Min(I))
    BY <1>3 DEF WithoutReference, RemoveFirstMatch, SelectInSeq
  <2>2. Min(I) \in I
    <3>1. I \in SUBSET (1 .. Len(l))
      OBVIOUS
    <3> HIDE DEF I
    <3>2. QED
      BY <1>1, <1>3, <3>1, LeastIndex
  <2>3. PICK p \in I : p = Min(I)
    BY <2>2
  <2>4. l[p].call \in Ds
    BY <1>1
  <2>5. /\ RemoveAt(l, p) \in Seq(AdmissionInfo) /\ Once(RemoveAt(l, p))
        /\ CallsIn(RemoveAt(l, p)) = CallsIn(l) \ {l[p].call}
    BY CallRemoved
  <2> HIDE DEF I, Ds
  <2>6. Loses(l, RemoveAt(l, p), Ds)
    BY <2>4, <2>5 DEF Loses
  <2>7. QED
    BY <2>1, <2>3, <2>6 DEF Ds
<1>4. QED
  BY <1>2, <1>3

LEMMA NumberFound ==
  ASSUME NEW l \in Seq(AdmissionInfo), NEW seq
  PROVE  /\ FirstSeq(l, seq) \in 0 .. Len(l)
         /\ WithoutSeq(l, seq) = IF FirstSeq(l, seq) = 0 THEN l
                                 ELSE RemoveAt(l, FirstSeq(l, seq))
<1> DEFINE I == {i \in 1 .. Len(l) : l[i].seq = seq}
<1>1. FirstSeq(l, seq) \in 0 .. Len(l)
  BY SelectedSeq
<1>2. CASE I = {}
  BY <1>1, <1>2 DEF WithoutSeq, RemoveFirstMatch, FirstSeq, SelectInSeq
<1>3. CASE I # {}
  <2>1. FirstSeq(l, seq) = Min(I)
    BY <1>3 DEF FirstSeq, SelectInSeq
  <2>2. WithoutSeq(l, seq) = RemoveAt(l, Min(I))
    BY <1>3 DEF WithoutSeq, RemoveFirstMatch, SelectInSeq
  <2>3. Min(I) # 0
    <3>1. I \in SUBSET (1 .. Len(l)) /\ Len(l) \in Nat
      BY LenProperties
    <3>2. 0 \notin I
      OBVIOUS
    <3> HIDE DEF I
    <3>3. QED
      BY <1>3, <3>1, <3>2, LeastIndex
  <2>4. QED
    BY <1>1, <2>1, <2>2, <2>3
<1>4. QED
  BY <1>2, <1>3
-----------------------------------------------------------------------------
(* Discovery and registration leave the lists alone.                        *)

SameLists(g, h) ==
  /\ h.callsPendingList = g.callsPendingList
  /\ h.callsAdmittedList = g.callsAdmittedList
  /\ h.arqTimers = g.arqTimers

LEMMA RequestListed ==
  ASSUME NEW g \in Client, NEW ok \in BOOLEAN
  PROVE  /\ SameLists(g, TakeSeq(g))
         /\ SameLists(g, SendGRQ(g, ok)) /\ SameLists(g, SendRRQ(g, ok))
         /\ SameLists(g, Start(g, ok))
  BY DEF Client, SameLists, Start, SendGRQ, SendRRQ, Request, TakeSeq, AddTimer, Fails

LEMMA TimersListed ==
  ASSUME NEW g \in Client, NEW ok \in BOOLEAN
  PROVE  /\ SameLists(g, GRQTimerExpired(g, ok)) /\ SameLists(g, RRQTimerExpired(g, ok))
         /\ SameLists(g, REGTimerExpired(g, ok))
  BY DEF Client, SameLists, SendGRQ, SendRRQ, Request, TakeSeq, AddTimer, DeleteTimer, Fails,
         GivesUp, GRQTimerExpired, RRQTimerExpired, REGTimerExpired

LEMMA AnswersListed ==
  ASSUME NEW g \in Client, NEW answer, NEW everything \in BOOLEAN, NEW okUCF \in BOOLEAN,
         NEW ok \in BOOLEAN
  PROVE  /\ SameLists(g, HandleGatekeeperReject(g))
         /\ SameLists(g, HandleGatekeeperConfirm(g, answer, ok))
         /\ SameLists(g, HandleRegistrationConfirm(g, answer))
         /\ SameLists(g, HandleRegistrationReject(g, answer, ok))
         /\ SameLists(g, HandleUnregistrationRequest(g, everything, okUCF, ok))
  BY DEF Client, SameLists, SendGRQ, SendRRQ, Request, TakeSeq, AddTimer, DeleteTimer, Fails,
         GivesUp, HandleGatekeeperReject, HandleGatekeeperConfirm,
         HandleRegistrationConfirm, HandleRegistrationReject, HandleUnregistrationRequest
-----------------------------------------------------------------------------
(* Admission: what each function does to the entries.                       *)

Unmoved(g, h)  == PendingCalls(h) = PendingCalls(g) /\ AdmittedCalls(h) = AdmittedCalls(g)
Added(g, h, c) ==
  PendingCalls(h) = PendingCalls(g) \cup {c} /\ AdmittedCalls(h) = AdmittedCalls(g)
Moved(g, h, c) ==
  /\ c \in PendingCalls(g)
  /\ PendingCalls(h) = PendingCalls(g) \ {c}
  /\ AdmittedCalls(h) = AdmittedCalls(g) \cup {c}
Dropped(g, h, c) ==
  /\ PendingCalls(h) = PendingCalls(g) \ {c}
  /\ AdmittedCalls(h) = AdmittedCalls(g) \ {c}
Emptied(h) == PendingCalls(h) = {} /\ AdmittedCalls(h) = {}

LEMMA EntriesTyped ==
  ASSUME NEW g \in Client
  PROVE  /\ g.callsPendingList \in Seq(AdmissionInfo)
         /\ g.callsAdmittedList \in Seq(AdmissionInfo)
         /\ PendingCalls(g) \subseteq Call /\ AdmittedCalls(g) \subseteq Call
  BY ClientFields, CallsOf DEF PendingCalls, AdmittedCalls

LEMMA SameListsUnmoved ==
  ASSUME NEW g, NEW h, OneEntry(g), SameLists(g, h)
  PROVE  OneEntry(h) /\ Unmoved(g, h)
  BY DEF OneEntry, Unmoved, SameLists, PendingCalls, AdmittedCalls

LEMMA CallAdded ==
  ASSUME NEW g \in Client, OneEntry(g), NEW ok \in BOOLEAN,
         NEW c \in Call, c \notin PendingCalls(g) \cup AdmittedCalls(g)
  PROVE  LET h == SendAdmissionRequest(g, c, ok)
         IN  /\ OneEntry(h) /\ Added(g, h, c)
             /\ h.arqTimers = IF ok THEN Append(g.arqTimers, c) ELSE g.arqTimers
             /\ h.state = IF ok THEN g.state ELSE "Failed"
<1> DEFINE e == [call |-> c, retries |-> 0, seq |-> RequestNumber(g)]
           h == SendAdmissionRequest(g, c, ok)
           l == g.callsPendingList
<1>1. e \in AdmissionInfo /\ e.call = c
  BY NumberTaken DEF AdmissionInfo
<1>2. /\ h.callsPendingList = Append(l, e)
      /\ h.callsAdmittedList = g.callsAdmittedList
      /\ h.arqTimers = IF ok THEN Append(g.arqTimers, c) ELSE g.arqTimers
      /\ h.state = IF ok THEN g.state ELSE "Failed"
  BY DEF SendAdmissionRequest, AddARQTimer, Fails, TakeSeq, Client
<1> HIDE DEF e, h
<1>3. l \in Seq(AdmissionInfo)
  BY EntriesTyped
<1>4. /\ CallsIn(Append(l, e)) = CallsIn(l) \cup {c}
      /\ Once(Append(l, e))
  BY <1>1, <1>3, CallAppended DEF OneEntry, PendingCalls
<1>5. OneEntry(h) /\ Added(g, h, c)
  BY <1>2, <1>4 DEF OneEntry, Added, PendingCalls, AdmittedCalls
<1>6. QED
  BY <1>2, <1>5 DEF h

LEMMA CallMoved ==
  ASSUME NEW g \in Client, OneEntry(g), NEW seq
  PROVE  LET h == HandleAdmissionConfirm(g, seq)
         IN  /\ OneEntry(h) /\ h.state = g.state
             /\ \/ SameLists(g, h)
                \/ \E c \in Call : /\ Moved(g, h, c)
                                   /\ h.arqTimers = WithoutValue(g.arqTimers, c)
<1> DEFINE l == g.callsPendingList
           i == FirstSeq(l, seq)
           e == l[i]
           h == HandleAdmissionConfirm(g, seq)
<1>1. l \in Seq(AdmissionInfo) /\ g.callsAdmittedList \in Seq(AdmissionInfo)
  BY EntriesTyped
<1>2. i \in 0 .. Len(l)
  BY <1>1, SelectedSeq
<1>3. CASE i = 0
  <2>1. h = g
    BY <1>3 DEF HandleAdmissionConfirm, FirstSeq
  <2>2. QED
    BY <2>1 DEF SameLists
<1>4. CASE i # 0
  <2>1. h = [g EXCEPT !.arqTimers = WithoutValue(g.arqTimers, e.call),
                      !.callsPendingList = RemoveAt(l, i),
                      !.callsAdmittedList = Append(g.callsAdmittedList, e)]
    BY <1>4, Zenon DEF HandleAdmissionConfirm, FirstSeq, WithoutValue
  <2>2. /\ h.arqTimers = WithoutValue(g.arqTimers, e.call)
        /\ h.callsPendingList = RemoveAt(l, i)
        /\ h.callsAdmittedList = Append(g.callsAdmittedList, e)
        /\ h.state = g.state
    <3> HIDE DEF i, e, h
    <3>1. QED
      BY <2>1 DEF Client
  <2> HIDE DEF i, h
  <2>3. e \in AdmissionInfo /\ e.call \in CallsIn(l)
    BY <1>1, <1>2, <1>4, ElementOfSeq, CallsOf
  <2>4. e.call \in Call
    BY <2>3 DEF AdmissionInfo
  <2>5. CallsIn(RemoveAt(l, i)) = CallsIn(l) \ {e.call} /\ Once(RemoveAt(l, i))
    BY <1>1, <1>2, <1>4, CallRemoved DEF OneEntry
  <2> HIDE DEF e
  <2>6. /\ CallsIn(Append(g.callsAdmittedList, e)) = CallsIn(g.callsAdmittedList) \cup {e.call}
        /\ Once(Append(g.callsAdmittedList, e))
    BY <1>1, <2>3, CallAppended DEF OneEntry, PendingCalls, AdmittedCalls
  <2>7. OneEntry(h) /\ Moved(g, h, e.call)
    BY <2>2, <2>3, <2>5, <2>6 DEF OneEntry, Moved, PendingCalls, AdmittedCalls
  <2>8. QED
    BY <2>2, <2>4, <2>7 DEF h
<1>5. QED
  BY <1>3, <1>4

LEMMA CallRejected ==
  ASSUME NEW g \in Client, OneEntry(g), NEW seq
  PROVE  LET h == HandleAdmissionReject(g, seq)
         IN  OneEntry(h) /\ (SameLists(g, h) \/ \E c \in Call : Dropped(g, h, c))
<1> DEFINE l == g.callsPendingList
           i == FirstSeq(l, seq)
           h == HandleAdmissionReject(g, seq)
<1>1. l \in Seq(AdmissionInfo) /\ i \in 0 .. Len(l)
  BY EntriesTyped, SelectedSeq
<1>2. /\ h.callsPendingList = IF i = 0 THEN l ELSE RemoveAt(l, i)
      /\ h.callsAdmittedList = g.callsAdmittedList /\ h.arqTimers = g.arqTimers
  <2>1. h = [g EXCEPT !.callsPendingList = WithoutSeq(l, seq)]
    BY Zenon DEF HandleAdmissionReject, WithoutSeq
  <2>2. WithoutSeq(l, seq) = IF i = 0 THEN l ELSE RemoveAt(l, i)
    BY <1>1, NumberFound
  <2> HIDE DEF i, h
  <2>3. QED
    BY <2>1, <2>2 DEF Client
<1> HIDE DEF i, h
<1>3. CASE i = 0
  BY <1>2, <1>3, SameListsUnmoved DEF SameLists, h
<1>4. CASE i # 0
  <2>1. l[i] \in AdmissionInfo /\ l[i].call \in CallsIn(l)
    BY <1>1, <1>4, ElementOfSeq, CallsOf
  <2>2. CallsIn(RemoveAt(l, i)) = CallsIn(l) \ {l[i].call} /\ Once(RemoveAt(l, i))
    BY <1>1, <1>4, CallRemoved DEF OneEntry
  <2>3. OneEntry(h) /\ Dropped(g, h, l[i].call)
    BY <1>2, <1>4, <2>1, <2>2 DEF OneEntry, Dropped, PendingCalls, AdmittedCalls
  <2>4. QED
    BY <2>1, <2>3 DEF AdmissionInfo, h
<1>5. QED
  BY <1>3, <1>4

LEMMA CallDisengaged ==
  ASSUME NEW g \in Client, OneEntry(g), NEW c, NEW ok \in BOOLEAN
  PROVE  LET h == SendDisengageRequest(g, c, ok)
         IN  /\ OneEntry(h) /\ (Unmoved(g, h) \/ \E d \in Call : Dropped(g, h, d))
             /\ PendingCalls(h) = PendingCalls(g)
             /\ AdmittedCalls(h) \subseteq AdmittedCalls(g)
             /\ h.arqTimers = g.arqTimers
             /\ h.state = IF ok THEN g.state ELSE "Failed"
<1> DEFINE l == g.callsAdmittedList
           m == WithoutReference(l, c)
           D == {d \in CallsIn(l) : SameReference(d, c)}
           h == SendDisengageRequest(g, c, ok)
<1>1. l \in Seq(AdmissionInfo) /\ CallsIn(l) \subseteq Call
  BY EntriesTyped, CallsOf
<1>2. /\ h.callsPendingList = g.callsPendingList /\ h.callsAdmittedList = m
      /\ h.arqTimers = g.arqTimers /\ h.state = IF ok THEN g.state ELSE "Failed"
  BY DEF SendDisengageRequest, WithoutReference, Fails, TakeSeq, Client
<1>3. Loses(l, m, D)
  BY <1>1, ReferenceLost DEF OneEntry
<1> HIDE DEF m, h
<1>4. /\ Once(m)
      /\ \/ CallsIn(m) = CallsIn(l)
         \/ \E d \in Call : d \in CallsIn(l) /\ CallsIn(m) = CallsIn(l) \ {d}
  BY <1>1, <1>3 DEF Loses
<1>5. OneEntry(h) /\ (Unmoved(g, h) \/ \E d \in Call : Dropped(g, h, d))
  BY <1>2, <1>4 DEF OneEntry, Unmoved, Dropped, PendingCalls, AdmittedCalls
<1>6. AdmittedCalls(h) \subseteq AdmittedCalls(g) /\ PendingCalls(h) = PendingCalls(g)
  BY <1>2, <1>4 DEF PendingCalls, AdmittedCalls
<1>7. QED
  BY <1>2, <1>5, <1>6 DEF h

LEMMA CallCleaned ==
  ASSUME NEW g \in Client, OneEntry(g), NEW c
  PROVE  LET h == CleanCall(g, c)
             M == {d \in Call : SameReference(d, c)}
         IN  /\ OneEntry(h) /\ h.state = g.state
             /\ \/ /\ \E d \in M : d \in AdmittedCalls(g) /\ Dropped(g, h, d)
                   /\ h.arqTimers = g.arqTimers
                \/ /\ AdmittedCalls(g) \cap M = {}
                   /\ \/ Unmoved(g, h) /\ PendingCalls(g) \cap M = {}
                      \/ \E d \in M : Dropped(g, h, d)
                   /\ h.arqTimers = WithoutTimer(g.arqTimers, c)
<1> DEFINE h == CleanCall(g, c)
           M == {d \in Call : SameReference(d, c)}
           l == g.callsAdmittedList
           p == g.callsPendingList
<1>1. /\ l \in Seq(AdmissionInfo) /\ CallsIn(l) \subseteq Call
      /\ p \in Seq(AdmissionInfo) /\ CallsIn(p) \subseteq Call
  BY EntriesTyped, CallsOf
<1>2. /\ Loses(l, WithoutReference(l, c), CallsIn(l) \cap M)
      /\ Loses(p, WithoutReference(p, c), CallsIn(p) \cap M)
  <2>1. /\ CallsIn(l) \cap M = {d \in CallsIn(l) : SameReference(d, c)}
        /\ CallsIn(p) \cap M = {d \in CallsIn(p) : SameReference(d, c)}
    BY <1>1
  <2>2. QED
    BY <1>1, <2>1, ReferenceLost DEF OneEntry
<1>3. CASE \E e \in CallsIn(l) : SameReference(e, c)
  <2>1. /\ h.callsAdmittedList = WithoutReference(l, c) /\ h.callsPendingList = p
        /\ h.arqTimers = g.arqTimers /\ h.state = g.state
    BY <1>3 DEF CleanCall, WithoutReference, Client
  <2>2. CallsIn(l) \cap M # {}
    BY <1>1, <1>3
  <2> HIDE DEF h, M
  <2>3. PICK d \in CallsIn(l) \cap M :
          CallsIn(h.callsAdmittedList) = CallsIn(l) \ {d} /\ Once(h.callsAdmittedList)
    BY <1>2, <2>1, <2>2 DEF Loses
  <2>4. OneEntry(h) /\ Dropped(g, h, d)
    BY <2>1, <2>3 DEF OneEntry, Dropped, PendingCalls, AdmittedCalls
  <2>5. QED
    BY <2>1, <2>3, <2>4, Zenon DEF AdmittedCalls, h, M
<1>4. CASE ~\E e \in CallsIn(l) : SameReference(e, c)
  <2>1. /\ h.callsAdmittedList = l /\ h.callsPendingList = WithoutReference(p, c)
        /\ h.arqTimers = WithoutTimer(g.arqTimers, c) /\ h.state = g.state
    BY <1>4 DEF CleanCall, WithoutReference, WithoutTimer, Client
  <2>2. CallsIn(l) \cap M = {}
    BY <1>4
  <2> HIDE DEF h, M
  <2>3. /\ Once(h.callsPendingList)
        /\ \/ CallsIn(h.callsPendingList) = CallsIn(p) /\ CallsIn(p) \cap M = {}
           \/ \E d \in CallsIn(p) \cap M : CallsIn(h.callsPendingList) = CallsIn(p) \ {d}
    BY <1>2, <2>1 DEF Loses
  <2>4. OneEntry(h)
    BY <2>1, <2>3 DEF OneEntry, PendingCalls, AdmittedCalls
  <2>5. \/ Unmoved(g, h) /\ PendingCalls(g) \cap M = {}
        \/ \E d \in M : Dropped(g, h, d)
    BY <2>1, <2>3 DEF OneEntry, Unmoved, Dropped, PendingCalls, AdmittedCalls
  <2>6. QED
    BY <2>1, <2>2, <2>4, <2>5, Zenon DEF AdmittedCalls, h, M
<1>5. QED
  BY <1>3, <1>4

LEMMA RetryKeepsCalls ==
  ASSUME NEW l \in Seq(AdmissionInfo), NEW c
  PROVE  CountRetry(l, c) \in Seq(AdmissionInfo) /\ SameCalls(l, CountRetry(l, c))
<1>1. DOMAIN l = 1 .. Len(l) /\ Len(l) \in Nat /\ \A i \in 1 .. Len(l) : l[i] \in AdmissionInfo
  BY LenProperties, ElementOfSeq
<1>2. CountRetry(l, c) \in Seq(AdmissionInfo)
  BY RetryCounted
<1>3. DOMAIN CountRetry(l, c) = 1 .. Len(l)
  BY <1>1 DEF CountRetry
<1>4. Len(CountRetry(l, c)) = Len(l)
  BY <1>1, <1>2, <1>3, LenProperties
<1>5. ASSUME NEW i \in 1 .. Len(l) PROVE CountRetry(l, c)[i].call = l[i].call
  BY <1>1 DEF CountRetry, AdmissionInfo
<1>6. QED
  BY <1>2, <1>4, <1>5 DEF SameCalls

LEMMA AskedAgain ==
  ASSUME NEW g \in Client, NEW c, NEW ok \in BOOLEAN
  PROVE  LET h == ResendAdmissionRequest(g, c, ok)
         IN  /\ h.callsPendingList \in Seq(AdmissionInfo)
             /\ SameCalls(g.callsPendingList, h.callsPendingList)
             /\ h.callsAdmittedList = g.callsAdmittedList
             /\ \E p \in Owners :
                  /\ h.arqTimers = IF ok THEN Append(g.arqTimers, p) ELSE g.arqTimers
                  /\ c \in PendingCalls(g) => SameReference(p, c) /\ p \in PendingCalls(g)
             /\ h.state = IF ok THEN g.state ELSE "Failed"
<1> DEFINE l == g.callsPendingList
           i == FirstReference(l, c)
           q == RequestNumber(g)
           n == TakeSeq(g)
           h == ResendAdmissionRequest(g, c, ok)
<1>1. /\ n.callsPendingList = l /\ n.callsAdmittedList = g.callsAdmittedList
      /\ n.arqTimers = g.arqTimers /\ n.state = g.state /\ n \in Client
  BY NumberTaken DEF SameState
<1>2. q \in 1 .. SeqNumbers - 1
  BY NumberTaken
<1>3. /\ l \in Seq(AdmissionInfo) /\ i \in 0 .. Len(l)
      /\ \A j \in 1 .. Len(l) : l[j] \in AdmissionInfo
      /\ CallsIn(l) = {l[j].call : j \in 1 .. Len(l)}
  BY EntriesTyped, SelectedReference, ElementOfSeq, CallsOf
<1>4. i # 0 => SameReference(l[i].call, c)
  <2> DEFINE I == {j \in 1 .. Len(l) : SameReference(l[j].call, c)}
  <2>1. i = IF I # {} THEN Min(I) ELSE 0
    BY DEF FirstReference, SelectInSeq
  <2>2. I \in SUBSET (1 .. Len(l)) /\ Len(l) \in Nat
    BY <1>3, LenProperties
  <2>3. I # {} => Min(I) \in I
    <3> HIDE DEF I
    <3>1. QED
      BY <2>2, LeastIndex
  <2>4. QED
    BY <2>1, <2>3
<1>5. i = 0 => c \notin PendingCalls(g)
  <2> DEFINE I == {j \in 1 .. Len(l) : SameReference(l[j].call, c)}
  <2>1. i = IF I # {} THEN Min(I) ELSE 0
    BY DEF FirstReference, SelectInSeq
  <2>2. I \in SUBSET (1 .. Len(l)) /\ Len(l) \in Nat
    BY <1>3, LenProperties
  <2>3. I # {} => Min(I) # 0
    <3>1. 0 \notin I
      OBVIOUS
    <3> HIDE DEF I
    <3>2. QED
      BY <2>2, <3>1, LeastIndex
  <2>4. i = 0 => I = {}
    BY <2>1, <2>3
  <2>5. QED
    BY <1>3, <2>4 DEF PendingCalls, SameReference
<1>6. ASSUME NEW k, NEW p, h = AddARQTimer(k, p, ok), k \in Client
      PROVE  /\ h.callsPendingList = k.callsPendingList
             /\ h.callsAdmittedList = k.callsAdmittedList
             /\ h.arqTimers = IF ok THEN Append(k.arqTimers, p) ELSE k.arqTimers
             /\ h.state = IF ok THEN k.state ELSE "Failed"
  <2> HIDE DEF h
  <2>1. QED
    BY <1>6 DEF AddARQTimer, Fails, Client
<1>7. CASE i # 0
  <2> DEFINE e == [l[i] EXCEPT !.seq = q]
             k == [n EXCEPT !.callsPendingList = [l EXCEPT ![i] = e]]
  <2>1. h = AddARQTimer([n EXCEPT !.callsPendingList[i].seq = q], l[i].call, ok)
    BY <1>7, Zenon DEF ResendAdmissionRequest, FirstReference
  <2>2. [n EXCEPT !.callsPendingList[i].seq = q]
          = [n EXCEPT !.callsPendingList = [n.callsPendingList EXCEPT ![i].seq = q]]
    BY Zenon
  <2>3. [n EXCEPT !.callsPendingList[i].seq = q] = k
    BY <1>1, <2>2, Zenon
  <2>4. e \in AdmissionInfo /\ e.call = l[i].call
    <3>1. l[i] \in AdmissionInfo
      <4> HIDE DEF l, i
      <4>1. QED
        BY <1>3, <1>7
    <3> HIDE DEF l, i, q
    <3>2. QED
      BY <1>2, <3>1 DEF AdmissionInfo
  <2>5. l[i].call \in Owners /\ l[i].call \in PendingCalls(g)
    <3> HIDE DEF i
    <3>1. QED
      BY SMTT(30), <1>3, <1>7 DEF AdmissionInfo, Owners, PendingCalls
  <2> HIDE DEF e
  <2>6. /\ [l EXCEPT ![i] = e] \in Seq(AdmissionInfo)
        /\ SameCalls(l, [l EXCEPT ![i] = e])
    <3> HIDE DEF i
    <3>1. /\ [l EXCEPT ![i] = e] \in Seq(AdmissionInfo)
          /\ Len([l EXCEPT ![i] = e]) = Len(l)
          /\ \A j \in 1 .. Len(l) : [l EXCEPT ![i] = e][j] = IF j = i THEN e ELSE l[j]
      BY <1>3, <1>7, <2>4, ExceptSeq
    <3>2. QED
      BY <2>4, <3>1 DEF SameCalls
  <2>7. /\ k \in Client /\ k.callsPendingList = [l EXCEPT ![i] = e]
        /\ k.callsAdmittedList = n.callsAdmittedList /\ k.arqTimers = n.arqTimers
        /\ k.state = n.state
    <3> HIDE DEF n, i
    <3>1. QED
      BY <1>1, <2>6 DEF Client
  <2>8. h = AddARQTimer(k, l[i].call, ok)
    BY <2>1, <2>3
  <2> HIDE DEF k, h, n, i
  <2>9. QED
    BY <1>1, <1>4, <1>6, <1>7, <2>5, <2>6, <2>7, <2>8 DEF h, i
<1>8. CASE i = 0
  <2>1. SameCalls(l, l)
    BY DEF SameCalls
  <2>2. \E p \in Owners : h = AddARQTimer(n, p, ok)
    <3>1. l # << >> => Last(l).call \in Owners
      <4>1. l # << >> => Len(l) \in 1 .. Len(l)
        BY <1>3, EmptySeq
      <4>2. QED
        BY <1>3, <4>1 DEF Last, AdmissionInfo, Owners
    <3>2. "NULL" \in Owners
      BY DEF Owners
    <3>3. h = AddARQTimer(n, Last(l).call, ok) \/ h = AddARQTimer(n, "NULL", ok)
      BY <1>8, Zenon DEF ResendAdmissionRequest, FirstReference
    <3>4. l = << >> => h = AddARQTimer(n, "NULL", ok)
      BY <1>8, Zenon DEF ResendAdmissionRequest, FirstReference
    <3>5. QED
      BY <3>1, <3>2, <3>3, <3>4, Zenon
  <2> HIDE DEF h, n, i
  <2>3. QED
    BY <1>1, <1>3, <1>5, <1>6, <1>8, <2>1, <2>2 DEF h
<1>9. QED
  BY <1>7, <1>8

LEMMA RetryListed ==
  ASSUME NEW g \in Client, OneEntry(g), NEW i \in DOMAIN g.arqTimers, NEW ok \in BOOLEAN,
         NEW stale
  PROVE  LET h == ARQTimerExpired(g, i, ok, stale)
             c == g.arqTimers[i]
         IN  /\ OneEntry(h) /\ Unmoved(g, h)
             /\ \/ h.state = "GkErr" /\ h.arqTimers = RemoveAt(g.arqTimers, i)
                \/ /\ h.state = IF ok THEN g.state ELSE "Failed"
                   /\ \E p \in Owners :
                        /\ h.arqTimers = RemoveAt(IF ok THEN Append(g.arqTimers, p)
                                                  ELSE g.arqTimers, i)
                        /\ c \in PendingCalls(g) => SameReference(p, c) /\ p \in PendingCalls(g)
<1> DEFINE c == g.arqTimers[i]
           r == ResendAdmissionRequest(g, c, ok)
           q == [r EXCEPT !.callsPendingList = CountRetry(@, c),
                          !.callsAdmittedList = CountRetry(@, c)]
           b == RetriesOf(g, c, stale) >= MaxRetries
           k == IF b THEN GivesUp(g) ELSE IF ok THEN q ELSE r
           h == ARQTimerExpired(g, i, ok, stale)
           pending  == g.callsPendingList
           admitted == g.callsAdmittedList
<1>1. h = [k EXCEPT !.arqTimers = RemoveAt(k.arqTimers, i)]
  BY Zenon DEF ARQTimerExpired
<1>2. pending \in Seq(AdmissionInfo) /\ admitted \in Seq(AdmissionInfo)
  BY EntriesTyped
<1>3. /\ r \in Client
      /\ r.callsPendingList \in Seq(AdmissionInfo) /\ SameCalls(pending, r.callsPendingList)
      /\ r.callsAdmittedList = admitted
      /\ r.state = IF ok THEN g.state ELSE "Failed"
      /\ \E p \in Owners :
           /\ r.arqTimers = IF ok THEN Append(g.arqTimers, p) ELSE g.arqTimers
           /\ c \in PendingCalls(g) => SameReference(p, c) /\ p \in PendingCalls(g)
  BY AskedAgain, AdmissionRequestSentAgain DEF Listed
<1> HIDE DEF r, b, c
<1>4. /\ q.callsPendingList = CountRetry(r.callsPendingList, c)
      /\ q.callsAdmittedList = CountRetry(r.callsAdmittedList, c)
      /\ q.arqTimers = r.arqTimers /\ q.state = r.state
      /\ DOMAIN q = DOMAIN r
  BY <1>3 DEF Client
<1>5. /\ q.callsPendingList \in Seq(AdmissionInfo) /\ SameCalls(pending, q.callsPendingList)
      /\ q.callsAdmittedList \in Seq(AdmissionInfo) /\ SameCalls(admitted, q.callsAdmittedList)
  <2>1. /\ CountRetry(r.callsPendingList, c) \in Seq(AdmissionInfo)
        /\ SameCalls(r.callsPendingList, CountRetry(r.callsPendingList, c))
    BY <1>3, RetryKeepsCalls
  <2>2. /\ CountRetry(admitted, c) \in Seq(AdmissionInfo)
        /\ SameCalls(admitted, CountRetry(admitted, c))
    BY <1>2, RetryKeepsCalls
  <2> HIDE DEF q
  <2>3. QED
    BY <1>3, <1>4, <2>1, <2>2 DEF SameCalls
<1>6. /\ GivesUp(g).callsPendingList = pending /\ GivesUp(g).callsAdmittedList = admitted
      /\ GivesUp(g).arqTimers = g.arqTimers /\ GivesUp(g).state = "GkErr"
      /\ GivesUp(g) \in Client
  BY ClientGivesUp DEF GivesUp, Client
<1>7. SameCalls(pending, pending) /\ SameCalls(admitted, admitted)
  BY DEF SameCalls
<1> HIDE DEF q
<1>8. /\ k.callsPendingList \in Seq(AdmissionInfo) /\ SameCalls(pending, k.callsPendingList)
      /\ k.callsAdmittedList \in Seq(AdmissionInfo) /\ SameCalls(admitted, k.callsAdmittedList)
  BY <1>2, <1>3, <1>5, <1>6, <1>7
<1>9. \/ k.state = "GkErr" /\ k.arqTimers = g.arqTimers
      \/ k.state = r.state /\ k.arqTimers = r.arqTimers
  BY <1>4, <1>6, Zenon
<1>10. k \in Client \/ DOMAIN k = DOMAIN r
  BY <1>3, <1>4, <1>6
<1> HIDE DEF k
<1>11. /\ h.callsPendingList = k.callsPendingList /\ h.callsAdmittedList = k.callsAdmittedList
       /\ h.arqTimers = RemoveAt(k.arqTimers, i) /\ h.state = k.state
  <2> HIDE DEF h
  <2>1. QED
    BY <1>1, <1>3, <1>10 DEF Client
<1> HIDE DEF h
<1>12. OneEntry(h) /\ Unmoved(g, h)
  <2>1. /\ CallsIn(k.callsPendingList) = CallsIn(pending)
        /\ (Once(pending) => Once(k.callsPendingList))
        /\ CallsIn(k.callsAdmittedList) = CallsIn(admitted)
        /\ (Once(admitted) => Once(k.callsAdmittedList))
    BY <1>2, <1>8, SameCallsKeep
  <2>2. QED
    BY <1>11, <2>1 DEF OneEntry, Unmoved, PendingCalls, AdmittedCalls
<1>13. QED
  BY <1>3, <1>9, <1>11, <1>12 DEF h, c
-----------------------------------------------------------------------------
(* The refinement.  A call has an entry only once it has been asked about,  *)
(* and it is asked about when it is new.                                    *)

AskedOnce ==
  /\ OneEntry(gk)
  /\ \A c \in Call :
       /\ c \in PendingCalls(gk) \cup AdmittedCalls(gk) => call[c].asked
       /\ call[c].callState = "none" => ~call[c].asked

KeepsAsked ==
  \A c \in Call :
    /\ call'[c].asked = call[c].asked
    /\ call'[c].callState = "none" => call[c].callState = "none"

Statuses == [c \in Call |-> StatusOf(c)]

LEMMA StatusCases ==
  ASSUME NEW c
  PROVE  /\ c \in AdmittedCalls(gk) => StatusOf(c) = "admitted"
         /\ c \in PendingCalls(gk) \ AdmittedCalls(gk) => StatusOf(c) = "asked"
         /\ c \notin PendingCalls(gk) \cup AdmittedCalls(gk) =>
              StatusOf(c) = IF call[c].asked THEN "over" ELSE "new"
<1>1. CASE c \in AdmittedCalls(gk)
  BY <1>1 DEF StatusOf, Pending, PendingCalls, AdmittedCalls
<1>2. CASE c \in PendingCalls(gk) \ AdmittedCalls(gk)
  BY <1>2 DEF StatusOf, Pending, PendingCalls, AdmittedCalls
<1>3. CASE c \notin PendingCalls(gk) \cup AdmittedCalls(gk)
  BY <1>3 DEF StatusOf, Pending, PendingCalls, AdmittedCalls
<1>4. QED
  BY <1>1, <1>2, <1>3

LEMMA StatusCasesNext ==
  ASSUME NEW c
  PROVE  /\ c \in AdmittedCalls(gk') => StatusOf(c)' = "admitted"
         /\ c \in PendingCalls(gk') \ AdmittedCalls(gk') => StatusOf(c)' = "asked"
         /\ c \notin PendingCalls(gk') \cup AdmittedCalls(gk') =>
              StatusOf(c)' = IF call'[c].asked THEN "over" ELSE "new"
<1>1. CASE c \in AdmittedCalls(gk')
  BY <1>1 DEF StatusOf, Pending, PendingCalls, AdmittedCalls
<1>2. CASE c \in PendingCalls(gk') \ AdmittedCalls(gk')
  BY <1>2 DEF StatusOf, Pending, PendingCalls, AdmittedCalls
<1>3. CASE c \notin PendingCalls(gk') \cup AdmittedCalls(gk')
  BY <1>3 DEF StatusOf, Pending, PendingCalls, AdmittedCalls
<1>4. QED
  BY <1>1, <1>2, <1>3

LEMMA EndingMaps ==
  ASSUME AskedOnce, KeepsAsked, OneEntry(gk'),
         Unmoved(gk, gk') \/ Emptied(gk') \/ \E d \in Call : Dropped(gk, gk', d)
  PROVE  AskedOnce' /\ [Admission!Next]_Statuses
<1>1. AskedOnce'
  BY DEF AskedOnce, KeepsAsked, Unmoved, Emptied, Dropped
<1>2. CASE Unmoved(gk, gk')
  <2>1. ASSUME NEW c \in Call PROVE StatusOf(c)' = StatusOf(c)
    BY <1>2, StatusCases, StatusCasesNext DEF KeepsAsked, Unmoved
  <2>2. QED
    BY <1>1, <2>1 DEF Statuses
<1>3. CASE Emptied(gk')
  <2>1. ASSUME NEW c \in Call
        PROVE  StatusOf(c)' = IF Statuses[c] \in {"asked", "admitted"} THEN "over"
                              ELSE Statuses[c]
    BY <1>3, StatusCases, StatusCasesNext DEF KeepsAsked, Emptied, AskedOnce, Statuses
  <2>2. Admission!EndAll
    BY <2>1 DEF Admission!EndAll, Statuses
  <2>3. QED
    BY <1>1, <2>2 DEF Admission!Next
<1>4. ASSUME NEW d \in Call, Dropped(gk, gk', d) PROVE [Admission!Next]_Statuses
  <2>1. ASSUME NEW c \in Call, c # d PROVE StatusOf(c)' = StatusOf(c)
    BY <1>4, <2>1, StatusCases, StatusCasesNext DEF KeepsAsked, Dropped
  <2>2. CASE d \in PendingCalls(gk) \cup AdmittedCalls(gk)
    <3>1. Statuses[d] \in {"asked", "admitted"}
      BY <2>2, StatusCases DEF Statuses
    <3>2. StatusOf(d)' = "over"
      BY <1>4, <2>2, StatusCasesNext DEF KeepsAsked, Dropped, AskedOnce
    <3>3. Admission!End(d)
      BY <2>1, <3>1, <3>2 DEF Admission!End, Statuses
    <3>4. QED
      BY <3>3 DEF Admission!Next
  <2>3. CASE d \notin PendingCalls(gk) \cup AdmittedCalls(gk)
    <3>1. StatusOf(d)' = StatusOf(d)
      BY <1>4, <2>3, StatusCases, StatusCasesNext DEF KeepsAsked, Dropped
    <3>2. QED
      BY <2>1, <3>1 DEF Statuses
  <2>4. QED
    BY <2>2, <2>3
<1>5. QED
  BY <1>1, <1>2, <1>3, <1>4

LEMMA MovingMaps ==
  ASSUME AskedOnce, KeepsAsked, OneEntry(gk'), NEW d \in Call, Moved(gk, gk', d)
  PROVE  AskedOnce' /\ [Admission!Next]_Statuses
<1>1. AskedOnce'
  BY DEF AskedOnce, KeepsAsked, Moved
<1>2. ASSUME NEW c \in Call, c # d PROVE StatusOf(c)' = StatusOf(c)
  BY <1>2, StatusCases, StatusCasesNext DEF KeepsAsked, Moved
<1>3. Statuses[d] = "asked"
  BY StatusCases DEF Statuses, Moved, AskedOnce, OneEntry
<1>4. StatusOf(d)' = "admitted"
  BY StatusCasesNext DEF Moved
<1>5. Admission!Admit(d)
  BY <1>2, <1>3, <1>4 DEF Admission!Admit, Statuses
<1>6. QED
  BY <1>1, <1>5 DEF Admission!Next

LEMMA AskingMaps ==
  ASSUME AskedOnce, OneEntry(gk'), NEW d \in Call, Added(gk, gk', d),
         call[d].callState = "none", call'[d].asked, call'[d].callState # "none",
         \A c \in Call : c # d => call'[c] = call[c]
  PROVE  AskedOnce' /\ [Admission!Next]_Statuses
<1>1. AskedOnce'
  BY DEF AskedOnce, Added
<1>2. d \notin PendingCalls(gk) \cup AdmittedCalls(gk) /\ ~call[d].asked
  BY DEF AskedOnce
<1>3. ASSUME NEW c \in Call, c # d PROVE StatusOf(c)' = StatusOf(c)
  BY <1>3, StatusCases, StatusCasesNext DEF Added
<1>4. Statuses[d] = "new"
  BY <1>2, StatusCases DEF Statuses
<1>5. StatusOf(d)' = "asked"
  BY <1>2, StatusCasesNext DEF Added
<1>6. Admission!Ask(d)
  BY <1>3, <1>4, <1>5 DEF Admission!Ask, Statuses
<1>7. QED
  BY <1>1, <1>6 DEF Admission!Next

LEMMA NoClientEmpty == OneEntry(NoClient) /\ Emptied(NoClient)
<1> DEFINE e == << >>
<1>1. /\ NoClient.callsPendingList = e /\ NoClient.callsAdmittedList = e
      /\ Len(e) = 0 /\ e \in Seq(AdmissionInfo)
  BY EmptySeq DEF NoClient, InitialClient
<1> HIDE DEF e
<1>2. CallsIn(e) = {} /\ Once(e)
  <2>1. 1 .. Len(e) = {}
    BY <1>1
  <2>2. CallsIn(e) = {e[i].call : i \in 1 .. Len(e)}
    BY <1>1, CallsOf
  <2>3. QED
    BY <2>1, <2>2 DEF Once
<1>3. QED
  BY <1>1, <1>2, Zenon DEF OneEntry, Emptied, PendingCalls, AdmittedCalls

(* The client after a test for failure. *)
LEMMA SurvivesListed ==
  ASSUME NEW g, OneEntry(g), NEW h, SameLists(g, h)
  PROVE  /\ OneEntry(Survives(h))
         /\ Unmoved(g, Survives(h)) \/ Emptied(Survives(h))
  BY SameListsUnmoved, NoClientEmpty DEF Survives

LEMMA AnswerTakenListed ==
  ASSUME gk \in Client, NEW type \in {"GRQ", "RRQ"}, gk.onTheWay[type] > 0
  PROVE  TakeAnswerTo(type) \in Client /\ SameLists(gk, TakeAnswerTo(type))
<1>1. TakeAnswerTo(type) \in Client
  BY AnswerTaken
<1>2. QED
  BY <1>1 DEF TakeAnswerTo, SameLists, Client

LEMMA SameListsTwice ==
  ASSUME NEW g, NEW h, NEW k, SameLists(g, h), SameLists(h, k)
  PROVE  SameLists(g, k)
  BY DEF SameLists

Maps == AskedOnce' /\ [Admission!Next]_Statuses

LEMMA StepMaps ==
  ASSUME ClientInv, CallsInv, AskedOnce, [Next]_vars
  PROVE  Maps
<1>1. gk \in Client /\ OneEntry(gk)
  BY DEF ClientInv, AskedOnce
<1>2. \A c \in Call : call[c] \in CallRecord
  BY DEF CallsInv
<1>3. ASSUME call' = call PROVE KeepsAsked
  BY <1>3 DEF KeepsAsked
<1>4. ASSUME KeepsAsked, OneEntry(gk'),
             Unmoved(gk, gk') \/ Emptied(gk') \/ \E d \in Call : Dropped(gk, gk', d)
      PROVE  Maps
  BY <1>4, EndingMaps DEF Maps
<1>5. ASSUME KeepsAsked, SameLists(gk, gk') PROVE Maps
  BY <1>1, <1>4, <1>5, SameListsUnmoved
<1>6. ASSUME KeepsAsked, gk' = NoClient PROVE Maps
  BY <1>4, <1>6, NoClientEmpty
<1>7. ASSUME KeepsAsked, gk' = gk PROVE Maps
  BY <1>5, <1>7 DEF SameLists
<1>8. ASSUME NEW g, SameLists(gk, g), gk' = Survives(g), call' = call PROVE Maps
  BY <1>1, <1>3, <1>4, <1>8, SurvivesListed
<1>9. SendOk \subseteq BOOLEAN /\ MayLose \subseteq {"GRQ", "RRQ"}
  BY SessionAssumption
<1>10. CASE RegistrationStep
  <2>1. ASSUME NEW ok \in SendOk, StartStack(ok) PROVE Maps
    <3>1. KeepsAsked
      BY <1>3, <2>1 DEF StartStack
    <3>2. SameLists(gk, Start(gk, ok))
      BY <1>1, <1>9, RequestListed
    <3>3. gk' = Start(gk, ok) \/ gk' = NoClient
      BY <2>1, Zenon DEF StartStack
    <3>4. QED
      BY <1>5, <1>6, <3>1, <3>2, <3>3
  <2>2. ASSUME NEW ok \in SendOk, GRQTimer(ok) \/ RRQTimer(ok) \/ REGTimer(ok) PROVE Maps
    <3>1. KeepsAsked
      BY <1>3, <2>2 DEF GRQTimer, RRQTimer, REGTimer, onlyGk
    <3>2. SameLists(gk, gk')
      BY <1>1, <1>9, <2>2, TimersListed DEF GRQTimer, RRQTimer, REGTimer
    <3>3. QED
      BY <1>5, <3>1, <3>2
  <2>3. ASSUME NEW answer, NEW ok \in SendOk, ReceiveGatekeeperAnswer(answer, ok) PROVE Maps
    <3> DEFINE t == TakeAnswerTo("GRQ")
    <3>1. t \in Client /\ SameLists(gk, t)
      BY <1>1, <2>3, AnswerTakenListed DEF ReceiveGatekeeperAnswer
    <3>2. /\ gk' = Survives(HandleGatekeeperConfirm(t, answer, ok))
             \/ gk' = Survives(HandleGatekeeperReject(t))
          /\ call' = call
      BY <2>3, Zenon DEF ReceiveGatekeeperAnswer, onlyGk
    <3> HIDE DEF t
    <3>3. /\ SameLists(gk, HandleGatekeeperConfirm(t, answer, ok))
          /\ SameLists(gk, HandleGatekeeperReject(t))
      BY <1>9, <3>1, AnswersListed, SameListsTwice
    <3>4. QED
      BY <1>8, <3>2, <3>3
  <2>4. ASSUME NEW answer, NEW ok \in SendOk, ReceiveRegistrationAnswer(answer, ok)
        PROVE  Maps
    <3> DEFINE t == TakeAnswerTo("RRQ")
    <3>1. t \in Client /\ SameLists(gk, t)
      BY <1>1, <2>4, AnswerTakenListed DEF ReceiveRegistrationAnswer
    <3>2. /\ gk' = Survives(HandleRegistrationConfirm(t, answer))
             \/ gk' = Survives(HandleRegistrationReject(t, answer, ok))
          /\ call' = call
      BY <2>4, Zenon DEF ReceiveRegistrationAnswer
    <3> HIDE DEF t
    <3>3. /\ SameLists(gk, HandleRegistrationConfirm(t, answer))
          /\ SameLists(gk, HandleRegistrationReject(t, answer, ok))
      BY <1>9, <3>1, AnswersListed, SameListsTwice
    <3>4. QED
      BY <1>8, <3>2, <3>3
  <2>5. ASSUME NEW everything \in BOOLEAN, NEW okUCF \in SendOk, NEW ok \in SendOk,
               ReceiveURQ(everything, okUCF, ok)
        PROVE  Maps
    <3>1. SameLists(gk, HandleUnregistrationRequest(gk, everything, okUCF, ok))
      BY <1>1, <1>9, AnswersListed
    <3>2. gk' = Survives(HandleUnregistrationRequest(gk, everything, okUCF, ok)) /\ call' = call
      BY <2>5, Zenon DEF ReceiveURQ
    <3>3. QED
      BY <1>8, <3>1, <3>2
  <2>6. QED
    BY <1>10, <2>1, <2>2, <2>3, <2>4, <2>5 DEF RegistrationStep
<1>11. CASE AdmissionStep
  <2>1. ASSUME NEW i, NEW ok \in SendOk, NEW stale, ARQTimer(i, ok, stale) PROVE Maps
    <3>1. KeepsAsked /\ i \in DOMAIN gk.arqTimers
      BY <1>3, <2>1 DEF ARQTimer
    <3>2. gk' = NoClient \/ gk' = ARQTimerExpired(gk, i, ok, stale)
      BY <2>1, Zenon DEF ARQTimer, Crash
    <3>3. /\ OneEntry(ARQTimerExpired(gk, i, ok, stale))
          /\ Unmoved(gk, ARQTimerExpired(gk, i, ok, stale))
      BY <1>1, <1>9, <3>1, RetryListed
    <3>4. QED
      BY <1>4, <1>6, <3>1, <3>2, <3>3
  <2>2. ASSUME NEW m, NEW connects \in BOOLEAN, ReceiveACF(m, connects) PROVE Maps
    <3>1. ASSUME NEW c \in Call
          PROVE  /\ CallAdmitted(c, call[c], connects).asked = call[c].asked
                 /\ CallAdmitted(c, call[c], connects).callState = "none"
                      => call[c].callState = "none"
      BY <1>2 DEF CallAdmitted, MarkClear, CallRecord
    <3>2. \A c \in Call : call'[c] = IF c \in CallWithNumber(m.seq)
                                     THEN CallAdmitted(c, call[c], connects) ELSE call[c]
      BY <2>2 DEF ReceiveACF
    <3>3. KeepsAsked
      BY <3>1, <3>2 DEF KeepsAsked
    <3>4. gk' = HandleAdmissionConfirm(gk, m.seq)
      BY <2>2 DEF ReceiveACF
    <3>5. OneEntry(gk') /\ (SameLists(gk, gk') \/ \E c \in Call : Moved(gk, gk', c))
      BY <1>1, <3>4, CallMoved, Zenon
    <3>6. QED
      BY <1>5, <3>3, <3>5, MovingMaps DEF Maps
  <2>3. ASSUME NEW m, ReceiveARJ(m) PROVE Maps
    <3>1. ASSUME NEW c \in Call
          PROVE  /\ [call[c] EXCEPT !.callState = "CLEAR"].asked = call[c].asked
                 /\ [call[c] EXCEPT !.callState = "CLEAR"].callState # "none"
      BY <1>2 DEF CallRecord
    <3>2. \A c \in Call : call'[c] = IF c \in CallWithNumber(m.seq)
                                     THEN [call[c] EXCEPT !.callState = "CLEAR"] ELSE call[c]
      BY <2>3 DEF ReceiveARJ
    <3>3. KeepsAsked
      BY <3>1, <3>2 DEF KeepsAsked
    <3>4. gk' = HandleAdmissionReject(gk, m.seq)
      BY <2>3 DEF ReceiveARJ
    <3>5. OneEntry(gk') /\ (SameLists(gk, gk') \/ \E c \in Call : Dropped(gk, gk', c))
      BY <1>1, <3>4, CallRejected, Zenon
    <3>6. QED
      BY <1>4, <1>5, <3>3, <3>5
  <2>4. ASSUME NEW m, GkAdmits(m) \/ GkRejects(m) PROVE Maps
    BY <1>3, <1>7, <2>4 DEF GkAdmits, GkRejects
  <2>5. QED
    BY <1>11, <2>1, <2>2, <2>3, <2>4 DEF AdmissionStep
<1>12. ASSUME NEW c \in Call, NEW ok \in SendOk, MakeCall(c, ok) \/ ReceiveSetup(c, ok)
       PROVE  Maps
  <2>1. call[c].callState = "none" /\ ~call[c].asked
    BY <1>12 DEF MakeCall, ReceiveSetup, AskedOnce
  <2>2. ASSUME NEW x, call' = [call EXCEPT ![c] = x]
        PROVE  /\ \A d \in Call : d # c => call'[d] = call[d]
               /\ call'[c] = x
    BY <2>2 DEF CallsInv
  <2>3. ASSUME NEW h \in BOOLEAN, NEW connects \in BOOLEAN
        PROVE  LET new == [InitialCall EXCEPT !.callState = "CREATED"]
                   up  == [InitialCall EXCEPT !.callState = "CREATED", !.h225 = TRUE]
               IN  /\ Asked(c, new).asked = TRUE /\ Asked(c, up).asked = TRUE
                   /\ Asked(c, new).callState # "none" /\ Asked(c, up).callState # "none"
                   /\ up.asked = FALSE /\ up.callState # "none"
                   /\ CallAdmitted(c, new, connects).asked = FALSE
                   /\ CallAdmitted(c, new, connects).callState # "none"
                   /\ CallAdmitted(c, up, connects).asked = FALSE
                   /\ CallAdmitted(c, up, connects).callState # "none"
    BY DEF InitialCall, Asked, CallAdmitted, MarkClear
  <2>4. \/ /\ gk' = SendAdmissionRequest(gk, c, ok)
           /\ \E x : x.asked = TRUE /\ x.callState # "none" /\ call' = [call EXCEPT ![c] = x]
        \/ /\ gk' = gk
           /\ \E x : x.asked = FALSE /\ x.callState # "none" /\ call' = [call EXCEPT ![c] = x]
    <3> DEFINE new == [InitialCall EXCEPT !.callState = "CREATED"]
               up  == [InitialCall EXCEPT !.callState = "CREATED", !.h225 = TRUE]
    <3>1. CASE MakeCall(c, ok)
      <4>1. \/ gk' = SendAdmissionRequest(gk, c, ok) /\ call' = [call EXCEPT ![c] = Asked(c, new)]
            \/ gk' = gk /\ \E connects \in BOOLEAN :
                            call' = [call EXCEPT ![c] = CallAdmitted(c, new, connects)]
        BY <3>1, Zenon DEF MakeCall
      <4> HIDE DEF new
      <4>2. QED
        BY <2>3, <4>1, Zenon DEF new
    <3>2. CASE ReceiveSetup(c, ok)
      <4>1. \/ gk' = SendAdmissionRequest(gk, c, ok) /\ call' = [call EXCEPT ![c] = Asked(c, up)]
            \/ gk' = gk /\ \E connects \in BOOLEAN :
                            call' = [call EXCEPT ![c] = CallAdmitted(c, up, connects)]
            \/ gk' = gk /\ call' = [call EXCEPT ![c] = up]
        BY <3>2, Zenon DEF ReceiveSetup
      <4> HIDE DEF up
      <4>2. QED
        BY <2>3, <4>1, Zenon DEF up
    <3>3. QED
      BY <1>12, <3>1, <3>2
  <2>5. ASSUME gk' = SendAdmissionRequest(gk, c, ok),
               NEW x, x.asked = TRUE, x.callState # "none", call' = [call EXCEPT ![c] = x]
        PROVE  Maps
    <3>1. c \notin PendingCalls(gk) \cup AdmittedCalls(gk)
      BY <2>1 DEF AskedOnce
    <3>2. OneEntry(gk') /\ Added(gk, gk', c)
      BY <1>1, <1>9, <2>5, <3>1, CallAdded
    <3>3. /\ \A d \in Call : d # c => call'[d] = call[d]
          /\ call'[c] = x
      BY <2>2, <2>5
    <3>4. QED
      BY <2>1, <2>5, <3>2, <3>3, AskingMaps DEF Maps
  <2>6. ASSUME gk' = gk,
               NEW x, x.asked = FALSE, x.callState # "none", call' = [call EXCEPT ![c] = x]
        PROVE  Maps
    <3>1. /\ \A d \in Call : d # c => call'[d] = call[d]
          /\ call'[c] = x
      BY <2>2, <2>6
    <3>2. call[c].asked = FALSE
      BY <1>2, <2>1 DEF CallRecord
    <3>3. KeepsAsked
      BY <2>1, <2>6, <3>1, <3>2 DEF KeepsAsked
    <3>4. QED
      BY <1>7, <2>6, <3>3
  <2>7. QED
    BY <2>4, <2>5, <2>6
<1>13. ASSUME NEW c \in Call, NEW ok \in SendOk,
              SendReleaseComplete(c, ok) \/ ReceiveReleaseComplete(c, ok)
       PROVE  Maps
  <2>1. KeepsAsked
    BY <1>2, <1>13 DEF SendReleaseComplete, ReceiveReleaseComplete, KeepsAsked, CallsInv, CallRecord
  <2>2. gk' = gk \/ gk' = SendDisengageRequest(gk, c, ok)
    BY <1>13, Zenon DEF SendReleaseComplete, ReceiveReleaseComplete, Disengage
  <2>3. LET h == SendDisengageRequest(gk, c, ok)
        IN  OneEntry(h) /\ (Unmoved(gk, h) \/ \E d \in Call : Dropped(gk, h, d))
    BY <1>1, <1>9, CallDisengaged
  <2>4. QED
    BY <1>4, <1>7, <2>1, <2>2, <2>3
<1>14. ASSUME NEW c \in Call, EndCall(c) PROVE Maps
  <2>1. KeepsAsked
    <3>1. call[c] \in CallRecord /\ call[c].callState # "none"
      BY <1>2, <1>14 DEF EndCall, Ending
    <3>2. \E x : /\ call' = [call EXCEPT ![c] = x] /\ x.asked = call[c].asked
                 /\ x.callState # "none"
      <4>1. /\ [call[c] EXCEPT !.callState = "CLEARED"].asked = call[c].asked
            /\ [call[c] EXCEPT !.callState = "CLEARED"].callState # "none"
            /\ [call[c] EXCEPT !.release = "queued"].asked = call[c].asked
            /\ [call[c] EXCEPT !.release = "queued"].callState # "none"
        BY <3>1 DEF CallRecord
      <4>2. Cleaned(call[c]).asked = call[c].asked /\ Cleaned(call[c]).callState # "none"
        BY DEF Cleaned, InitialCall
      <4>3. \/ call' = [call EXCEPT ![c] = [call[c] EXCEPT !.callState = "CLEARED"]]
            \/ call' = [call EXCEPT ![c] = [call[c] EXCEPT !.release = "queued"]]
            \/ call' = [call EXCEPT ![c] = Cleaned(call[c])]
        BY <1>14 DEF EndCall
      <4>4. QED
        BY <4>1, <4>2, <4>3, Zenon
    <3>3. QED
      BY <3>1, <3>2 DEF KeepsAsked, CallsInv
  <2>2. gk' = gk \/ gk' = NoClient \/ gk' = CleanCall(gk, c)
    BY <1>14, Zenon DEF EndCall, Crash
  <2>3. LET h == CleanCall(gk, c)
        IN  OneEntry(h) /\ (Unmoved(gk, h) \/ \E d \in Call : Dropped(gk, h, d))
    BY <1>1, CallCleaned
  <2>4. QED
    BY <1>4, <1>6, <1>7, <2>1, <2>2, <2>3
<1>15. ASSUME NEW c \in Call, HangUp(c) \/ CallEstbTimer(c) \/ SessionTimer(c) \/ PeerCloses(c)
       PROVE  Maps
  <2>1. KeepsAsked
    BY <1>2, <1>15 DEF HangUp, CallEstbTimer, SessionTimer, PeerCloses, MarkClear, KeepsAsked,
         CallsInv, CallRecord
  <2>2. gk' = gk
    BY <1>15 DEF HangUp, CallEstbTimer, SessionTimer, PeerCloses, onlyCall
  <2>3. QED
    BY <1>7, <2>1, <2>2
<1>16. ASSUME NEW type \in MayLose, Lose(type) PROVE Maps
  <2>1. SameLists(gk, gk') /\ call' = call
    BY <1>1, <1>9, <1>16, AnswerTakenListed DEF Lose, onlyGk
  <2>2. QED
    BY <1>3, <1>5, <2>1
<1>17. CASE StopMonitor
  <2>1. KeepsAsked
    BY <1>2, <1>17 DEF StopMonitor, KeepsAsked, Cleaned, InitialCall, CallRecord
  <2>2. QED
    BY <1>6, <1>17, <2>1 DEF StopMonitor
<1>18. CASE UNCHANGED vars
  BY <1>3, <1>7, <1>18 DEF vars
<1>19. ASSUME NEW c \in Call, CallStep(c) PROVE Maps
  BY <1>12, <1>13, <1>14, <1>15, <1>19 DEF CallStep
<1>20. QED
  BY <1>10, <1>11, <1>16, <1>17, <1>18, <1>19 DEF Next

(* GkSession implements CallAdmission: whatever the gatekeeper says, and    *)
(* however often calls share a reference, a call is asked about once,       *)
(* admitted only while it is asked about, and over once and for all         *)
(* (AdmissionSpec).                                                         *)
THEOREM ImplementsAdmission == Spec => AdmissionSpec
<1> DEFINE Inv == ClientInv /\ CallsInv /\ AskedOnce
<1>1. ASSUME Init PROVE Inv /\ Admission!Init
  <2>1. ClientInv /\ CallsInv
    BY <1>1, InitialClientType DEF Init, ClientInv, CallsInv, InitialCall, CallRecord
  <2>2. PendingCalls(gk) = {} /\ AdmittedCalls(gk) = {} /\ OneEntry(gk)
    <3>1. gk.callsPendingList = << >> /\ gk.callsAdmittedList = << >>
      BY <1>1 DEF Init, InitialClient
    <3>2. NoClient.callsPendingList = << >> /\ NoClient.callsAdmittedList = << >>
      BY DEF NoClient, InitialClient
    <3>3. QED
      BY <3>1, <3>2, NoClientEmpty, Zenon DEF Emptied, OneEntry, PendingCalls, AdmittedCalls
  <2>3. \A c \in Call : call[c].callState = "none" /\ call[c].asked = FALSE
    BY <1>1 DEF Init, InitialCall
  <2>4. AskedOnce
    BY <2>2, <2>3 DEF AskedOnce
  <2>5. \A c \in Call : StatusOf(c) = "new"
    BY <2>2, <2>3, StatusCases
  <2>6. Admission!Init
    BY <2>5 DEF Admission!Init
  <2>7. QED
    BY <2>1, <2>4, <2>6
<1>2. Inv /\ [Next]_vars => Inv'
  BY ClientKept, CallsKept, StepMaps DEF Maps
<1>3. Inv /\ [Next]_vars => [Admission!Next]_([c \in Call |-> StatusOf(c)])
  BY StepMaps DEF Maps, Statuses
<1>4. QED
  BY <1>1, <1>2, <1>3, PTL DEF Spec, AdmissionSpec, Admission!Spec
-----------------------------------------------------------------------------
(* The timers of admission.                                                 *)

LEMMA ValuesOf ==
  ASSUME NEW S, NEW s \in Seq(S)
  PROVE  /\ ToSet(s) = {s[i] : i \in 1 .. Len(s)}
         /\ IsInjective(s) <=> \A i, j \in 1 .. Len(s) : s[i] = s[j] => i = j
<1>1. DOMAIN s = 1 .. Len(s)
  BY LenProperties
<1>2. QED
  BY <1>1 DEF ToSet, IsInjective

LEMMA ValueRemoved ==
  ASSUME NEW S, NEW s \in Seq(S), IsInjective(s), NEW p \in 1 .. Len(s)
  PROVE  ToSet(RemoveAt(s, p)) = ToSet(s) \ {s[p]} /\ IsInjective(RemoveAt(s, p))
<1> DEFINE m == RemoveAt(s, p)
<1>1. /\ m \in Seq(S) /\ Len(m) = Len(s) - 1 /\ Len(s) \in Nat
      /\ \A i \in 1 .. Len(s) - 1 : m[i] = IF i < p THEN s[i] ELSE s[i + 1]
  BY RemoveAtElements, LenProperties
<1> HIDE DEF m
<1>2. /\ ToSet(s) = {s[i] : i \in 1 .. Len(s)} /\ ToSet(m) = {m[i] : i \in 1 .. Len(m)}
      /\ \A i, j \in 1 .. Len(s) : s[i] = s[j] => i = j
  BY <1>1, ValuesOf
<1>3. \A i, j \in 1 .. Len(m) : m[i] = m[j] => i = j
  BY <1>1, <1>2
<1>4. IsInjective(m)
  BY <1>1, <1>3, ValuesOf
<1>5. ASSUME NEW i \in 1 .. Len(m) PROVE m[i] \in ToSet(s) /\ m[i] # s[p]
  <2>1. CASE i < p
    BY <1>1, <1>2, <2>1
  <2>2. CASE ~(i < p)
    <3>1. i + 1 \in 1 .. Len(s) /\ i + 1 # p /\ m[i] = s[i + 1]
      BY <1>1, <2>2
    <3>2. QED
      BY <1>2, <3>1
  <2>3. QED
    BY <2>1, <2>2
<1>6. ASSUME NEW i \in 1 .. Len(s), i # p PROVE s[i] \in ToSet(m)
  <2>1. CASE i < p
    BY <1>1, <1>2, <1>6, <2>1
  <2>2. CASE i > p
    <3>1. i - 1 \in 1 .. Len(m) /\ m[i - 1] = s[i]
      BY <1>1, <2>2
    <3>2. QED
      BY <1>2, <3>1
  <2>3. QED
    BY <1>1, <1>6, <2>1, <2>2
<1>7. ToSet(m) = ToSet(s) \ {s[p]}
  BY <1>2, <1>5, <1>6
<1>8. QED
  BY <1>4, <1>7 DEF m

LEMMA ValueAppended ==
  ASSUME NEW S, NEW s \in Seq(S), IsInjective(s), NEW e \in S, e \notin ToSet(s)
  PROVE  ToSet(Append(s, e)) = ToSet(s) \cup {e} /\ IsInjective(Append(s, e))
<1> DEFINE m == Append(s, e)
<1>1. /\ m \in Seq(S) /\ Len(m) = Len(s) + 1 /\ Len(s) \in Nat
      /\ m[Len(s) + 1] = e /\ \A i \in 1 .. Len(s) : m[i] = s[i]
  BY AppendProperties
<1> HIDE DEF m
<1>2. /\ ToSet(s) = {s[i] : i \in 1 .. Len(s)} /\ ToSet(m) = {m[i] : i \in 1 .. Len(m)}
      /\ \A i, j \in 1 .. Len(s) : s[i] = s[j] => i = j
  BY <1>1, ValuesOf
<1>3. \A i, j \in 1 .. Len(m) : m[i] = m[j] => i = j
  BY <1>1, <1>2
<1>4. IsInjective(m)
  BY <1>1, <1>3, ValuesOf
<1>5. QED
  BY <1>1, <1>2, <1>4 DEF m

(* The timer that fires is replaced by a new one for the same entry. *)
LEMMA ValueRenewed ==
  ASSUME NEW S, NEW s \in Seq(S), IsInjective(s), NEW p \in 1 .. Len(s)
  PROVE  /\ ToSet(RemoveAt(Append(s, s[p]), p)) = ToSet(s)
         /\ IsInjective(RemoveAt(Append(s, s[p]), p))
<1> DEFINE a == Append(s, s[p])
           m == RemoveAt(a, p)
<1>1. /\ a \in Seq(S) /\ Len(a) = Len(s) + 1 /\ Len(s) \in Nat
      /\ a[Len(s) + 1] = s[p] /\ \A i \in 1 .. Len(s) : a[i] = s[i]
  <2>1. s[p] \in S
    BY ElementOfSeq
  <2>2. QED
    BY <2>1, AppendProperties, LenProperties
<1> HIDE DEF a
<1>2. /\ m \in Seq(S) /\ Len(m) = Len(s)
      /\ \A i \in 1 .. Len(s) : m[i] = IF i < p THEN a[i] ELSE a[i + 1]
  <2>1. p \in 1 .. Len(a)
    BY <1>1
  <2>2. /\ m \in Seq(S) /\ Len(m) = Len(a) - 1
        /\ \A i \in 1 .. Len(a) - 1 : m[i] = IF i < p THEN a[i] ELSE a[i + 1]
    BY <1>1, <2>1, RemoveAtElements
  <2>3. QED
    BY <1>1, <2>2
<1> HIDE DEF m
<1> DEFINE at(i) == IF i < p THEN i ELSE IF i = Len(s) THEN p ELSE i + 1
<1>3. /\ \A i \in 1 .. Len(s) : at(i) \in 1 .. Len(s)
      /\ \A i, j \in 1 .. Len(s) : at(i) = at(j) => i = j
      /\ \A k \in 1 .. Len(s) : \E i \in 1 .. Len(s) : at(i) = k
  <2>1. ASSUME NEW k \in 1 .. Len(s) PROVE \E i \in 1 .. Len(s) : at(i) = k
    <3>1. k < p => at(k) = k
      OBVIOUS
    <3>2. k = p => at(Len(s)) = k /\ Len(s) \in 1 .. Len(s)
      BY <1>1
    <3>3. k > p => at(k - 1) = k /\ k - 1 \in 1 .. Len(s)
      BY <1>1
    <3> HIDE DEF at
    <3>4. k < p \/ k = p \/ k > p
      BY <1>1
    <3>5. QED
      BY <3>1, <3>2, <3>3, <3>4
  <2>2. ASSUME NEW i \in 1 .. Len(s) PROVE at(i) \in 1 .. Len(s)
    BY <1>1
  <2>3. ASSUME NEW i \in 1 .. Len(s), NEW j \in 1 .. Len(s), at(i) = at(j) PROVE i = j
    BY <1>1, <2>3
  <2> HIDE DEF at
  <2>4. QED
    BY <2>1, <2>2, <2>3
<1>4. ASSUME NEW i \in 1 .. Len(s) PROVE m[i] = s[at(i)]
  BY <1>1, <1>2
<1> HIDE DEF at
<1>5. /\ ToSet(s) = {s[i] : i \in 1 .. Len(s)} /\ ToSet(m) = {m[i] : i \in 1 .. Len(m)}
      /\ \A i, j \in 1 .. Len(s) : s[i] = s[j] => i = j
  BY <1>2, ValuesOf
<1>6. \A i, j \in 1 .. Len(m) : m[i] = m[j] => i = j
  <2>1. ASSUME NEW i \in 1 .. Len(s), NEW j \in 1 .. Len(s), m[i] = m[j] PROVE i = j
    <3>1. s[at(i)] = s[at(j)] /\ at(i) \in 1 .. Len(s) /\ at(j) \in 1 .. Len(s)
      BY <1>3, <1>4, <2>1
    <3>2. at(i) = at(j)
      BY <1>5, <3>1
    <3>3. QED
      BY <1>3, <3>2
  <2>2. QED
    BY <1>2, <2>1
<1>7. IsInjective(m)
  BY <1>2, <1>6, ValuesOf
<1>8. ToSet(m) = ToSet(s)
  <2>1. ASSUME NEW i \in 1 .. Len(m) PROVE m[i] \in ToSet(s)
    <3>1. m[i] = s[at(i)] /\ at(i) \in 1 .. Len(s)
      BY <1>2, <1>3, <1>4
    <3>2. QED
      BY <1>5, <3>1
  <2>2. ASSUME NEW k \in 1 .. Len(s) PROVE s[k] \in ToSet(m)
    <3>1. PICK i \in 1 .. Len(s) : at(i) = k
      BY <1>3
    <3>2. m[i] = s[k]
      BY <1>4, <3>1
    <3>3. QED
      BY <1>2, <1>5, <3>2
  <2>3. ToSet(m) \subseteq ToSet(s)
    BY <1>5, <2>1, Zenon
  <2>4. ToSet(s) \subseteq ToSet(m)
    BY <1>5, <2>2, Zenon
  <2>5. QED
    BY <2>3, <2>4
<1>9. QED
  BY <1>7, <1>8 DEF m, a

(* What is deleted when an entry is confirmed or cleaned. *)
LEMMA TimerOfLost ==
  ASSUME NEW s \in Seq(Owners), IsInjective(s), NEW c
  PROVE  ToSet(WithoutValue(s, c)) = ToSet(s) \ {c} /\ IsInjective(WithoutValue(s, c))
<1> DEFINE I == {i \in 1 .. Len(s) : s[i] = c}
<1>1. ToSet(s) = {s[i] : i \in 1 .. Len(s)} /\ Len(s) \in Nat
  BY ValuesOf, LenProperties
<1>2. CASE I = {}
  <2>1. WithoutValue(s, c) = s
    BY <1>2 DEF WithoutValue, RemoveFirstMatch
  <2>2. c \notin ToSet(s)
    BY <1>1, <1>2
  <2>3. QED
    BY <2>1, <2>2
<1>3. CASE I # {}
  <2>1. WithoutValue(s, c) = RemoveAt(s, Min(I))
    BY <1>3 DEF WithoutValue, RemoveFirstMatch, SelectInSeq
  <2>2. Min(I) \in I
    <3>1. I \in SUBSET (1 .. Len(s))
      OBVIOUS
    <3> HIDE DEF I
    <3>2. QED
      BY <1>1, <1>3, <3>1, LeastIndex
  <2>3. Min(I) \in 1 .. Len(s) /\ s[Min(I)] = c
    BY <2>2
  <2> HIDE DEF I
  <2>4. QED
    BY <2>1, <2>3, ValueRemoved
<1>4. QED
  BY <1>2, <1>3

LEMMA TimerOfCleaned ==
  ASSUME NEW s \in Seq(Owners), "NULL" \notin ToSet(s), ToSet(s) \subseteq Call,
         NEW c \in Call, \A d \in Call : SameReference(d, c) => d = c
  PROVE  WithoutTimer(s, c) = WithoutValue(s, c)
<1> DEFINE I == {i \in 1 .. Len(s) : s[i] = c}
           J == {i \in 1 .. Len(s) : s[i] # "NULL" /\ SameReference(s[i], c)}
<1>1. ToSet(s) = {s[i] : i \in 1 .. Len(s)}
  BY ValuesOf
<1>2. I = J
  BY <1>1 DEF SameReference
<1>3. WithoutValue(s, c) = IF I # {} THEN RemoveAt(s, Min(I)) ELSE s
  BY DEF WithoutValue, RemoveFirstMatch, SelectInSeq
<1>4. WithoutTimer(s, c) = IF J # {} THEN RemoveAt(s, Min(J)) ELSE s
  BY DEF WithoutTimer, RemoveFirstMatch, SelectInSeq
<1> HIDE DEF I, J
<1>5. QED
  BY <1>2, <1>3, <1>4
-----------------------------------------------------------------------------
(* With a gatekeeper that rejects no call, and calls whose references are   *)
(* their own, the timers and the entries in the pending list stay together. *)

RejectsNone   == "ARJ" \notin GkAnswers
OwnReferences == \A c, d \in Call : SameReference(c, d) => c = d

Timed(g) ==
  /\ ToSet(g.arqTimers) \subseteq PendingCalls(g) /\ IsInjective(g.arqTimers)
  /\ g.state \notin FailureState => PendingCalls(g) \subseteq ToSet(g.arqTimers)

StillFails(g, h) == g.state \in FailureState => h.state \in FailureState

LEMMA TimedSame ==
  ASSUME NEW g, Timed(g), NEW h, SameLists(g, h), StillFails(g, h)
  PROVE  Timed(h)
  BY DEF Timed, SameLists, StillFails, PendingCalls

LEMMA ExpiryFails ==
  ASSUME NEW g \in Client, NEW ok \in BOOLEAN
  PROVE  /\ StillFails(g, Start(g, ok))
         /\ StillFails(g, GRQTimerExpired(g, ok)) /\ StillFails(g, RRQTimerExpired(g, ok))
         /\ StillFails(g, REGTimerExpired(g, ok))
  BY DEF Client, StillFails, FailureState, Start, SendGRQ, SendRRQ, Request, TakeSeq, AddTimer,
         DeleteTimer, Fails, GivesUp, GRQTimerExpired, RRQTimerExpired, REGTimerExpired

LEMMA TimersTyped ==
  ASSUME NEW g \in Client
  PROVE  g.arqTimers \in Seq(Owners)
  BY ClientFields DEF Owners

LEMMA NoClientTimed == Timed(NoClient)
<1> DEFINE e == << >>
<1>1. /\ NoClient.callsPendingList = e /\ NoClient.arqTimers = e
      /\ Len(e) = 0 /\ e \in Seq(Owners)
  BY EmptySeq DEF NoClient, InitialClient
<1> HIDE DEF e
<1>2. 1 .. Len(e) = {}
  BY <1>1
<1>3. ToSet(e) = {} /\ IsInjective(e)
  <2>1. /\ ToSet(e) = {e[i] : i \in 1 .. Len(e)}
        /\ IsInjective(e) <=> \A i, j \in 1 .. Len(e) : e[i] = e[j] => i = j
    BY ZenonT(40), <1>1, ValuesOf
  <2>2. QED
    BY <1>2, <2>1
<1>4. QED
  BY <1>1, <1>3, NoClientEmpty DEF Timed, Emptied

LEMMA TimedAdded ==
  ASSUME NEW g \in Client, OneEntry(g), Timed(g), NEW ok \in BOOLEAN,
         NEW c \in Call, c \notin PendingCalls(g) \cup AdmittedCalls(g)
  PROVE  Timed(SendAdmissionRequest(g, c, ok))
<1> DEFINE h == SendAdmissionRequest(g, c, ok)
<1>1. /\ PendingCalls(h) = PendingCalls(g) \cup {c}
      /\ h.arqTimers = IF ok THEN Append(g.arqTimers, c) ELSE g.arqTimers
      /\ h.state = IF ok THEN g.state ELSE "Failed"
  BY CallAdded DEF Added
<1>2. /\ ToSet(Append(g.arqTimers, c)) = ToSet(g.arqTimers) \cup {c}
      /\ IsInjective(Append(g.arqTimers, c))
  <2>1. c \in Owners /\ c \notin ToSet(g.arqTimers)
    BY DEF Timed, Owners
  <2>2. QED
    BY <2>1, TimersTyped, ValueAppended DEF Timed
<1> HIDE DEF h
<1>3. Timed(h)
  BY <1>1, <1>2 DEF Timed, FailureState
<1>4. QED
  BY <1>3 DEF h

LEMMA TimedMoved ==
  ASSUME NEW g \in Client, OneEntry(g), Timed(g), NEW seq
  PROVE  Timed(HandleAdmissionConfirm(g, seq))
<1> DEFINE h == HandleAdmissionConfirm(g, seq)
<1>1. h.state = g.state
  BY CallMoved
<1>2. CASE SameLists(g, h)
  BY <1>1, <1>2, TimedSame DEF StillFails
<1>3. ASSUME NEW c \in Call, Moved(g, h, c), h.arqTimers = WithoutValue(g.arqTimers, c)
      PROVE  Timed(h)
  <2> HIDE DEF h
  <2>1. ToSet(h.arqTimers) = ToSet(g.arqTimers) \ {c} /\ IsInjective(h.arqTimers)
    BY <1>3, TimersTyped, TimerOfLost DEF Timed
  <2>2. QED
    BY <1>1, <1>3, <2>1 DEF Timed, Moved
<1>4. QED
  BY <1>2, <1>3, CallMoved

LEMMA TimedDisengaged ==
  ASSUME NEW g \in Client, OneEntry(g), Timed(g), NEW c, NEW ok \in BOOLEAN
  PROVE  Timed(SendDisengageRequest(g, c, ok))
  BY CallDisengaged DEF Timed, FailureState

LEMMA TimedRetried ==
  ASSUME OwnReferences,
         NEW g \in Client, OneEntry(g), Timed(g), NEW i \in DOMAIN g.arqTimers,
         NEW ok \in BOOLEAN, NEW stale
  PROVE  Timed(ARQTimerExpired(g, i, ok, stale))
<1> DEFINE h == ARQTimerExpired(g, i, ok, stale)
           s == g.arqTimers
           c == s[i]
<1>1. s \in Seq(Owners) /\ i \in 1 .. Len(s) /\ IsInjective(s)
  BY TimersTyped, LenProperties DEF Timed
<1>2. c \in PendingCalls(g) /\ PendingCalls(g) \subseteq Call
  <2>1. c \in ToSet(s)
    BY <1>1, ValuesOf
  <2>2. QED
    BY <2>1, EntriesTyped DEF Timed
<1>3. PendingCalls(h) = PendingCalls(g)
  BY RetryListed DEF Unmoved
<1>4. /\ ToSet(RemoveAt(s, i)) = ToSet(s) \ {c} /\ IsInjective(RemoveAt(s, i))
      /\ ToSet(RemoveAt(Append(s, c), i)) = ToSet(s)
      /\ IsInjective(RemoveAt(Append(s, c), i))
  BY <1>1, ValueRemoved, ValueRenewed
<1>5. \/ h.state = "GkErr" /\ h.arqTimers = RemoveAt(s, i)
      \/ ok = FALSE /\ h.state = "Failed" /\ h.arqTimers = RemoveAt(s, i)
      \/ ok = TRUE /\ h.state = g.state /\ h.arqTimers = RemoveAt(Append(s, c), i)
  <2>1. ASSUME NEW p \in Owners,
               c \in PendingCalls(g) => SameReference(p, c) /\ p \in PendingCalls(g)
        PROVE  p = c
    BY <1>2, <2>1 DEF OwnReferences
  <2>2. \/ h.state = "GkErr" /\ h.arqTimers = RemoveAt(s, i)
        \/ /\ h.state = IF ok THEN g.state ELSE "Failed"
           /\ \E p \in Owners :
                /\ h.arqTimers = RemoveAt(IF ok THEN Append(s, p) ELSE s, i)
                /\ c \in PendingCalls(g) => SameReference(p, c) /\ p \in PendingCalls(g)
    BY RetryListed, ZenonT(30)
  <2> HIDE DEF h, c, s
  <2>3. QED
    BY <2>1, <2>2
<1> HIDE DEF h
<1>6. Timed(h)
  BY <1>2, <1>3, <1>4, <1>5 DEF Timed, FailureState
<1>7. QED
  BY <1>6 DEF h

LEMMA TimedCleaned ==
  ASSUME OwnReferences, NEW g \in Client, OneEntry(g), Timed(g), NEW c \in Call
  PROVE  LET h == CleanCall(g, c)
         IN  /\ Timed(h)
             /\ PendingCalls(h) \cup AdmittedCalls(h)
                  = (PendingCalls(g) \cup AdmittedCalls(g)) \ {c}
<1> DEFINE h == CleanCall(g, c)
           s == g.arqTimers
<1>1. \A d \in Call : SameReference(d, c) <=> d = c
  BY DEF OwnReferences, SameReference
<1>2. {d \in Call : SameReference(d, c)} = {c}
  BY <1>1
<1>3. PendingCalls(g) \subseteq Call /\ s \in Seq(Owners)
  BY EntriesTyped, TimersTyped
<1>4. WithoutTimer(s, c) = WithoutValue(s, c)
  <2>1. ToSet(s) \subseteq Call /\ "NULL" \notin ToSet(s)
    BY <1>3, GkAssumption DEF Timed
  <2>2. QED
    BY <1>1, <1>3, <2>1, TimerOfCleaned
<1>5. ToSet(WithoutValue(s, c)) = ToSet(s) \ {c} /\ IsInjective(WithoutValue(s, c))
  BY <1>3, TimerOfLost DEF Timed
<1>6. /\ h.state = g.state
      /\ \/ c \in AdmittedCalls(g) /\ Dropped(g, h, c) /\ h.arqTimers = s
         \/ /\ c \notin AdmittedCalls(g)
            /\ Dropped(g, h, c) \/ (Unmoved(g, h) /\ c \notin PendingCalls(g))
            /\ h.arqTimers = WithoutValue(s, c)
  BY <1>2, <1>4, CallCleaned
<1> HIDE DEF h
<1>7. Timed(h)
  BY <1>5, <1>6 DEF Timed, Dropped, Unmoved, OneEntry
<1>8. PendingCalls(h) \cup AdmittedCalls(h) = (PendingCalls(g) \cup AdmittedCalls(g)) \ {c}
  BY <1>6 DEF Dropped, Unmoved
<1>9. QED
  BY <1>7, <1>8 DEF h

(* No entry is left of a call that has been cleaned. *)
Living == \A c \in PendingCalls(gk) \cup AdmittedCalls(gk) : call[c].callState # "cleaned"

NoRejection == \A m \in answers : m.type # "ARJ"

TimersInv == Timed(gk) /\ Living /\ NoRejection

CleansNone == \A c \in Call : call'[c].callState = "cleaned" => call[c].callState = "cleaned"

LEMMA NoRejectionKept ==
  ASSUME RejectsNone, NoRejection, [Next]_vars
  PROVE  NoRejection'
<1>1. ASSUME answers' \subseteq answers PROVE NoRejection'
  BY <1>1 DEF NoRejection
<1>2. CASE RegistrationStep
  BY <1>1, <1>2 DEF RegistrationStep, StartStack, GRQTimer, RRQTimer, REGTimer,
       ReceiveGatekeeperAnswer, ReceiveRegistrationAnswer, ReceiveURQ, onlyGk
<1>3. CASE AdmissionStep
  <2>1. ASSUME NEW m, GkAdmits(m) PROVE NoRejection'
    BY <2>1 DEF GkAdmits, NoRejection
  <2>2. ASSUME NEW m, GkRejects(m) PROVE NoRejection'
    BY <2>2 DEF GkRejects, RejectsNone
  <2>3. ASSUME NEW i, NEW ok, NEW stale, ARQTimer(i, ok, stale) PROVE NoRejection'
    BY <1>1, <2>3 DEF ARQTimer, Crash
  <2>4. ASSUME NEW m, NEW connects, ReceiveACF(m, connects) \/ ReceiveARJ(m) PROVE NoRejection'
    BY <1>1, <2>4 DEF ReceiveACF, ReceiveARJ
  <2>5. QED
    BY <1>3, <2>1, <2>2, <2>3, <2>4 DEF AdmissionStep
<1>4. ASSUME NEW c \in Call, CallStep(c) PROVE NoRejection'
  BY <1>1, <1>4
     DEF CallStep, MakeCall, ReceiveSetup, SendReleaseComplete, ReceiveReleaseComplete,
         EndCall, Crash, HangUp, CallEstbTimer, SessionTimer, PeerCloses, onlyCall
<1>5. ASSUME NEW type, Lose(type) PROVE NoRejection'
  BY <1>1, <1>5 DEF Lose, onlyGk
<1>6. CASE StopMonitor
  BY <1>1, <1>6 DEF StopMonitor
<1>7. CASE UNCHANGED vars
  BY <1>1, <1>7 DEF vars
<1>8. QED
  BY <1>2, <1>3, <1>4, <1>5, <1>6, <1>7 DEF Next

LEMMA TimersKept ==
  ASSUME RejectsNone, OwnReferences, ClientInv, CallsInv, AskedOnce, TimersInv, [Next]_vars
  PROVE  TimersInv'
<1>1. gk \in Client /\ OneEntry(gk) /\ Timed(gk)
  BY DEF ClientInv, AskedOnce, TimersInv
<1>2. \A c \in Call : call[c] \in CallRecord
  BY DEF CallsInv
<1>3. PendingCalls(gk) \subseteq Call /\ AdmittedCalls(gk) \subseteq Call
  BY <1>1, EntriesTyped
<1>4. NoRejection'
  BY NoRejectionKept DEF TimersInv
<1>5. ASSUME Timed(gk'), CleansNone,
             PendingCalls(gk') \cup AdmittedCalls(gk')
               \subseteq PendingCalls(gk) \cup AdmittedCalls(gk)
      PROVE  TimersInv'
  <2>1. Living'
    BY <1>3, <1>5 DEF Living, CleansNone, TimersInv
  <2>2. Timed(gk)'
    BY <1>5
  <2>3. QED
    BY <1>4, <2>1, <2>2 DEF TimersInv
<1>6. ASSUME CleansNone, SameLists(gk, gk'), StillFails(gk, gk') PROVE TimersInv'
  <2>1. Timed(gk') /\ Unmoved(gk, gk')
    BY <1>1, <1>6, TimedSame, SameListsUnmoved
  <2>2. QED
    BY <1>5, <1>6, <2>1 DEF Unmoved
<1>7. ASSUME gk' = NoClient PROVE TimersInv'
  <2>1. Timed(gk') /\ Emptied(gk')
    BY <1>7, NoClientTimed, NoClientEmpty
  <2>2. Living' /\ Timed(gk)'
    BY <2>1 DEF Living, Emptied
  <2>3. QED
    BY <1>4, <2>2 DEF TimersInv
<1>8. ASSUME CleansNone, gk' = gk PROVE TimersInv'
  BY <1>6, <1>8 DEF SameLists, StillFails
<1>9. ASSUME call' = call PROVE CleansNone
  BY <1>9 DEF CleansNone
<1>10. ASSUME NEW g, SameLists(gk, g), gk.state \notin FailureState, gk' = Survives(g),
              call' = call
       PROVE  TimersInv'
  <2>1. gk' = g \/ gk' = NoClient
    BY <1>10 DEF Survives
  <2>2. QED
    BY <1>6, <1>7, <1>9, <1>10, <2>1 DEF StillFails
<1>11. SendOk \subseteq BOOLEAN /\ MayLose \subseteq {"GRQ", "RRQ"}
  BY SessionAssumption
<1>12. CASE RegistrationStep
  <2>1. ASSUME NEW ok \in SendOk, StartStack(ok) PROVE TimersInv'
    <3>1. CleansNone
      BY <1>9, <2>1 DEF StartStack
    <3>2. SameLists(gk, Start(gk, ok)) /\ StillFails(gk, Start(gk, ok))
      BY <1>1, <1>11, RequestListed, ExpiryFails
    <3>3. gk' = Start(gk, ok) \/ gk' = NoClient
      BY <2>1, Zenon DEF StartStack
    <3>4. QED
      BY <1>6, <1>7, <3>1, <3>2, <3>3
  <2>2. ASSUME NEW ok \in SendOk, GRQTimer(ok) \/ RRQTimer(ok) \/ REGTimer(ok)
        PROVE  TimersInv'
    <3>1. CleansNone
      BY <1>9, <2>2 DEF GRQTimer, RRQTimer, REGTimer, onlyGk
    <3>2. SameLists(gk, gk') /\ StillFails(gk, gk')
      BY <1>1, <1>11, <2>2, TimersListed, ExpiryFails DEF GRQTimer, RRQTimer, REGTimer
    <3>3. QED
      BY <1>6, <3>1, <3>2
  <2>3. ASSUME NEW answer, NEW ok \in SendOk, ReceiveGatekeeperAnswer(answer, ok)
        PROVE  TimersInv'
    <3> DEFINE t == TakeAnswerTo("GRQ")
    <3>1. t \in Client /\ SameLists(gk, t)
      BY <1>1, <2>3, AnswerTakenListed DEF ReceiveGatekeeperAnswer
    <3>2. /\ gk' = Survives(HandleGatekeeperConfirm(t, answer, ok))
             \/ gk' = Survives(HandleGatekeeperReject(t))
          /\ call' = call
      BY <2>3, Zenon DEF ReceiveGatekeeperAnswer, onlyGk
    <3> HIDE DEF t
    <3>3. /\ SameLists(gk, HandleGatekeeperConfirm(t, answer, ok))
          /\ SameLists(gk, HandleGatekeeperReject(t))
      BY <1>11, <3>1, AnswersListed, SameListsTwice
    <3>4. gk.state \notin FailureState
      BY <2>3 DEF ReceiveGatekeeperAnswer, Listening
    <3>5. QED
      BY <1>10, <3>2, <3>3, <3>4
  <2>4. ASSUME NEW answer, NEW ok \in SendOk, ReceiveRegistrationAnswer(answer, ok)
        PROVE  TimersInv'
    <3> DEFINE t == TakeAnswerTo("RRQ")
    <3>1. t \in Client /\ SameLists(gk, t)
      BY <1>1, <2>4, AnswerTakenListed DEF ReceiveRegistrationAnswer
    <3>2. /\ gk' = Survives(HandleRegistrationConfirm(t, answer))
             \/ gk' = Survives(HandleRegistrationReject(t, answer, ok))
          /\ call' = call
      BY <2>4, Zenon DEF ReceiveRegistrationAnswer
    <3> HIDE DEF t
    <3>3. /\ SameLists(gk, HandleRegistrationConfirm(t, answer))
          /\ SameLists(gk, HandleRegistrationReject(t, answer, ok))
      BY <1>11, <3>1, AnswersListed, SameListsTwice
    <3>4. gk.state \notin FailureState
      BY <2>4 DEF ReceiveRegistrationAnswer, Listening
    <3>5. QED
      BY <1>10, <3>2, <3>3, <3>4
  <2>5. ASSUME NEW everything \in BOOLEAN, NEW okUCF \in SendOk, NEW ok \in SendOk,
               ReceiveURQ(everything, okUCF, ok)
        PROVE  TimersInv'
    <3>1. SameLists(gk, HandleUnregistrationRequest(gk, everything, okUCF, ok))
      BY <1>1, <1>11, AnswersListed
    <3>2. gk' = Survives(HandleUnregistrationRequest(gk, everything, okUCF, ok)) /\ call' = call
      BY <2>5, Zenon DEF ReceiveURQ
    <3>3. gk.state \notin FailureState
      BY <2>5 DEF ReceiveURQ, Listening
    <3>4. QED
      BY <1>10, <3>1, <3>2, <3>3
  <2>6. QED
    BY <1>12, <2>1, <2>2, <2>3, <2>4, <2>5 DEF RegistrationStep
<1>13. CASE AdmissionStep
  <2>1. ASSUME NEW i, NEW ok \in SendOk, NEW stale, ARQTimer(i, ok, stale) PROVE TimersInv'
    <3>1. CleansNone /\ i \in DOMAIN gk.arqTimers
      BY <1>9, <2>1 DEF ARQTimer
    <3>2. gk' = NoClient \/ gk' = ARQTimerExpired(gk, i, ok, stale)
      BY <2>1, Zenon DEF ARQTimer, Crash
    <3>3. Timed(ARQTimerExpired(gk, i, ok, stale)) /\ Unmoved(gk, ARQTimerExpired(gk, i, ok, stale))
      BY <1>1, <1>11, <3>1, RetryListed, TimedRetried
    <3>4. QED
      BY <1>5, <1>7, <3>1, <3>2, <3>3 DEF Unmoved
  <2>2. ASSUME NEW m, NEW connects \in BOOLEAN, ReceiveACF(m, connects) PROVE TimersInv'
    <3>1. ASSUME NEW c \in Call
          PROVE  CallAdmitted(c, call[c], connects).callState = "cleaned"
                   => call[c].callState = "cleaned"
      BY <1>2 DEF CallAdmitted, MarkClear, CallRecord
    <3>2. \A c \in Call : call'[c] = IF c \in CallWithNumber(m.seq)
                                     THEN CallAdmitted(c, call[c], connects) ELSE call[c]
      BY <2>2 DEF ReceiveACF
    <3>3. CleansNone
      BY <3>1, <3>2 DEF CleansNone
    <3>4. gk' = HandleAdmissionConfirm(gk, m.seq)
      BY <2>2 DEF ReceiveACF
    <3>5. Timed(gk')
      BY <1>1, <3>4, TimedMoved
    <3>6. SameLists(gk, gk') \/ \E c \in Call : Moved(gk, gk', c)
      BY <1>1, <3>4, CallMoved, Zenon
    <3>7. PendingCalls(gk') \cup AdmittedCalls(gk')
            \subseteq PendingCalls(gk) \cup AdmittedCalls(gk)
      BY <1>1, <3>6, SameListsUnmoved DEF Moved, Unmoved
    <3>8. QED
      BY <1>5, <3>3, <3>5, <3>7
  <2>3. ASSUME NEW m, ReceiveARJ(m) PROVE FALSE
    BY <2>3 DEF ReceiveARJ, TimersInv, NoRejection
  <2>4. ASSUME NEW m, GkAdmits(m) \/ GkRejects(m) PROVE TimersInv'
    BY <1>8, <1>9, <2>4 DEF GkAdmits, GkRejects
  <2>5. QED
    BY <1>13, <2>1, <2>2, <2>3, <2>4 DEF AdmissionStep
<1>14. ASSUME NEW c \in Call, NEW ok \in SendOk, MakeCall(c, ok) \/ ReceiveSetup(c, ok)
       PROVE  TimersInv'
  <2>1. c \notin PendingCalls(gk) \cup AdmittedCalls(gk)
    BY <1>14 DEF MakeCall, ReceiveSetup, AskedOnce
  <2>2. ASSUME NEW h \in BOOLEAN, NEW connects \in BOOLEAN
        PROVE  LET new == [InitialCall EXCEPT !.callState = "CREATED"]
                   up  == [InitialCall EXCEPT !.callState = "CREATED", !.h225 = TRUE]
               IN  /\ Asked(c, new).callState # "cleaned" /\ Asked(c, up).callState # "cleaned"
                   /\ up.callState # "cleaned"
                   /\ CallAdmitted(c, new, connects).callState # "cleaned"
                   /\ CallAdmitted(c, up, connects).callState # "cleaned"
    BY DEF InitialCall, Asked, CallAdmitted, MarkClear
  <2>3. \E x : x.callState # "cleaned" /\ call' = [call EXCEPT ![c] = x]
    <3>1. CASE MakeCall(c, ok)
      BY <2>2, <3>1, Zenon DEF MakeCall
    <3>2. CASE ReceiveSetup(c, ok)
      BY <2>2, <3>2, Zenon DEF ReceiveSetup
    <3>3. QED
      BY <1>14, <3>1, <3>2
  <2>4. CleansNone /\ call'[c].callState # "cleaned"
    BY <2>3 DEF CallsInv, CleansNone
  <2>5. gk' = gk \/ gk' = SendAdmissionRequest(gk, c, ok)
    BY <1>14, Zenon DEF MakeCall, ReceiveSetup
  <2>6. CASE gk' = SendAdmissionRequest(gk, c, ok)
    <3>1. Timed(gk') /\ Added(gk, gk', c)
      BY <1>1, <1>11, <2>1, <2>6, CallAdded, TimedAdded
    <3>2. Living'
      BY <1>3, <2>4, <3>1 DEF Living, CleansNone, Added, TimersInv
    <3>3. Timed(gk)'
      BY <3>1
    <3>4. QED
      BY <1>4, <3>2, <3>3 DEF TimersInv
  <2>7. QED
    BY <1>8, <2>4, <2>5, <2>6
<1>15. ASSUME NEW c \in Call, NEW ok \in SendOk,
              SendReleaseComplete(c, ok) \/ ReceiveReleaseComplete(c, ok)
       PROVE  TimersInv'
  <2>1. CleansNone
    BY <1>2, <1>15
       DEF SendReleaseComplete, ReceiveReleaseComplete, CleansNone, CallsInv, CallRecord
  <2>2. gk' = gk \/ gk' = SendDisengageRequest(gk, c, ok)
    BY <1>15, Zenon DEF SendReleaseComplete, ReceiveReleaseComplete, Disengage
  <2>3. LET h == SendDisengageRequest(gk, c, ok)
        IN  /\ Timed(h) /\ PendingCalls(h) = PendingCalls(gk)
            /\ AdmittedCalls(h) \subseteq AdmittedCalls(gk)
    BY <1>1, <1>11, CallDisengaged, TimedDisengaged
  <2>4. QED
    BY <1>5, <1>8, <2>1, <2>2, <2>3
<1>16. ASSUME NEW c \in Call, EndCall(c) PROVE TimersInv'
  <2>1. call[c] \in CallRecord
    BY <1>2
  <2>2. CASE call[c].callState # "CLEARED"
    <3>1. /\ gk' = gk
          /\ \/ call' = [call EXCEPT ![c].callState = "CLEARED"]
             \/ call' = [call EXCEPT ![c].release = "queued"]
      BY <1>16, <2>2 DEF EndCall
    <3>2. CleansNone
      BY <2>1, <3>1 DEF CleansNone, CallsInv, CallRecord
    <3>3. QED
      BY <1>8, <3>1, <3>2
  <2>3. CASE call[c].callState = "CLEARED"
    <3>1. /\ call' = [call EXCEPT ![c] = Cleaned(call[c])]
          /\ gk' = NoClient \/ gk' = CleanCall(gk, c)
      BY <1>16, <2>3, Zenon DEF EndCall, Crash
    <3>2. CASE gk' = CleanCall(gk, c)
      <4>1. /\ Timed(gk')
            /\ PendingCalls(gk') \cup AdmittedCalls(gk')
                 = (PendingCalls(gk) \cup AdmittedCalls(gk)) \ {c}
        BY <1>1, <3>2, TimedCleaned
      <4>2. \A d \in Call : d # c => call'[d] = call[d]
        BY <3>1 DEF CallsInv
      <4>3. Living'
        BY <1>3, <4>1, <4>2 DEF Living, TimersInv
      <4>4. Timed(gk)'
        BY <4>1
      <4>5. QED
        BY <1>4, <4>3, <4>4 DEF TimersInv
    <3>3. QED
      BY <1>7, <3>1, <3>2
  <2>4. QED
    BY <2>2, <2>3
<1>17. ASSUME NEW c \in Call, HangUp(c) \/ CallEstbTimer(c) \/ SessionTimer(c) \/ PeerCloses(c)
       PROVE  TimersInv'
  <2>1. CleansNone
    BY <1>2, <1>17 DEF HangUp, CallEstbTimer, SessionTimer, PeerCloses, MarkClear, CleansNone,
         CallsInv, CallRecord
  <2>2. gk' = gk
    BY <1>17 DEF HangUp, CallEstbTimer, SessionTimer, PeerCloses, onlyCall
  <2>3. QED
    BY <1>8, <2>1, <2>2
<1>18. ASSUME NEW type \in MayLose, Lose(type) PROVE TimersInv'
  <2>1. SameLists(gk, gk') /\ call' = call
    BY <1>1, <1>11, <1>18, AnswerTakenListed DEF Lose, onlyGk
  <2>2. gk'.state = gk.state
    BY <1>1, <1>11, <1>18, AnswerTaken DEF Lose, SameState
  <2>3. QED
    BY <1>6, <1>9, <2>1, <2>2 DEF StillFails
<1>19. CASE StopMonitor
  BY <1>7, <1>19 DEF StopMonitor
<1>20. CASE UNCHANGED vars
  BY <1>8, <1>9, <1>20 DEF vars
<1>21. ASSUME NEW c \in Call, CallStep(c) PROVE TimersInv'
  BY <1>14, <1>15, <1>16, <1>17, <1>21 DEF CallStep
<1>22. QED
  BY <1>12, <1>13, <1>18, <1>19, <1>20, <1>21 DEF Next

LEMMA InitialInv ==
  ASSUME Init
  PROVE  ClientInv /\ CallsInv /\ AskedOnce /\ TimersInv
<1>1. ClientInv /\ CallsInv
  BY InitialClientType DEF Init, ClientInv, CallsInv, InitialCall, CallRecord
<1>2. SameLists(NoClient, gk) /\ answers = {}
  BY DEF Init, NoClient, InitialClient, SameLists
<1>3. Timed(gk)
  <2>1. NoClient.state = "None"
    BY DEF NoClient, InitialClient
  <2>2. QED
    BY <1>2, <2>1, NoClientTimed, TimedSame DEF StillFails, FailureState
<1>4. OneEntry(gk) /\ Emptied(gk)
  BY <1>2, NoClientEmpty, SameListsUnmoved DEF Emptied, Unmoved
<1>5. \A c \in Call : call[c].callState = "none" /\ call[c].asked = FALSE
  BY DEF Init, InitialCall
<1>6. QED
  BY <1>1, <1>2, <1>3, <1>4, <1>5 DEF AskedOnce, TimersInv, Living, NoRejection, Emptied

(* A call that waits for the gatekeeper has exactly one timer, and every    *)
(* timer leads to a call that waits, unless the client is about to go, with *)
(* a gatekeeper that rejects no call and calls whose references are their   *)
(* own (TimerPerPending).                                                   *)
THEOREM PendingIsTimed ==
  ASSUME RejectsNone, OwnReferences
  PROVE  Spec => []TimerPerPending
<1> DEFINE Inv == ClientInv /\ CallsInv /\ AskedOnce /\ TimersInv
<1>1. Init => Inv
  BY InitialInv
<1>2. Inv /\ [Next]_vars => Inv'
  BY ClientKept, CallsKept, StepMaps, TimersKept DEF Maps
<1>3. Inv => TimerPerPending
  BY DEF TimersInv, Timed, TimerPerPending, PendingCalls
<1>4. QED
  BY <1>1, <1>2, <1>3, PTL DEF Spec

(* Nothing leads to a call that has been cleaned: ooGkClientCleanCall finds *)
(* its entry, in whichever list, and its timer (OnlyLiveCalls).             *)
THEOREM NothingOfTheCleaned ==
  ASSUME RejectsNone, OwnReferences
  PROVE  Spec => []OnlyLiveCalls
<1> DEFINE Inv == ClientInv /\ CallsInv /\ AskedOnce /\ TimersInv
<1>1. Init => Inv
  BY InitialInv
<1>2. Inv /\ [Next]_vars => Inv'
  BY ClientKept, CallsKept, StepMaps, TimersKept DEF Maps
<1>3. Inv => OnlyLiveCalls
  BY DEF TimersInv, Timed, Living, OnlyLiveCalls, PendingCalls, AdmittedCalls
<1>4. QED
  BY <1>1, <1>2, <1>3, PTL DEF Spec
-----------------------------------------------------------------------------
(***************************************************************************)
(* What is admitted was granted.  A confirmation bears the number of a     *)
(* request and nothing else, and the numbers come round: what follows is   *)
(* about behaviours in which a number is given again only when nothing of  *)
(* its last use is left.                                                   *)
(***************************************************************************)

(* What the gatekeeper is asked: the calls that wait, with the number of    *)
(* the last request of each.                                                *)
Pairs(l) == {<< l[i].call, l[i].seq >> : i \in 1 .. Len(l)}
Asks(g)  == Pairs(g.callsPendingList)

(* The number the next request gets, should it be for a call, is that of no *)
(* message under way and of no call that waits.                             *)
NumberIsFree ==
  gk.state = "Registered" \/ gk.arqTimers # << >> =>
    /\ \A m \in requests \cup answers : m.seq # RequestNumber(gk)
    /\ \A p \in Asks(gk) : p[2] # RequestNumber(gk)

(* Under the number of a call that waits, only it is asked about, and only  *)
(* it has been confirmed.                                                   *)
Fits ==
  /\ \A p \in Asks(gk) :
       /\ \A m \in requests : m.seq = p[2] => m.call = p[1]
       /\ \A a \in answers : a.type = "ACF" /\ a.seq = p[2] => p[1] \in granted
  /\ AdmittedCalls(gk) \subseteq granted

LEMMA PairsOf ==
  ASSUME NEW l \in Seq(AdmissionInfo), NEW i \in 1 .. Len(l)
  PROVE  << l[i].call, l[i].seq >> \in Pairs(l)
  BY DEF Pairs

LEMMA PairsRemoved ==
  ASSUME NEW l \in Seq(AdmissionInfo), NEW p \in 1 .. Len(l)
  PROVE  Pairs(RemoveAt(l, p)) \subseteq Pairs(l)
<1>1. /\ Len(RemoveAt(l, p)) = Len(l) - 1 /\ Len(l) \in Nat
      /\ \A i \in 1 .. Len(l) - 1 : RemoveAt(l, p)[i] = IF i < p THEN l[i] ELSE l[i + 1]
  BY RemoveAtElements, LenProperties
<1> DEFINE m == RemoveAt(l, p)
<1> HIDE DEF m
<1>2. ASSUME NEW i \in 1 .. Len(m) PROVE << m[i].call, m[i].seq >> \in Pairs(l)
  <2>1. m[i] = l[i] \/ m[i] = l[i + 1]
    BY <1>1 DEF m
  <2>2. i \in 1 .. Len(l) /\ i + 1 \in 1 .. Len(l)
    BY <1>1 DEF m
  <2>3. QED
    BY <2>1, <2>2, PairsOf
<1>3. QED
  BY <1>2 DEF Pairs, m

LEMMA PairsWithoutSeq ==
  ASSUME NEW l \in Seq(AdmissionInfo), NEW seq
  PROVE  Pairs(WithoutSeq(l, seq)) \subseteq Pairs(l)
<1>1. FirstSeq(l, seq) \in 0 .. Len(l)
      /\ WithoutSeq(l, seq) = IF FirstSeq(l, seq) = 0 THEN l ELSE RemoveAt(l, FirstSeq(l, seq))
  BY NumberFound
<1>2. Len(l) \in Nat
  BY LenProperties
<1>3. QED
  BY <1>1, <1>2, PairsRemoved

LEMMA PairsWithoutReference ==
  ASSUME NEW l \in Seq(AdmissionInfo), NEW c
  PROVE  Pairs(WithoutReference(l, c)) \subseteq Pairs(l)
<1> DEFINE I == {i \in 1 .. Len(l) : SameReference(l[i].call, c)}
<1>1. CASE I = {}
  BY <1>1 DEF WithoutReference, RemoveFirstMatch
<1>2. CASE I # {}
  <2>1. WithoutReference(l, c) = RemoveAt(l, Min(I))
    BY <1>2 DEF WithoutReference, RemoveFirstMatch, SelectInSeq
  <2>2. Len(l) \in Nat /\ I \in SUBSET (1 .. Len(l))
    BY LenProperties
  <2> HIDE DEF I
  <2>3. Min(I) \in 1 .. Len(l)
    BY <1>2, <2>2, LeastIndex
  <2>4. QED
    BY <2>1, <2>3, PairsRemoved
<1>3. QED
  BY <1>1, <1>2

LEMMA PairsAppended ==
  ASSUME NEW l \in Seq(AdmissionInfo), NEW e \in AdmissionInfo
  PROVE  Pairs(Append(l, e)) = Pairs(l) \cup {<< e.call, e.seq >>}
<1> DEFINE m == Append(l, e)
<1>1. /\ Len(m) = Len(l) + 1 /\ Len(l) \in Nat
      /\ m[Len(l) + 1] = e /\ \A i \in 1 .. Len(l) : m[i] = l[i]
  BY AppendProperties
<1> HIDE DEF m
<1>2. 1 .. Len(m) = 1 .. Len(l) \cup {Len(l) + 1}
  BY <1>1
<1>3. QED
  BY <1>1, <1>2 DEF Pairs, m

(* Counting a retry changes no number. *)
LEMMA PairsCounted ==
  ASSUME NEW l \in Seq(AdmissionInfo), NEW c
  PROVE  Pairs(CountRetry(l, c)) = Pairs(l)
<1> DEFINE m == CountRetry(l, c)
<1>1. /\ DOMAIN l = 1 .. Len(l) /\ Len(l) \in Nat
      /\ \A i \in 1 .. Len(l) : l[i] \in AdmissionInfo
  BY LenProperties, ElementOfSeq
<1>2. Len(m) = Len(l)
  BY RetryKeepsCalls DEF SameCalls
<1>3. ASSUME NEW i \in 1 .. Len(l) PROVE m[i].call = l[i].call /\ m[i].seq = l[i].seq
  BY <1>1 DEF CountRetry, AdmissionInfo
<1> HIDE DEF m
<1>4. QED
  BY <1>2, <1>3 DEF Pairs, m

(* What is found under a number is a call that waits with it. *)
LEMMA FoundWaits ==
  ASSUME NEW g \in Client, NEW seq, FirstSeq(g.callsPendingList, seq) # 0
  PROVE  LET i == FirstSeq(g.callsPendingList, seq)
         IN  /\ i \in 1 .. Len(g.callsPendingList)
             /\ << g.callsPendingList[i].call, seq >> \in Asks(g)
<1> DEFINE l == g.callsPendingList
           I == {i \in 1 .. Len(l) : l[i].seq = seq}
<1>1. l \in Seq(AdmissionInfo) /\ Len(l) \in Nat
  BY EntriesTyped, LenProperties
<1>2. FirstSeq(l, seq) = IF I # {} THEN Min(I) ELSE 0
  BY DEF FirstSeq, SelectInSeq
<1>3. I \in SUBSET (1 .. Len(l))
  OBVIOUS
<1>4. Min(I) \in I
  <2> HIDE DEF I
  <2>1. QED
    BY <1>1, <1>2, <1>3, LeastIndex
<1>5. PICK i \in I : i = FirstSeq(l, seq)
  BY <1>2, <1>4
<1>6. << l[i].call, l[i].seq >> \in Pairs(l) /\ l[i].seq = seq
  BY <1>1, PairsOf
<1>7. QED
  BY <1>5, <1>6 DEF Asks
-----------------------------------------------------------------------------
(* What each function does to them.                                         *)

LEMMA SameListsAsk ==
  ASSUME NEW g, NEW h, SameLists(g, h)
  PROVE  Asks(h) = Asks(g) /\ AdmittedCalls(h) = AdmittedCalls(g)
  BY DEF SameLists, Asks, AdmittedCalls

LEMMA NoClientAsks == Asks(NoClient) = {} /\ AdmittedCalls(NoClient) = {}
<1>1. NoClient.callsPendingList = << >>
  BY DEF NoClient, InitialClient
<1>2. Len(<< >>) = 0
  BY EmptySeq
<1>3. Asks(NoClient) = {}
  <2>1. 1 .. 0 = {}
    OBVIOUS
  <2>2. QED
    BY <1>1, <1>2, <2>1 DEF Asks, Pairs
<1>4. QED
  BY <1>3, NoClientEmpty DEF Emptied

LEMMA AskAdded ==
  ASSUME NEW g \in Client, NEW c \in Call, NEW ok \in BOOLEAN
  PROVE  LET h == SendAdmissionRequest(g, c, ok)
         IN  /\ Asks(h) = Asks(g) \cup {<< c, RequestNumber(g) >>}
             /\ AdmittedCalls(h) = AdmittedCalls(g)
<1> DEFINE e == [call |-> c, retries |-> 0, seq |-> RequestNumber(g)]
           h == SendAdmissionRequest(g, c, ok)
<1>1. e \in AdmissionInfo /\ e.call = c /\ e.seq = RequestNumber(g)
  BY NumberTaken DEF AdmissionInfo
<1>2. /\ h.callsPendingList = Append(g.callsPendingList, e)
      /\ h.callsAdmittedList = g.callsAdmittedList
  BY DEF SendAdmissionRequest, AddARQTimer, Fails, TakeSeq, Client
<1> HIDE DEF e, h
<1>3. QED
  BY <1>1, <1>2, EntriesTyped, PairsAppended DEF Asks, AdmittedCalls, h

LEMMA AskConfirmed ==
  ASSUME NEW g \in Client, NEW seq
  PROVE  LET h == HandleAdmissionConfirm(g, seq)
         IN  /\ Asks(h) \subseteq Asks(g)
             /\ \/ AdmittedCalls(h) = AdmittedCalls(g)
                \/ \E c \in Call : /\ << c, seq >> \in Asks(g)
                                   /\ AdmittedCalls(h) = AdmittedCalls(g) \cup {c}
<1> DEFINE l == g.callsPendingList
           i == FirstSeq(l, seq)
           e == l[i]
           h == HandleAdmissionConfirm(g, seq)
<1>1. l \in Seq(AdmissionInfo) /\ g.callsAdmittedList \in Seq(AdmissionInfo)
  BY EntriesTyped
<1>2. CASE i = 0
  <2>1. h = g
    BY <1>2 DEF HandleAdmissionConfirm, FirstSeq
  <2>2. QED
    BY <2>1
<1>3. CASE i # 0
  <2>1. h = [g EXCEPT !.arqTimers = WithoutValue(g.arqTimers, e.call),
                      !.callsPendingList = RemoveAt(l, i),
                      !.callsAdmittedList = Append(g.callsAdmittedList, e)]
    BY <1>3, Zenon DEF HandleAdmissionConfirm, FirstSeq, WithoutValue
  <2>2. /\ h.callsPendingList = RemoveAt(l, i)
        /\ h.callsAdmittedList = Append(g.callsAdmittedList, e)
    <3> HIDE DEF i, e, h
    <3>1. QED
      BY <2>1 DEF Client
  <2>3. i \in 1 .. Len(l) /\ << e.call, seq >> \in Asks(g)
    BY <1>3, FoundWaits
  <2> HIDE DEF i, h
  <2>4. e \in AdmissionInfo /\ e.call \in Call
    <3>1. e \in AdmissionInfo
      BY <1>1, <2>3, ElementOfSeq
    <3>2. QED
      BY <3>1 DEF AdmissionInfo
  <2>5. Pairs(RemoveAt(l, i)) \subseteq Pairs(l)
    BY <1>1, <2>3, PairsRemoved
  <2> HIDE DEF e
  <2>6. CallsIn(Append(g.callsAdmittedList, e)) = CallsIn(g.callsAdmittedList) \cup {e.call}
    BY <1>1, <2>4, CallAppended
  <2>7. QED
    BY <2>2, <2>3, <2>4, <2>5, <2>6 DEF Asks, AdmittedCalls, h
<1>4. QED
  BY <1>2, <1>3

LEMMA AskRejected ==
  ASSUME NEW g \in Client, NEW seq
  PROVE  LET h == HandleAdmissionReject(g, seq)
         IN  Asks(h) \subseteq Asks(g) /\ AdmittedCalls(h) = AdmittedCalls(g)
<1> DEFINE l == g.callsPendingList
           m == WithoutSeq(l, seq)
           h == HandleAdmissionReject(g, seq)
<1>1. h = [g EXCEPT !.callsPendingList = m]
  BY Zenon DEF HandleAdmissionReject, WithoutSeq
<1>2. Pairs(m) \subseteq Pairs(l)
  BY EntriesTyped, PairsWithoutSeq
<1> HIDE DEF m, h
<1>3. h.callsPendingList = m /\ h.callsAdmittedList = g.callsAdmittedList
  BY <1>1 DEF Client
<1>4. QED
  BY <1>2, <1>3 DEF Asks, AdmittedCalls, h

LEMMA AskDisengaged ==
  ASSUME NEW g \in Client, OneEntry(g), NEW c, NEW ok \in BOOLEAN
  PROVE  LET h == SendDisengageRequest(g, c, ok)
         IN  Asks(h) = Asks(g) /\ AdmittedCalls(h) \subseteq AdmittedCalls(g)
<1>1. SendDisengageRequest(g, c, ok).callsPendingList = g.callsPendingList
  BY DEF SendDisengageRequest, Fails, TakeSeq, Client
<1>2. QED
  BY <1>1, CallDisengaged DEF Asks

LEMMA AskCleaned ==
  ASSUME NEW g \in Client, OneEntry(g), NEW c
  PROVE  LET h == CleanCall(g, c)
         IN  Asks(h) \subseteq Asks(g) /\ AdmittedCalls(h) \subseteq AdmittedCalls(g)
<1> DEFINE h == CleanCall(g, c)
           l == g.callsPendingList
           m == WithoutReference(l, c)
<1>1. h.callsPendingList = l \/ h.callsPendingList = m
  BY DEF CleanCall, WithoutReference, Client
<1>2. Pairs(m) \subseteq Pairs(l)
  BY EntriesTyped, PairsWithoutReference
<1> HIDE DEF m
<1>3. Asks(h) \subseteq Asks(g)
  BY <1>1, <1>2 DEF Asks
<1>4. AdmittedCalls(h) \subseteq AdmittedCalls(g)
  BY CallCleaned DEF Unmoved, Dropped
<1>5. QED
  BY <1>3, <1>4

(* A call that is asked about again is found by its reference, which is its *)
(* own: it is its entry that gets the new number.                           *)
LEMMA AskRenewed ==
  ASSUME OwnReferences, NEW g \in Client, NEW c \in Call, NEW ok \in BOOLEAN
  PROVE  Asks(ResendAdmissionRequest(g, c, ok)) \subseteq Asks(g) \cup {<< c, RequestNumber(g) >>}
<1> DEFINE l == g.callsPendingList
           i == FirstReference(l, c)
           I == {j \in 1 .. Len(l) : SameReference(l[j].call, c)}
           q == RequestNumber(g)
           n == TakeSeq(g)
           h == ResendAdmissionRequest(g, c, ok)
<1>1. n.callsPendingList = l /\ n \in Client /\ q \in 1 .. SeqNumbers - 1
  BY NumberTaken
<1>2. /\ l \in Seq(AdmissionInfo) /\ Len(l) \in Nat
      /\ \A j \in 1 .. Len(l) : l[j] \in AdmissionInfo
  BY EntriesTyped, ElementOfSeq, LenProperties
<1>3. ASSUME NEW k, NEW p, h = AddARQTimer(k, p, ok), k \in Client
      PROVE  h.callsPendingList = k.callsPendingList
  <2> HIDE DEF h
  <2>1. QED
    BY <1>3 DEF AddARQTimer, Fails, Client
<1>4. CASE i = 0
  <2>1. h = AddARQTimer(n, Last(l).call, ok) \/ h = AddARQTimer(n, "NULL", ok)
    BY <1>4, Zenon DEF ResendAdmissionRequest, FirstReference
  <2>2. h.callsPendingList = l
    BY <1>1, <1>3, <2>1
  <2>3. QED
    BY <2>2 DEF Asks
<1>5. CASE i # 0
  <2>1. i \in I
    <3>1. i = IF I # {} THEN Min(I) ELSE 0
      BY DEF FirstReference, SelectInSeq
    <3>2. I \in SUBSET (1 .. Len(l))
      OBVIOUS
    <3> HIDE DEF I, i
    <3>3. QED
      BY <1>2, <1>5, <3>1, <3>2, LeastIndex
  <2>2. PICK j \in 1 .. Len(l) : j = i /\ SameReference(l[j].call, c)
    BY <2>1
  <2> DEFINE e == [l[j] EXCEPT !.seq = q]
             m == [l EXCEPT ![j] = e]
             k == [n EXCEPT !.callsPendingList = m]
  <2>3. h = AddARQTimer([n EXCEPT !.callsPendingList[j].seq = q], l[j].call, ok)
    BY <1>5, <2>2, Zenon DEF ResendAdmissionRequest, FirstReference
  <2>4. [n EXCEPT !.callsPendingList[j].seq = q]
          = [n EXCEPT !.callsPendingList = [n.callsPendingList EXCEPT ![j].seq = q]]
    BY Zenon
  <2>5. [n EXCEPT !.callsPendingList[j].seq = q] = k
    BY <1>1, <2>4, Zenon
  <2> HIDE DEF i, q, n, I
  <2>6. e \in AdmissionInfo /\ e.call = l[j].call /\ e.seq = q
    BY <1>1, <1>2 DEF AdmissionInfo
  <2>7. e.call = c
    <3>1. l[j].call \in Call
      BY <1>2 DEF AdmissionInfo
    <3>2. QED
      BY <2>2, <2>6, <3>1 DEF OwnReferences
  <2> HIDE DEF e
  <2>8. m \in Seq(AdmissionInfo) /\ Len(m) = Len(l)
        /\ \A x \in 1 .. Len(l) : m[x] = IF x = j THEN e ELSE l[x]
    BY <1>2, <2>6, ExceptSeq
  <2> HIDE DEF m
  <2>9. Pairs(m) \subseteq Pairs(l) \cup {<< c, q >>}
    <3>1. ASSUME NEW x \in 1 .. Len(l)
          PROVE  << m[x].call, m[x].seq >> \in Pairs(l) \cup {<< c, q >>}
      BY <1>2, <2>6, <2>7, <2>8, PairsOf
    <3>2. QED
      BY <2>8, <3>1 DEF Pairs
  <2>10. k \in Client /\ k.callsPendingList = m
    BY <1>1, <2>8 DEF Client
  <2> HIDE DEF k
  <2>11. h.callsPendingList = m
    BY <1>3, <2>3, <2>5, <2>10
  <2>12. QED
    BY <2>9, <2>11 DEF Asks, q
<1>6. QED
  BY <1>4, <1>5

LEMMA AskRetried ==
  ASSUME OwnReferences, NEW g \in Client, OneEntry(g), NEW i \in DOMAIN g.arqTimers,
         g.arqTimers[i] \in Call, NEW ok \in BOOLEAN, NEW stale
  PROVE  LET h == ARQTimerExpired(g, i, ok, stale)
         IN  /\ Asks(h) \subseteq Asks(g) \cup {<< g.arqTimers[i], RequestNumber(g) >>}
             /\ AdmittedCalls(h) = AdmittedCalls(g)
<1> DEFINE c == g.arqTimers[i]
           r == ResendAdmissionRequest(g, c, ok)
           q == [r EXCEPT !.callsPendingList = CountRetry(@, c),
                          !.callsAdmittedList = CountRetry(@, c)]
           b == RetriesOf(g, c, stale) >= MaxRetries
           k == IF b THEN GivesUp(g) ELSE IF ok THEN q ELSE r
           h == ARQTimerExpired(g, i, ok, stale)
           renewed == Asks(g) \cup {<< c, RequestNumber(g) >>}
<1>1. h = [k EXCEPT !.arqTimers = RemoveAt(k.arqTimers, i)]
  BY Zenon DEF ARQTimerExpired
<1>2. /\ r \in Client /\ r.callsPendingList \in Seq(AdmissionInfo)
      /\ Asks(r) \subseteq renewed
  BY AskRenewed, AskedAgain, AdmissionRequestSentAgain DEF Listed
<1>3. AdmittedCalls(h) = AdmittedCalls(g)
  BY RetryListed DEF Unmoved
<1> HIDE DEF r, b, c
<1>4. q.callsPendingList = CountRetry(r.callsPendingList, c) /\ DOMAIN q = DOMAIN r
  BY <1>2 DEF Client
<1>5. Asks(q) \subseteq renewed
  BY <1>2, <1>4, PairsCounted DEF Asks
<1>6. /\ GivesUp(g).callsPendingList = g.callsPendingList
      /\ GivesUp(g) \in Client
  BY ClientGivesUp DEF GivesUp, Client
<1>7. Asks(GivesUp(g)) \subseteq renewed
  BY <1>6 DEF Asks
<1> HIDE DEF q, renewed
<1>8. Asks(k) \subseteq renewed /\ (k \in Client \/ DOMAIN k = DOMAIN r)
  BY <1>2, <1>4, <1>5, <1>6, <1>7
<1> HIDE DEF k, h
<1>9. h.callsPendingList = k.callsPendingList
  BY <1>1, <1>2, <1>8 DEF Client
<1>10. QED
  BY <1>3, <1>8, <1>9 DEF Asks, h, c, renewed
-----------------------------------------------------------------------------
(* The steps.                                                               *)

(* Nothing is asked that was not asked before. *)
LEMMA FitsLess ==
  ASSUME Fits, Asks(gk') \subseteq Asks(gk), AdmittedCalls(gk') \subseteq AdmittedCalls(gk),
         requests' \subseteq requests, answers' \subseteq answers, granted' = granted
  PROVE  Fits'
  BY DEF Fits

(* One call is asked about under a number that was free. *)
LEMMA FitsNew ==
  ASSUME Fits, NumberIsFree, gk.state = "Registered" \/ gk.arqTimers # << >>, NEW c,
         Asks(gk') \subseteq Asks(gk) \cup {<< c, RequestNumber(gk) >>},
         AdmittedCalls(gk') = AdmittedCalls(gk),
         requests' \subseteq requests \cup {[call |-> c, seq |-> RequestNumber(gk)]},
         answers' = answers, granted' = granted
  PROVE  Fits'
<1> DEFINE n == RequestNumber(gk)
           w == [call |-> c, seq |-> n]
<1>1. w.call = c /\ w.seq = n
  OBVIOUS
<1>2. << c, n >>[1] = c /\ << c, n >>[2] = n
  OBVIOUS
<1> HIDE DEF n, w
<1>3. /\ \A m \in requests \cup answers : m.seq # n
      /\ \A p \in Asks(gk) : p[2] # n
  BY DEF NumberIsFree, n
<1>4. ASSUME NEW p \in Asks(gk')
      PROVE  /\ \A m \in requests' : m.seq = p[2] => m.call = p[1]
             /\ \A a \in answers' : a.type = "ACF" /\ a.seq = p[2] => p[1] \in granted'
  <2>1. requests' \subseteq requests \cup {w} /\ Asks(gk') \subseteq Asks(gk) \cup {<< c, n >>}
    BY DEF w, n
  <2>2. CASE p \in Asks(gk)
    BY <1>1, <1>3, <2>1, <2>2 DEF Fits
  <2>3. CASE p = << c, n >>
    BY <1>1, <1>2, <1>3, <2>1, <2>3
  <2>4. QED
    BY <2>1, <2>2, <2>3
<1>5. QED
  BY <1>4 DEF Fits

LEMMA SurvivesAsks ==
  ASSUME NEW g, NEW h, SameLists(g, h)
  PROVE  /\ Asks(Survives(h)) \subseteq Asks(g)
         /\ AdmittedCalls(Survives(h)) \subseteq AdmittedCalls(g)
  BY SameListsAsk, NoClientAsks DEF Survives

LEMMA FitsKept ==
  ASSUME OwnReferences, ClientInv, CallsInv, AskedOnce, Fits, NumberIsFree, [Next]_vars
  PROVE  Fits'
<1>1. gk \in Client /\ OneEntry(gk)
  BY DEF ClientInv, AskedOnce
<1>2. SendOk \subseteq BOOLEAN /\ MayLose \subseteq {"GRQ", "RRQ"}
  BY SessionAssumption
<1>3. ASSUME NEW g, SameLists(gk, g), gk' = g \/ gk' = Survives(g) \/ gk' = NoClient,
             requests' \subseteq requests, answers' \subseteq answers, granted' = granted
      PROVE  Fits'
  BY <1>3, SameListsAsk, SurvivesAsks, NoClientAsks, FitsLess
<1>4. SameLists(gk, gk)
  BY DEF SameLists
<1>5. CASE RegistrationStep
  <2>1. requests' = requests /\ answers' = answers /\ granted' = granted
    BY <1>5 DEF RegistrationStep, StartStack, GRQTimer, RRQTimer, REGTimer, onlyGk,
         ReceiveGatekeeperAnswer, ReceiveRegistrationAnswer, ReceiveURQ
  <2>2. ASSUME NEW ok \in SendOk, StartStack(ok) PROVE Fits'
    <3>1. SameLists(gk, Start(gk, ok))
      BY <1>1, <1>2, RequestListed
    <3>2. gk' = Start(gk, ok) \/ gk' = NoClient
      BY <2>2, Zenon DEF StartStack
    <3>3. QED
      BY <1>3, <2>1, <3>1, <3>2
  <2>3. ASSUME NEW ok \in SendOk, GRQTimer(ok) \/ RRQTimer(ok) \/ REGTimer(ok) PROVE Fits'
    <3>1. SameLists(gk, gk')
      BY <1>1, <1>2, <2>3, TimersListed DEF GRQTimer, RRQTimer, REGTimer
    <3>2. QED
      BY <1>3, <2>1, <3>1
  <2>4. ASSUME NEW answer, NEW ok \in SendOk, ReceiveGatekeeperAnswer(answer, ok) PROVE Fits'
    <3> DEFINE t == TakeAnswerTo("GRQ")
    <3>1. t \in Client /\ SameLists(gk, t)
      BY <1>1, <2>4, AnswerTakenListed DEF ReceiveGatekeeperAnswer
    <3>2. \/ gk' = Survives(HandleGatekeeperConfirm(t, answer, ok))
          \/ gk' = Survives(HandleGatekeeperReject(t))
      BY <2>4, Zenon DEF ReceiveGatekeeperAnswer
    <3> HIDE DEF t
    <3>3. /\ SameLists(gk, HandleGatekeeperConfirm(t, answer, ok))
          /\ SameLists(gk, HandleGatekeeperReject(t))
      BY <1>2, <3>1, AnswersListed, SameListsTwice
    <3>4. QED
      BY <1>3, <2>1, <3>2, <3>3
  <2>5. ASSUME NEW answer, NEW ok \in SendOk, ReceiveRegistrationAnswer(answer, ok)
        PROVE  Fits'
    <3> DEFINE t == TakeAnswerTo("RRQ")
    <3>1. t \in Client /\ SameLists(gk, t)
      BY <1>1, <2>5, AnswerTakenListed DEF ReceiveRegistrationAnswer
    <3>2. \/ gk' = Survives(HandleRegistrationConfirm(t, answer))
          \/ gk' = Survives(HandleRegistrationReject(t, answer, ok))
      BY <2>5, Zenon DEF ReceiveRegistrationAnswer
    <3> HIDE DEF t
    <3>3. /\ SameLists(gk, HandleRegistrationConfirm(t, answer))
          /\ SameLists(gk, HandleRegistrationReject(t, answer, ok))
      BY <1>2, <3>1, AnswersListed, SameListsTwice
    <3>4. QED
      BY <1>3, <2>1, <3>2, <3>3
  <2>6. ASSUME NEW everything \in BOOLEAN, NEW okUCF \in SendOk, NEW ok \in SendOk,
               ReceiveURQ(everything, okUCF, ok)
        PROVE  Fits'
    <3>1. SameLists(gk, HandleUnregistrationRequest(gk, everything, okUCF, ok))
      BY <1>1, <1>2, AnswersListed
    <3>2. gk' = Survives(HandleUnregistrationRequest(gk, everything, okUCF, ok))
      BY <2>6, Zenon DEF ReceiveURQ
    <3>3. QED
      BY <1>3, <2>1, <3>1, <3>2
  <2>7. QED
    BY <1>5, <2>2, <2>3, <2>4, <2>5, <2>6 DEF RegistrationStep
<1>6. ASSUME NEW i \in DOMAIN gk.arqTimers, NEW ok \in SendOk, NEW stale, ARQTimer(i, ok, stale)
      PROVE  Fits'
  <2> DEFINE c == gk.arqTimers[i]
             h == ARQTimerExpired(gk, i, ok, stale)
  <2>1. granted' = granted /\ c \in Owners /\ gk.arqTimers # << >>
    <3>1. gk.arqTimers \in Seq(Owners) /\ DOMAIN gk.arqTimers = 1 .. Len(gk.arqTimers)
      BY <1>1, ClientFields, LenProperties DEF Owners
    <3>2. DOMAIN << >> = {}
      OBVIOUS
    <3>3. QED
      BY <1>6, <3>1, <3>2, ElementOfSeq DEF ARQTimer
  <2>2. CASE c = "NULL"
    <3>1. gk' = NoClient /\ requests' = {} /\ answers' = {}
      BY <1>6, <2>2 DEF ARQTimer, Crash
    <3>2. QED
      BY <1>3, <1>4, <2>1, <3>1
  <2>3. CASE c # "NULL"
    <3>1. /\ gk' = h /\ answers' = answers
          /\ requests' \subseteq requests \cup {[call |-> c, seq |-> RequestNumber(gk)]}
      BY <1>6, <2>3, Zenon DEF ARQTimer
    <3>2. c \in Call
      BY <2>1, <2>3 DEF Owners
    <3>3. /\ Asks(h) \subseteq Asks(gk) \cup {<< c, RequestNumber(gk) >>}
          /\ AdmittedCalls(h) = AdmittedCalls(gk)
      BY <1>1, <1>2, <3>2, AskRetried
    <3> HIDE DEF c, h
    <3>4. QED
      BY <2>1, <3>1, <3>3, FitsNew
  <2>4. QED
    BY <2>2, <2>3
<1>7. ASSUME NEW m \in answers, NEW connects \in BOOLEAN, ReceiveACF(m, connects) PROVE Fits'
  <2>1. /\ gk' = HandleAdmissionConfirm(gk, m.seq) /\ m.type = "ACF"
        /\ answers' = answers \ {m} /\ requests' = requests /\ granted' = granted
    BY <1>7 DEF ReceiveACF
  <2>2. Asks(gk') \subseteq Asks(gk)
    BY <1>1, <2>1, AskConfirmed
  <2>3. AdmittedCalls(gk') \subseteq granted'
    <3>1. CASE AdmittedCalls(gk') = AdmittedCalls(gk)
      BY <2>1, <3>1 DEF Fits
    <3>2. ASSUME NEW c \in Call, << c, m.seq >> \in Asks(gk),
                 AdmittedCalls(gk') = AdmittedCalls(gk) \cup {c}
          PROVE  AdmittedCalls(gk') \subseteq granted'
      <4> DEFINE p == << c, m.seq >>
      <4>1. p[1] = c /\ p[2] = m.seq /\ p \in Asks(gk)
        BY <3>2
      <4> HIDE DEF p
      <4>2. c \in granted
        BY <2>1, <4>1 DEF Fits
      <4>3. QED
        BY <2>1, <3>2, <4>2 DEF Fits
    <3>3. QED
      BY <1>1, <2>1, <3>1, <3>2, AskConfirmed
  <2>4. QED
    BY <2>1, <2>2, <2>3 DEF Fits
<1>8. ASSUME NEW m \in answers, ReceiveARJ(m) PROVE Fits'
  <2>1. /\ gk' = HandleAdmissionReject(gk, m.seq)
        /\ answers' \subseteq answers /\ requests' = requests /\ granted' = granted
    BY <1>8 DEF ReceiveARJ
  <2>2. QED
    BY <1>1, <2>1, AskRejected, FitsLess
<1>9. ASSUME NEW m \in requests, GkAdmits(m) PROVE Fits'
  <2> DEFINE a == [type |-> "ACF", seq |-> m.seq]
  <2>1. /\ granted' = granted \cup {m.call} /\ answers' = answers \cup {a}
        /\ requests' \subseteq requests /\ gk' = gk
    BY <1>9 DEF GkAdmits
  <2>2. a.seq = m.seq
    OBVIOUS
  <2> HIDE DEF a
  <2>3. QED
    BY <2>1, <2>2 DEF Fits
<1>10. ASSUME NEW m \in requests, GkRejects(m) PROVE Fits'
  <2> DEFINE a == [type |-> "ARJ", seq |-> m.seq]
  <2>1. /\ granted' = granted /\ answers' = answers \cup {a}
        /\ requests' \subseteq requests /\ gk' = gk
    BY <1>10 DEF GkRejects
  <2>2. a.type # "ACF"
    OBVIOUS
  <2> HIDE DEF a
  <2>3. QED
    BY <2>1, <2>2 DEF Fits
<1>11. CASE AdmissionStep
  BY <1>6, <1>7, <1>8, <1>9, <1>10, <1>11 DEF AdmissionStep
<1>12. ASSUME NEW c \in Call, NEW ok \in SendOk, MakeCall(c, ok) \/ ReceiveSetup(c, ok)
       PROVE  Fits'
  <2> DEFINE w == [call |-> c, seq |-> RequestNumber(gk)]
             h == SendAdmissionRequest(gk, c, ok)
  <2>1. answers' = answers /\ granted' = granted
    BY <1>12 DEF MakeCall, ReceiveSetup
  <2>2. \/ gk' = gk /\ requests' = requests
        \/ gk.state = "Registered" /\ gk' = h /\ requests' \subseteq requests \cup {w}
    BY <1>12, Zenon DEF MakeCall, ReceiveSetup, Sent, ARQ
  <2>3. /\ Asks(h) = Asks(gk) \cup {<< c, RequestNumber(gk) >>}
        /\ AdmittedCalls(h) = AdmittedCalls(gk)
    BY <1>1, <1>2, AskAdded
  <2> HIDE DEF h
  <2>4. QED
    BY <1>3, <1>4, <2>1, <2>2, <2>3, FitsNew
<1>13. ASSUME NEW c \in Call, NEW ok \in SendOk,
              SendReleaseComplete(c, ok) \/ ReceiveReleaseComplete(c, ok)
       PROVE  Fits'
  <2>1. requests' = requests /\ answers' = answers /\ granted' = granted
    BY <1>13 DEF SendReleaseComplete, ReceiveReleaseComplete
  <2>2. gk' = gk \/ gk' = SendDisengageRequest(gk, c, ok)
    BY <1>13, Zenon DEF SendReleaseComplete, ReceiveReleaseComplete, Disengage
  <2>3. QED
    BY <1>1, <1>2, <1>3, <1>4, <2>1, <2>2, AskDisengaged, FitsLess
<1>14. ASSUME NEW c \in Call, EndCall(c) PROVE Fits'
  <2>1. /\ gk' = gk \/ gk' = NoClient \/ gk' = CleanCall(gk, c)
        /\ requests' \subseteq requests /\ answers' \subseteq answers /\ granted' = granted
    BY <1>14, Zenon DEF EndCall, Crash
  <2>2. QED
    BY <1>1, <1>3, <1>4, <2>1, AskCleaned, FitsLess
<1>15. ASSUME NEW c \in Call, HangUp(c) \/ CallEstbTimer(c) \/ SessionTimer(c) \/ PeerCloses(c)
       PROVE  Fits'
  <2>1. gk' = gk /\ requests' = requests /\ answers' = answers /\ granted' = granted
    BY <1>15 DEF HangUp, CallEstbTimer, SessionTimer, PeerCloses, onlyCall
  <2>2. QED
    BY <1>3, <1>4, <2>1
<1>16. ASSUME NEW type \in MayLose, Lose(type) PROVE Fits'
  <2>1. /\ SameLists(gk, gk')
        /\ requests' = requests /\ answers' = answers /\ granted' = granted
    BY <1>1, <1>2, <1>16, AnswerTakenListed DEF Lose, onlyGk
  <2>2. QED
    BY <1>3, <2>1
<1>17. CASE StopMonitor
  BY <1>3, <1>4, <1>17 DEF StopMonitor
<1>18. CASE UNCHANGED vars
  BY <1>3, <1>4, <1>18 DEF vars
<1>19. ASSUME NEW c \in Call, CallStep(c) PROVE Fits'
  BY <1>12, <1>13, <1>14, <1>15, <1>19 DEF CallStep
<1>20. QED
  BY <1>5, <1>11, <1>16, <1>17, <1>18, <1>19 DEF Next

(* A call is let through only if the gatekeeper has let it through, however *)
(* late a confirmation is and however often it was asked for, with calls    *)
(* whose references are their own, in a behaviour in which no number comes  *)
(* round while something that bears it is left (AdmittedWasGranted).  An    *)
(* answer names no call: ooGkClientHandleAdmissionConfirm goes by its       *)
(* number alone, which every request again renews.                          *)
THEOREM OnlyGrantedIsAdmitted ==
  ASSUME OwnReferences
  PROVE  Spec /\ []NumberIsFree => []AdmittedWasGranted
<1> DEFINE Inv == ClientInv /\ CallsInv /\ AskedOnce /\ Fits
<1>1. Init => Inv
  <2>1. ASSUME Init PROVE Fits
    <3>1. requests = {} /\ answers = {} /\ SameLists(NoClient, gk)
      BY <2>1 DEF Init, NoClient, InitialClient, SameLists
    <3>2. Asks(gk) = {} /\ AdmittedCalls(gk) = {}
      BY <3>1, SameListsAsk, NoClientAsks
    <3>3. QED
      BY <3>2 DEF Fits
  <2>2. QED
    BY <2>1, InitialInv
<1>2. Inv /\ NumberIsFree /\ [Next]_vars => Inv'
  BY ClientKept, CallsKept, StepMaps, FitsKept DEF Maps
<1>3. Inv => AdmittedWasGranted
  BY DEF Fits, AdmittedWasGranted, AdmittedCalls
<1>4. QED
  BY <1>1, <1>2, <1>3, PTL DEF Spec
=============================================================================
