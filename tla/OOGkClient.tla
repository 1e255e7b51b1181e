----------------------------- MODULE OOGkClient -----------------------------
(***************************************************************************)
(* ooGkClient.c: the client record gH323ep.gkClient and the functions that *)
(* change it.  A function is an operator from the record it finds to the   *)
(* record it leaves; ok says whether sendto works.  onTheWay and requests  *)
(* hold what the client has sent and the network has neither lost nor      *)
(* answered.                                                               *)
(***************************************************************************)
EXTENDS Integers, Sequences, SequencesExt, FiniteSets

CONSTANTS
  Call,           \* calls that can exist
  CallReference,  \* the reference of each; an incoming call's is its caller's choice
  GkMode,         \* "RasUseSpecificGatekeeper" or "RasDiscoverGatekeeper"
  SeqNumbers,         \* number of values of requestSeqNum, 2^16 in the code
  MaxRetries      \* OO_MAX_GRQ_RETRIES, _RRQ_ and _ARQ_: 3 in the code

ASSUME GkAssumption ==
  /\ CallReference \in [Call -> Nat]
  /\ GkMode \in {"RasUseSpecificGatekeeper", "RasDiscoverGatekeeper"}
  /\ SeqNumbers \in Nat /\ SeqNumbers > 1
  /\ MaxRetries \in Nat
  /\ "NULL" \notin Call

(* "None": gH323ep.gkClient is NULL. *)
ClientState ==
  {"None", "Idle", "Discovered", "Registered", "Unregistered", "GkErr", "Failed"}

(* What ooGkClientHandleClientOrGkFailure is called for. *)
FailureState == {"GkErr", "Failed"}

(* RasCallAdmissionInfo; an entry is known by its call, which has one at most. *)
AdmissionInfo == [call : Call, retries : Nat, seq : 1 .. SeqNumbers - 1]

(* Timers of a type other than ARQ are alike, so they are counted; an ARQ   *)
(* timer is the entry it points to.  regTimeout says whether it is not 0.   *)
Timers   == [GRQ : Nat, RRQ : Nat, REG : Nat]
OnTheWay == [GRQ : Nat, RRQ : Nat]

Client ==
  [state : ClientState, discoveryComplete : BOOLEAN,
   grqRetries : Nat, rrqRetries : Nat,
   requestSeqNum : 0 .. SeqNumbers - 1, regTimeout : BOOLEAN,
   timers : Timers,
   arqTimers : Seq(Call \cup {"NULL"}),
   callsPendingList : Seq(AdmissionInfo), callsAdmittedList : Seq(AdmissionInfo),
   onTheWay : OnTheWay]

(* ooGkClientInit *)
InitialClient ==
  [state |-> "Idle", discoveryComplete |-> FALSE,
   grqRetries |-> 0, rrqRetries |-> 0,
   requestSeqNum |-> 0, regTimeout |-> TRUE,
   timers |-> [GRQ |-> 0, RRQ |-> 0, REG |-> 0],
   arqTimers |-> << >>, callsPendingList |-> << >>, callsAdmittedList |-> << >>,
   onTheWay |-> [GRQ |-> 0, RRQ |-> 0]]

(* ooGkClientDestroy: the lists and the timers go with the memory context.  *)
(* The request to unregister has no answer the client waits for.            *)
NoClient == [InitialClient EXCEPT !.state = "None"]

Fails(g)  == [g EXCEPT !.state = "Failed"]
GivesUp(g) == [g EXCEPT !.state = "GkErr"]
-----------------------------------------------------------------------------
(* Requests and timers.                                                     *)

(* The number a request gets; 0 is passed over. *)
RequestNumber(g) == IF g.requestSeqNum = 0 THEN 1 ELSE g.requestSeqNum
(* Mutant: the number is not kept in its 16 bits.                           *)
TakeSeqWider(g) == [g EXCEPT !.requestSeqNum = RequestNumber(g) + 1]

TakeSeq(g) == [g EXCEPT !.requestSeqNum = (RequestNumber(g) + 1) % SeqNumbers]

AddTimer(g, type) == [g EXCEPT !.timers[type] = @ + 1]
DeleteTimer(g, type) == [g EXCEPT !.timers[type] = IF @ > 0 THEN @ - 1 ELSE 0]

(* ooGkClientSendMsg and the timer that is started after it *)
Request(g, type, ok) ==
  IF ok THEN AddTimer([TakeSeq(g) EXCEPT !.onTheWay[type] = @ + 1], type)
  ELSE Fails(TakeSeq(g))

(* ooGkClientSendGRQ, ooGkClientSendRRQ *)
SendGRQ(g, ok) == Request(g, "GRQ", ok)
SendRRQ(g, ok) == Request(g, "RRQ", ok)

(* ooGkClientStart, when the socket could be made *)
Start(g, ok) == SendGRQ([g EXCEPT !.discoveryComplete = FALSE], ok)
-----------------------------------------------------------------------------
(* Discovery and registration.  Answers are not told apart by number: what  *)
(* arrives is taken for the answer to what was sent last.                   *)

HandleGatekeeperReject(g) ==
  IF GkMode = "RasUseSpecificGatekeeper" THEN GivesUp(DeleteTimer(g, "GRQ")) ELSE g

HandleGatekeeperConfirm(g, answer, ok) ==
  CASE g.discoveryComplete -> g
    [] ~g.discoveryComplete /\ answer = "GCF without id" -> g
    [] ~g.discoveryComplete /\ answer = "GCF without address" -> GivesUp(g)
    [] OTHER ->
         SendRRQ(DeleteTimer([g EXCEPT !.discoveryComplete = TRUE, !.state = "Discovered"],
                             "GRQ"), ok)

(* Mutant: no timer to keep the registration alive.                         *)
HandleRegistrationConfirmNoKeepAlive(g, answer) ==
  DeleteTimer([g EXCEPT !.state = "Registered", !.regTimeout = (answer = "RCF")], "RRQ")

HandleRegistrationConfirm(g, answer) ==
  LET h == IF answer = "RCF" THEN AddTimer([g EXCEPT !.regTimeout = TRUE], "REG")
           ELSE [g EXCEPT !.regTimeout = FALSE]
  IN  [DeleteTimer(h, "RRQ") EXCEPT !.state = "Registered"]

HandleRegistrationReject(g, answer, ok) ==
  LET h == DeleteTimer(g, "RRQ")
  IN  CASE answer = "RRJ discoveryRequired" ->
             SendGRQ([h EXCEPT !.discoveryComplete = FALSE, !.state = "Idle",
                               !.rrqRetries = 0, !.grqRetries = 0], ok)
        [] answer = "RRJ fullRegistrationRequired" ->
             SendRRQ([h EXCEPT !.state = "Discovered", !.rrqRetries = 0], ok)
        [] OTHER -> GivesUp(h)

(* ooGkClientHandleUnregistrationRequest: confirmed (okUCF), and, unless it *)
(* is about some aliases only, registered anew.                             *)
HandleUnregistrationRequest(g, everything, okUCF, ok) ==
  LET h == IF okUCF THEN g ELSE Fails(g)
  IN  IF everything
      THEN SendRRQ([h EXCEPT !.rrqRetries = 0, !.state = "Discovered"], ok)
      ELSE h

(* Mutant: the client does not give up when no retry is left.               *)
GRQTimerExpiredSilently(g, ok) ==
  DeleteTimer(IF g.grqRetries >= MaxRetries THEN g
              ELSE [SendGRQ(g, ok) EXCEPT !.grqRetries = IF ok THEN @ + 1 ELSE @],
              "GRQ")

(* ooGkClientRRQTimerExpired, ooGkClientGRQTimerExpired: the timer that has *)
(* fired is deleted when the callback returns.                              *)
RRQTimerExpired(g, ok) ==
  DeleteTimer(IF g.rrqRetries >= MaxRetries THEN GivesUp(g)
              ELSE [SendRRQ(g, ok) EXCEPT !.rrqRetries = IF ok THEN @ + 1 ELSE @],
              "RRQ")
GRQTimerExpired(g, ok) ==
  DeleteTimer(IF g.grqRetries >= MaxRetries THEN GivesUp(g)
              ELSE [SendGRQ(g, ok) EXCEPT !.grqRetries = IF ok THEN @ + 1 ELSE @],
              "GRQ")
REGTimerExpired(g, ok) == DeleteTimer(SendRRQ(g, ok), "REG")

-----------------------------------------------------------------------------
(* Admission.  The lists are searched by call reference, or by the number   *)
(* of the last request.                                                     *)

CallsIn(list) == {list[i].call : i \in DOMAIN list}

SameReference(c, d) == CallReference[c] = CallReference[d]

AddARQTimer(g, pAdmInfo, ok) ==
  IF ok THEN [g EXCEPT !.arqTimers = Append(@, pAdmInfo)] ELSE Fails(g)

(* ooGkClientSendAdmissionRequest for a new call, and for one asked before. *)
(* There the loop leaves pCallAdmInfo at the last entry if none matches.    *)
SendAdmissionRequest(g, c, ok) ==
  LET entry == [call |-> c, retries |-> 0, seq |-> RequestNumber(g)]
  IN  AddARQTimer([TakeSeq(g) EXCEPT !.callsPendingList = Append(@, entry)], c, ok)

ResendAdmissionRequest(g, c, ok) ==
  LET pending == g.callsPendingList
      i       == SelectInSeq(pending, LAMBDA e : SameReference(e.call, c))
      h       == TakeSeq(g)
  IN  CASE i # 0 ->
             AddARQTimer([h EXCEPT !.callsPendingList[i].seq = RequestNumber(g)], pending[i].call, ok)
        [] i = 0 /\ pending # << >> -> AddARQTimer(h, Last(pending).call, ok)
        [] OTHER -> AddARQTimer(h, "NULL", ok)

(* Mutant of HandleAdmissionConfirm: the entry stays where it was.          *)
HandleAdmissionConfirmCopies(g, seq) ==
  LET i == SelectInSeq(g.callsPendingList, LAMBDA e : e.seq = seq)
  IN  IF i = 0 THEN g
      ELSE LET entry == g.callsPendingList[i]
           IN  [g EXCEPT !.arqTimers = RemoveFirstMatch(@, LAMBDA p : p = entry.call),
                         !.callsAdmittedList = Append(@, entry)]

(* Mutant: any confirmation is taken for the first call that waits.         *)
HandleAdmissionConfirmFirst(g, seq) ==
  IF g.callsPendingList = << >> THEN g
  ELSE LET entry == Head(g.callsPendingList)
       IN  [g EXCEPT !.arqTimers = RemoveFirstMatch(@, LAMBDA p : p = entry.call),
                     !.callsPendingList = Tail(@),
                     !.callsAdmittedList = Append(@, entry)]

(* ooGkClientHandleAdmissionConfirm; the call itself goes on in CallAdmitted. *)
HandleAdmissionConfirm(g, seq) ==
  LET i == SelectInSeq(g.callsPendingList, LAMBDA e : e.seq = seq)
  IN  IF i = 0 THEN g
      ELSE LET entry == g.callsPendingList[i]
           IN  [g EXCEPT !.arqTimers = RemoveFirstMatch(@, LAMBDA p : p = entry.call),
                         !.callsPendingList = RemoveAt(@, i),
                         !.callsAdmittedList = Append(@, entry)]

(* ooGkClientHandleAdmissionReject: the ARQ timer is left.                  *)
HandleAdmissionReject(g, seq) ==
  [g EXCEPT !.callsPendingList = RemoveFirstMatch(@, LAMBDA e : e.seq = seq)]

(* ooGkClientSendDisengageRequest *)
SendDisengageRequest(g, c, ok) ==
  [(IF ok THEN TakeSeq(g) ELSE Fails(TakeSeq(g))) EXCEPT
     !.callsAdmittedList = RemoveFirstMatch(@, LAMBDA e : SameReference(e.call, c))]

(* Mutant of CleanCall: the timer of a pending call is left.                *)
CleanCallKeepsTimer(g, c) ==
  IF \E e \in CallsIn(g.callsAdmittedList) : SameReference(e, c)
  THEN [g EXCEPT !.callsAdmittedList = RemoveFirstMatch(@, LAMBDA e : SameReference(e.call, c))]
  ELSE [g EXCEPT !.callsPendingList = RemoveFirstMatch(@, LAMBDA e : SameReference(e.call, c))]

(* ooGkClientCleanCall; a timer that points nowhere ends the program, see   *)
(* CleaningCrashes.                                                         *)
CleanCall(g, c) ==
  IF \E e \in CallsIn(g.callsAdmittedList) : SameReference(e, c)
  THEN [g EXCEPT !.callsAdmittedList = RemoveFirstMatch(@, LAMBDA e : SameReference(e.call, c))]
  ELSE [g EXCEPT
          !.arqTimers = RemoveFirstMatch(@, LAMBDA p : p # "NULL" /\ SameReference(p, c)),
          !.callsPendingList = RemoveFirstMatch(@, LAMBDA e : SameReference(e.call, c))]

(* The search for the timer comes to one without an entry before it finds one. *)
CleaningCrashes(g, c) ==
  /\ ~\E e \in CallsIn(g.callsAdmittedList) : SameReference(e, c)
  /\ LET i == SelectInSeq(g.arqTimers, LAMBDA p : p = "NULL" \/ SameReference(p, c))
     IN  i # 0 /\ g.arqTimers[i] = "NULL"

(* ooGkClientARQTimerExpired, timer i.  stale is what pAdmInfo->retries     *)
(* reads once the entry has been freed; its call is taken to be still there. *)
Entries(g) == g.callsPendingList \o g.callsAdmittedList
RetriesOf(g, c, stale) ==
  LET i == SelectInSeq(Entries(g), LAMBDA e : e.call = c)
  IN  IF i = 0 THEN stale ELSE Entries(g)[i].retries
CountRetry(list, c) ==
  [i \in DOMAIN list |-> IF list[i].call = c THEN [list[i] EXCEPT !.retries = @ + 1]
                          ELSE list[i]]

(* Mutant: the client does not give up when no retry is left.               *)
ARQTimerExpiredSilently(g, i, ok, stale) ==
  LET c == g.arqTimers[i]
      h == IF RetriesOf(g, c, stale) >= MaxRetries THEN g
           ELSE LET r == ResendAdmissionRequest(g, c, ok)
                IN  IF ok THEN [r EXCEPT !.callsPendingList = CountRetry(@, c),
                                         !.callsAdmittedList = CountRetry(@, c)]
                    ELSE r
  IN  [h EXCEPT !.arqTimers = RemoveAt(@, i)]

ARQTimerExpired(g, i, ok, stale) ==
  LET c == g.arqTimers[i]
      h == IF RetriesOf(g, c, stale) >= MaxRetries THEN GivesUp(g)
           ELSE LET r == ResendAdmissionRequest(g, c, ok)
                IN  IF ok THEN [r EXCEPT !.callsPendingList = CountRetry(@, c),
                                         !.callsAdmittedList = CountRetry(@, c)]
                    ELSE r
  IN  [h EXCEPT !.arqTimers = RemoveAt(@, i)]
=============================================================================
