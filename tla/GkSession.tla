------------------------------ MODULE GkSession ------------------------------
(***************************************************************************)
(* The gatekeeper client in the stack that drives it, a gatekeeper, and a  *)
(* network between them that loses, delays and reorders.  A pass of the    *)
(* event loop is cut into its steps: the client's timers with the test for *)
(* failure that follows them, one message from the gatekeeper with its     *)
(* test, and what is done for a call.  Every call uses the gatekeeper (no  *)
(* OO_M_DISABLEGK); of a call there is what admission can see of it.       *)
(***************************************************************************)
EXTENDS OOGkClient

CONSTANTS
  Outgoing,    \* the calls made here; the others come in
  GkAnswers,   \* what the gatekeeper may say
  MayLose,     \* which of GRQ and RRQ may be lost, or their answers
  MayBeLate,   \* which of them are answered late: the timer may expire first
  SendOk,      \* outcomes of sendto
  MaxUpsets    \* how often the gatekeeper makes the client register anew

ASSUME SessionAssumption ==
  /\ Outgoing \subseteq Call
  /\ MayLose \subseteq {"GRQ", "RRQ"} /\ MayBeLate \subseteq {"GRQ", "RRQ"}
  /\ SendOk \subseteq BOOLEAN
  /\ MaxUpsets \in Nat

VARIABLES
  gk,          \* gH323ep.gkClient
  call,        \* the calls
  requests,    \* ARQ on the way to the gatekeeper
  answers,     \* ACF and ARJ on the way back
  granted,     \* the calls the gatekeeper has let through
  stack,       \* ooMonitorChannels: "new", "running", "stopped" or "crashed"
  upsets,      \* how often the gatekeeper has made the client register anew
  unanswered   \* timeouts of RRQ since the last answer to one

vars == << gk, call, requests, answers, granted, stack, upsets, unanswered >>

-----------------------------------------------------------------------------
(* Calls.                                                                   *)

NotEnding == {"CREATED", "WAITING_ADMISSION"}
Ending    == {"CLEAR", "CLEAR_RELEASESENT", "CLEARED"}

(* "none": not made yet; "cleaned": ooCleanCall has freed it.  h225: its    *)
(* H.225 socket is open.  release: "queued" and "sent" are with             *)
(* OO_M_RELEASE_BUILT.  asked: the gatekeeper has been asked about it.        *)
CallRecord ==
  [callState : NotEnding \cup Ending \cup {"none", "cleaned"},
   h225 : BOOLEAN, release : {"none", "queued", "sent"}, sessionTimer : BOOLEAN,
   asked : BOOLEAN]

InitialCall ==
  [callState |-> "none", h225 |-> FALSE, release |-> "none",
   sessionTimer |-> FALSE, asked |-> FALSE]

(* ooCleanCall *)
Cleaned(x) == [InitialCall EXCEPT !.callState = "cleaned", !.asked = x.asked]

MarkClear(x) == IF x.callState \in NotEnding THEN [x EXCEPT !.callState = "CLEAR"] ELSE x

(* ooH323CallAdmitted: for any state of the call *)
CallAdmitted(c, x, connects) ==
  CASE c \in Outgoing /\ connects  -> [x EXCEPT !.h225 = TRUE]
    [] c \in Outgoing /\ ~connects -> MarkClear(x)
    [] c \notin Outgoing           -> x

-----------------------------------------------------------------------------
Init ==
  /\ gk = InitialClient
  /\ call = [c \in Call |-> InitialCall]
  /\ requests = {} /\ answers = {}
  /\ granted = {}
  /\ stack = "new" /\ upsets = 0 /\ unanswered = 0

onlyGk   == << call, requests, answers, granted, stack, upsets, unanswered >>
onlyCall == << gk, requests, answers, granted, stack, upsets, unanswered >>

(* Steps of a pass: the timers and the test after them come first, and a    *)
(* client that has given up there is the end of the pass.                   *)
InPass    == stack = "running" /\ gk.state # "GkErr"
Listening == stack = "running" /\ gk.state \notin FailureState \cup {"None"}

(* ooMonitorChannels before its loop: without a client that starts, there   *)
(* is none.                                                                 *)
StartStack(ok) ==
  /\ stack = "new"
  /\ stack' = "running"
  /\ gk' = IF ok THEN Start(gk, ok) ELSE NoClient
  /\ UNCHANGED << call, requests, answers, granted, upsets, unanswered >>

-----------------------------------------------------------------------------
(* The client's timers.  Several may fire in one pass, also after one that  *)
(* made the client give up.                                                 *)

MayExpire(type) ==
  /\ stack = "running"
  /\ gk.timers[type] > 0
  /\ type \notin MayBeLate \cup {"REG"} => gk.timers[type] > gk.onTheWay[type]

GRQTimer(ok) ==
  /\ MayExpire("GRQ")
  /\ gk' = GRQTimerExpired(gk, ok)
  /\ UNCHANGED onlyGk

RRQTimer(ok) ==
  /\ MayExpire("RRQ")
  /\ gk' = RRQTimerExpired(gk, ok)
  /\ unanswered' = IF unanswered < MaxRetries THEN unanswered + 1 ELSE unanswered
  /\ UNCHANGED << call, requests, answers, granted, stack, upsets >>

REGTimer(ok) ==
  /\ MayExpire("REG")
  /\ gk' = REGTimerExpired(gk, ok)
  /\ UNCHANGED onlyGk

(* The program ends where it follows a pointer that is NULL. *)
Crash == stack' = "crashed" /\ gk' = NoClient /\ requests' = {} /\ answers' = {}

(* ok and stale are of no account when the client gives up. *)
ARQTimer(i, ok, stale) ==
  /\ stack = "running" /\ i \in DOMAIN gk.arqTimers
  /\ LET c == gk.arqTimers[i]
         h == ARQTimerExpired(gk, i, ok, stale)
     IN  \/ c = "NULL" /\ Crash
         \/ /\ c # "NULL"
            /\ gk' = h
            /\ requests' = IF ok /\ h.state # "GkErr"
                           THEN requests \cup
                                {[call |-> c, seq |-> RequestNumber(gk)]}
                           ELSE requests
            /\ UNCHANGED << answers, stack >>
  /\ UNCHANGED << call, granted, upsets, unanswered >>

(* ooGkClientHandleClientOrGkFailure after the timers, then                 *)
(* ooStopMonitorCalls.                                                      *)
StopMonitor ==
  /\ stack = "running" /\ gk.state \in FailureState
  /\ gk' = NoClient
  /\ stack' = "stopped"
  /\ call' = [c \in Call |-> IF call[c].callState = "none" THEN call[c]
                             ELSE Cleaned(call[c])]
  /\ requests' = {} /\ answers' = {}
  /\ UNCHANGED << granted, upsets, unanswered >>

-----------------------------------------------------------------------------
(* ooGkClientReceive and the test for failure after it: the client goes,    *)
(* the stack stays.                                                         *)

Survives(g) == IF g.state \in FailureState THEN NoClient ELSE g

TakeAnswerTo(type) == [gk EXCEPT !.onTheWay[type] = @ - 1]

ReceiveGatekeeperAnswer(answer, ok) ==
  /\ Listening /\ gk.onTheWay.GRQ > 0
  /\ answer \in GkAnswers
  /\ LET g == TakeAnswerTo("GRQ")
     IN  \/ answer \in {"GCF", "GCF without id", "GCF without address"}
            /\ gk' = Survives(HandleGatekeeperConfirm(g, answer, ok))
         \/ answer = "GRJ" /\ gk' = Survives(HandleGatekeeperReject(g))
  /\ UNCHANGED onlyGk

ReceiveRegistrationAnswer(answer, ok) ==
  /\ Listening /\ gk.onTheWay.RRQ > 0
  /\ answer \in GkAnswers
  /\ LET g == TakeAnswerTo("RRQ")
     IN  \/ /\ answer \in {"RCF", "RCF without TTL"}
            /\ gk' = Survives(HandleRegistrationConfirm(g, answer))
            /\ UNCHANGED upsets
         \/ /\ answer \in {"RRJ", "RRJ discoveryRequired", "RRJ fullRegistrationRequired"}
            /\ gk' = Survives(HandleRegistrationReject(g, answer, ok))
            /\ IF answer = "RRJ" THEN UNCHANGED upsets
               ELSE upsets < MaxUpsets /\ upsets' = upsets + 1
  /\ unanswered' = 0
  /\ UNCHANGED << call, requests, answers, granted, stack >>

ReceiveURQ(everything, okUCF, ok) ==
  /\ Listening /\ "URQ" \in GkAnswers
  /\ upsets < MaxUpsets /\ upsets' = upsets + 1
  /\ gk' = Survives(HandleUnregistrationRequest(gk, everything, okUCF, ok))
  /\ unanswered' = IF everything THEN 0 ELSE unanswered
  /\ UNCHANGED << call, requests, answers, granted, stack >>

CallWithNumber(seq) ==
  LET i == SelectInSeq(gk.callsPendingList, LAMBDA e : e.seq = seq)
  IN  IF i = 0 THEN {} ELSE {gk.callsPendingList[i].call}

ReceiveACF(m, connects) ==
  /\ Listening /\ m \in answers /\ m.type = "ACF"
  /\ answers' = answers \ {m}
  /\ gk' = HandleAdmissionConfirm(gk, m.seq)
  /\ call' = [c \in Call |-> IF c \in CallWithNumber(m.seq)
                             THEN CallAdmitted(c, call[c], connects) ELSE call[c]]
  /\ UNCHANGED << requests, granted, stack, upsets, unanswered >>

(* The state of the call is set whatever it was. *)
ReceiveARJ(m) ==
  /\ Listening /\ m \in answers /\ m.type = "ARJ"
  /\ answers' = answers \ {m}
  /\ gk' = HandleAdmissionReject(gk, m.seq)
  /\ call' = [c \in Call |-> IF c \in CallWithNumber(m.seq)
                             THEN [call[c] EXCEPT !.callState = "CLEAR"] ELSE call[c]]
  /\ UNCHANGED << requests, granted, stack, upsets, unanswered >>
-----------------------------------------------------------------------------
(* What is done for a call.                                                 *)

ARQ(c) == [call |-> c, seq |-> RequestNumber(gk)]
Sent(m, ok) == IF ok THEN requests \cup {m} ELSE requests

Asked(c, x) == [x EXCEPT !.callState = "WAITING_ADMISSION", !.asked = TRUE]

(* ooH323MakeCall, for the stack command.  ooProcessStackCommand drops any  *)
(* command while there is a client that is not registered.                  *)
MakeCall(c, ok) ==
  /\ stack = "running" /\ gk.state \in {"None", "Registered"}
  /\ c \in Outgoing /\ call[c].callState = "none"
  /\ LET new == [InitialCall EXCEPT !.callState = "CREATED"]
     IN  \/ /\ gk.state = "Registered"
            /\ gk' = SendAdmissionRequest(gk, c, ok)
            /\ requests' = Sent(ARQ(c), ok)
            /\ call' = [call EXCEPT ![c] = Asked(c, new)]
         \/ /\ gk.state = "None"
            /\ \E connects \in BOOLEAN :
                 call' = [call EXCEPT ![c] = CallAdmitted(c, new, connects)]
            /\ UNCHANGED << gk, requests >>
  /\ UNCHANGED << answers, granted, stack, upsets, unanswered >>

(* ooHandleH2250Message, Setup: with a client that is not registered the    *)
(* call is left as it is.                                                   *)
ReceiveSetup(c, ok) ==
  /\ InPass
  /\ c \notin Outgoing /\ call[c].callState = "none"
  /\ LET new == [InitialCall EXCEPT !.callState = "CREATED", !.h225 = TRUE]
     IN  \/ /\ gk.state = "Registered"
            /\ gk' = SendAdmissionRequest(gk, c, ok)
            /\ requests' = Sent(ARQ(c), ok)
            /\ call' = [call EXCEPT ![c] = Asked(c, new)]
         \/ /\ gk.state = "None"
            /\ \E connects \in BOOLEAN :
                 call' = [call EXCEPT ![c] = CallAdmitted(c, new, connects)]
            /\ UNCHANGED << gk, requests >>
         \/ /\ gk.state \notin {"None", "Registered"}
            /\ call' = [call EXCEPT ![c] = new]
            /\ UNCHANGED << gk, requests >>
  /\ UNCHANGED << answers, granted, stack, upsets, unanswered >>

(* ooH323HangCall, for the stack command *)
HangUp(c) ==
  /\ stack = "running" /\ gk.state \in {"None", "Registered"}
  /\ call[c].callState \in NotEnding
  /\ call' = [call EXCEPT ![c] = MarkClear(@)]
  /\ UNCHANGED onlyCall

(* ooCallEstbTimerExpired *)
CallEstbTimer(c) ==
  /\ InPass
  /\ c \in Outgoing /\ call[c].h225 /\ call[c].callState \in NotEnding
  /\ call' = [call EXCEPT ![c] = MarkClear(@)]
  /\ UNCHANGED onlyCall

(* ooGkClientSendDisengageRequest and the test before it.  The confirmation *)
(* changes nothing, so the request ends here.                               *)
Disengage(c, ok) ==
  IF gk.state = "Registered" THEN SendDisengageRequest(gk, c, ok) ELSE gk

(* ooEndCall *)
EndCall(c) ==
  /\ InPass /\ call[c].callState \in Ending
  /\ \/ /\ call[c].callState # "CLEARED"
        /\ \/ ~call[c].h225 /\ call' = [call EXCEPT ![c].callState = "CLEARED"]
           \/ /\ call[c].h225
              /\ call[c].release = "none" /\ call[c].callState = "CLEAR"
              /\ call' = [call EXCEPT ![c].release = "queued"]
        /\ UNCHANGED << gk, requests, answers, stack >>
     \/ /\ call[c].callState = "CLEARED"
        /\ call' = [call EXCEPT ![c] = Cleaned(@)]
        /\ \/ CleaningCrashes(gk, c) /\ Crash
           \/ /\ ~CleaningCrashes(gk, c)
              /\ gk' = CleanCall(gk, c)
              /\ UNCHANGED << requests, answers, stack >>
  /\ UNCHANGED << granted, upsets, unanswered >>

(* ooSendMsg and ooOnSendMsg, ReleaseComplete; no H.245 session was begun.  *)
SendReleaseComplete(c, ok) ==
  /\ InPass
  /\ call[c].h225 /\ call[c].release = "queued" /\ call[c].callState # "CLEARED"
  /\ gk' = Disengage(c, ok)
  /\ call' = [call EXCEPT ![c].callState = "CLEAR_RELEASESENT",
                          ![c].release = "sent", ![c].sessionTimer = TRUE]
  /\ UNCHANGED << requests, answers, granted, stack, upsets, unanswered >>

(* ooSessionTimerExpired *)
SessionTimer(c) ==
  /\ InPass /\ call[c].sessionTimer
  /\ call' = [call EXCEPT
                ![c].sessionTimer = FALSE,
                ![c].callState = IF @ = "CLEAR_RELEASESENT" THEN "CLEARED" ELSE @]
  /\ UNCHANGED onlyCall

(* ooOnReceivedReleaseComplete *)
ReceiveReleaseComplete(c, ok) ==
  /\ InPass /\ call[c].h225 /\ call[c].callState # "CLEARED"
  /\ gk' = IF call[c].callState = "CLEAR_RELEASESENT" THEN gk ELSE Disengage(c, ok)
  /\ call' = [call EXCEPT ![c].callState = "CLEARED", ![c].sessionTimer = FALSE]
  /\ UNCHANGED << requests, answers, granted, stack, upsets, unanswered >>

(* ooH2250Receive, the peer has closed *)
PeerCloses(c) ==
  /\ InPass /\ call[c].h225
  /\ call' = [call EXCEPT ![c].callState = "CLEARED", ![c].h225 = FALSE]
  /\ UNCHANGED onlyCall

-----------------------------------------------------------------------------
(* The gatekeeper and the network, external.  A call that it has let in is  *)
(* confirmed again when it is asked again.  An ARQ, ACF or ARJ that is lost *)
(* is one that stays where it is for ever.                                  *)

GkAdmits(m) ==
  /\ m \in requests /\ "ACF" \in GkAnswers
  /\ granted' = granted \cup {m.call}
  /\ answers' = answers \cup {[type |-> "ACF", seq |-> m.seq]}
  /\ requests' = requests \ {m}
  /\ UNCHANGED << gk, call, stack, upsets, unanswered >>

GkRejects(m) ==
  /\ m \in requests /\ "ARJ" \in GkAnswers
  /\ m.call \notin granted
  /\ answers' = answers \cup {[type |-> "ARJ", seq |-> m.seq]}
  /\ requests' = requests \ {m}
  /\ UNCHANGED << gk, call, granted, stack, upsets, unanswered >>

Lose(type) ==
  /\ type \in MayLose /\ gk.onTheWay[type] > 0
  /\ gk' = TakeAnswerTo(type)
  /\ UNCHANGED onlyGk

-----------------------------------------------------------------------------
RegistrationStep ==
  \E ok \in SendOk :
    \/ StartStack(ok)
    \/ GRQTimer(ok) \/ RRQTimer(ok) \/ REGTimer(ok)
    \/ \E answer \in GkAnswers :
         ReceiveGatekeeperAnswer(answer, ok) \/ ReceiveRegistrationAnswer(answer, ok)
    \/ \E everything \in BOOLEAN, okUCF \in SendOk : ReceiveURQ(everything, okUCF, ok)

AdmissionStep ==
  \/ \E i \in DOMAIN gk.arqTimers, ok \in SendOk, stale \in {0, MaxRetries} :
       ARQTimer(i, ok, stale)
  \/ \E m \in answers : ReceiveARJ(m) \/ \E connects \in BOOLEAN : ReceiveACF(m, connects)
  \/ \E m \in requests : GkAdmits(m) \/ GkRejects(m)

CallStep(c) ==
  \/ HangUp(c) \/ CallEstbTimer(c) \/ EndCall(c) \/ SessionTimer(c) \/ PeerCloses(c)
  \/ \E ok \in SendOk :
       \/ MakeCall(c, ok) \/ ReceiveSetup(c, ok)
       \/ SendReleaseComplete(c, ok) \/ ReceiveReleaseComplete(c, ok)

Next ==
  \/ RegistrationStep
  \/ AdmissionStep
  \/ \E c \in Call : CallStep(c)
  \/ \E type \in MayLose : Lose(type)
  \/ StopMonitor

(* The loop runs: a timer fires, and a client that has failed goes.         *)
(* Nothing is assumed of the gatekeeper, the network, the users or the      *)
(* peers.                                                                   *)
ARQTimerOf(c) ==
  \E i \in DOMAIN gk.arqTimers, ok \in SendOk, stale \in {0, MaxRetries} :
    gk.arqTimers[i] = c /\ ARQTimer(i, ok, stale)

Fairness ==
  /\ WF_vars(\E ok \in SendOk : StartStack(ok))
  /\ WF_vars(\E ok \in SendOk : GRQTimer(ok))
  /\ WF_vars(\E ok \in SendOk : RRQTimer(ok))
  /\ WF_vars(\E ok \in SendOk : REGTimer(ok))
  /\ WF_vars(StopMonitor)
  /\ \A c \in Call : WF_vars(ARQTimerOf(c))

Spec == Init /\ [][Next]_vars
FairSpec == Spec /\ Fairness
-----------------------------------------------------------------------------
(* Properties.                                                              *)

Message == [call : Call, seq : 1 .. SeqNumbers - 1]
Answer  == [type : {"ACF", "ARJ"}, seq : 1 .. SeqNumbers - 1]

(* Every variable holds what the code's declarations allow.                 *)
TypeOK ==
  /\ gk \in Client
  /\ call \in [Call -> CallRecord]
  /\ requests \subseteq Message /\ answers \subseteq Answer
  /\ granted \subseteq Call
  /\ stack \in {"new", "running", "stopped", "crashed"}
  /\ upsets \in 0 .. MaxUpsets /\ unanswered \in 0 .. MaxRetries

(* The client is never without something that will move it: a client that   *)
(* looks for a gatekeeper, registers, or has to keep its registration alive *)
(* has a timer running for it.  The handlers delete a timer of the type and *)
(* not the one of the request that was answered, so this is not clear.      *)
NeverIdles ==
  stack = "running" =>
    /\ gk.state = "Idle" => gk.timers.GRQ > 0
    /\ gk.state = "Discovered" => gk.timers.RRQ > 0
    /\ gk.state = "Registered" /\ gk.regTimeout => gk.timers.REG + gk.timers.RRQ > 0

(* The search for a gatekeeper and the registration end, whatever is lost   *)
(* or refused: the client is registered or gone.                            *)
Registers == stack = "running" ~> gk.state \in {"Registered", "None"}

(* A call is let through only if the gatekeeper has let it through, however *)
(* late its answers are and however often it was asked.                     *)
AdmittedWasGranted ==
  CallsIn(gk.callsAdmittedList) \subseteq granted

(* A call that is asked about is admitted, ended, or goes with the client:  *)
(* it does not wait for ever on answers that are lost.                      *)
Pending(c) == c \in CallsIn(gk.callsPendingList)
AskedIsSettled == \A c \in Call : Pending(c) ~> ~Pending(c)

(* Nothing is kept of a call that has been cleaned: no entry and no timer   *)
(* leads to it (ooGkClientCleanCall).                                       *)
OnlyLiveCalls ==
  \A c \in CallsIn(gk.callsPendingList) \cup CallsIn(gk.callsAdmittedList)
           \cup ToSet(gk.arqTimers) :
    c = "NULL" \/ call[c].callState # "cleaned"

(* A call that waits has exactly one timer, and every timer leads to a call *)
(* that waits (unless the client is about to go).                           *)
TimerPerPending ==
  gk.state \notin FailureState =>
    /\ ToSet(gk.arqTimers) = CallsIn(gk.callsPendingList)
    /\ IsInjective(gk.arqTimers)

(* What admission promises each call: see CallAdmission. *)
StatusOf(c) ==
  CASE c \in CallsIn(gk.callsAdmittedList) -> "admitted"
    [] c \notin CallsIn(gk.callsAdmittedList) /\ Pending(c) -> "asked"
    [] OTHER -> IF call[c].asked THEN "over" ELSE "new"
Admission == INSTANCE CallAdmission WITH status <- [c \in Call |-> StatusOf(c)]
AdmissionSpec == Admission!Spec

(* "Number of retries before giving up" (ooGkClient.h): a request to        *)
(* register is given up only when all its retries have gone unanswered.     *)
GivesUpAfterRetries ==
  [][gk.state # "GkErr" /\ gk'.state = "GkErr" /\ gk'.timers.RRQ < gk.timers.RRQ
     => unanswered >= MaxRetries]_vars
=============================================================================
