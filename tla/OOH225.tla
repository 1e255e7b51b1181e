------------------------------- MODULE OOH225 -------------------------------
(***************************************************************************)
(* H.225 call signalling: the messages an end builds (ooq931.c), with the  *)
(* fast start elements in them, and what an end does with each one it      *)
(* receives (ooh323.c).  No gatekeeper is configured: a call is admitted   *)
(* at once.                                                                *)
(***************************************************************************)
EXTENDS OOH245

-----------------------------------------------------------------------------
(* Fast start at the calling end                                            *)

(* The directions a capability is proposed in, in the order of              *)
(* ooH323MakeCall_helper.                                                   *)
Proposed(e, cap) ==
     (IF cap \in CanRx[e] THEN << [cap |-> cap, dir |-> "receive"] >> ELSE << >>)
  \o (IF cap \in CanTx[e] THEN << [cap |-> cap, dir |-> "transmit"] >> ELSE << >>)

Proposals(e) ==
  FoldLeft(LAMBDA ps, cap : ps \o Proposed(e, cap), << >>, CapPrefs[e])

(* ooBuildFastStartOLC for an outgoing call: the channel is listed, and one *)
(* to receive on is started already.                                        *)
BuildFastStartOLC(c, p) ==
  LET c1 == AddChan(NextChanNo(c), c.logicalChanNoCur, p.dir, p.cap, "PROPOSED")
  IN  IF p.dir = "receive" THEN StartChan(c1, Len(c1.logicalChans)) ELSE c1

(* A channel to receive on is proposed as a reverse channel.                *)
FastElement(ch) ==
  [chan |-> ch.channelNo, cap |-> ch.cap,
   dir |-> IF ch.dir = "receive" THEN "reverse" ELSE "forward"]

FastElements(chans) == [i \in DOMAIN chans |-> FastElement(chans[i])]

(* ooH323MakeCall_helper: whether there is fast start goes by the flag of   *)
(* the endpoint, tunnelling by the flags of the call.                       *)
MakeCallHelper(e, c) ==
  LET offers == "FASTSTART" \in c.epFlags
      c1 == IF offers THEN FoldLeft(BuildFastStartOLC, c, Proposals(e)) ELSE c
  IN  SendH225(c1, [type |-> "Setup",
                    tunneling |-> Has(c, "TUNNELING") \/ Has(c, "FASTSTART"),
                    fastPresent |-> offers,
                    fast |-> IF offers THEN FastElements(c1.logicalChans) ELSE << >>])

(* ooH323MakeCall; opts is what the call options leave of the flags.        *)
MakeCall(e, ep, opts) == MakeCallHelper(e, [NewCall(TRUE, ep) EXCEPT !.flags = opts])
-----------------------------------------------------------------------------
(* Fast start at the called end                                             *)

(* The session a fast start element carries: by its media type, whatever    *)
(* the session of the channel that is listed for it.                        *)
SessionOf(olc) == DefaultSession(MediaOf[olc.cap])

(* ooIsSessionEstablished *)
SessionEstablished(c, session, dir) ==
  \E i \in DOMAIN c.logicalChans :
    LET ch == c.logicalChans[i]
    IN  ch.session = session /\ ch.dir = dir /\ ch.state = "ESTABLISHED"

(* Mutant of AnswerElement: a session is answered once for each proposal.   *)
AnswerElementAgain(e, so, olc) ==
  LET c   == so.call
      dir == IF olc.dir = "forward" THEN "receive" ELSE "transmit"
      n   == IF dir = "receive" THEN olc.chan ELSE c.logicalChanNoCur
      c1  == IF dir = "receive" THEN c ELSE NextChanNo(c)
  IN  IF olc.cap \notin (IF dir = "receive" THEN CanRx[e] ELSE CanTx[e]) THEN so
      ELSE LET c2 == AddChan(c1, n, dir, olc.cap, "ESTABLISHED")
           IN  [call |-> StartChan(c2, FindChan(c2.logicalChans, n)),
                fast |-> Append(so.fast, [olc EXCEPT !.chan = n])]

(* One proposal in the loop of ooSetFastStartResponse: what the peer would  *)
(* transmit keeps its number, what it would receive gets one of ours; the   *)
(* channel to start is then looked up by its number.                        *)
AnswerElement(e, so, olc) ==
  LET c   == so.call
      dir == IF olc.dir = "forward" THEN "receive" ELSE "transmit"
      n   == IF dir = "receive" THEN olc.chan ELSE c.logicalChanNoCur
      c1  == IF dir = "receive" THEN c ELSE NextChanNo(c)
  IN  IF \/ olc.cap \notin (IF dir = "receive" THEN CanRx[e] ELSE CanTx[e])
         \/ SessionEstablished(c, SessionOf(olc), dir)
      THEN so
      ELSE LET c2 == AddChan(c1, n, dir, olc.cap, "ESTABLISHED")
           IN  [call |-> StartChan(c2, FindChan(c2.logicalChans, n)),
                fast |-> Append(so.fast, [olc EXCEPT !.chan = n])]

(* ooSetFastStartResponse for a message of type t: the answer is worked out *)
(* once, kept for the messages after, and forgotten with Connect.           *)
FastStartResponse(e, c, t) ==
  IF c.pFastStartRes # << >>
  THEN [call |-> IF t = "Connect" THEN [c EXCEPT !.pFastStartRes = << >>] ELSE c,
        fast |-> c.pFastStartRes]
  ELSE IF "FASTSTART" \in c.epFlags /\ c.remoteFastStartOLCs # << >>
  THEN LET so == FoldLeft(LAMBDA x, olc : AnswerElement(e, x, olc),
                          [call |-> c, fast |-> << >>], c.remoteFastStartOLCs)
       IN  IF so.fast # << >> THEN [so EXCEPT !.call.pFastStartRes = so.fast]
           ELSE [so EXCEPT !.call.flags = @ \ {"FASTSTART"}]
  ELSE [call |-> c, fast |-> << >>]

(* ooSendCallProceeding *)
SendCallProceeding(c) ==
  SendH225(c, [type |-> "CallProceeding", tunneling |-> "TUNNELING" \in c.epFlags,
               h245 |-> FALSE, fast |-> << >>])

(* ooSendAlerting *)
SendAlerting(e, c) ==
  LET so == FastStartResponse(e, c, "Alerting")
  IN  SendH225(so.call, [type |-> "Alerting", tunneling |-> "TUNNELING" \in c.epFlags,
                         h245 |-> FALSE, fast |-> so.fast])

(* ooSendConnect, ooAcceptCall *)
AcceptCall(e, c) ==
  LET so == FastStartResponse(e, c, "Connect")
      listens == /\ ~Has(so.call, "FASTSTART") \/ c.remoteFastStartOLCs = << >>
                 /\ ~Has(so.call, "TUNNELING")
  IN  SendH225([so.call EXCEPT !.h245listener = @ \/ listens],
               [type |-> "Connect", tunneling |-> Has(so.call, "TUNNELING"),
                h245 |-> listens, fast |-> so.fast])

(* Alerting, and the answer when the endpoint answers by itself.            *)
RingAndAnswer(e, c) ==
  LET c1 == SendAlerting(e, c)
  IN  IF "AUTOANSWER" \in c.epFlags THEN AcceptCall(e, c1) ELSE c1

(* ooH323CallAdmitted for an incoming call *)
CallAdmitted(e, c) ==
  IF "MANUALRINGBACK" \in c.epFlags THEN c ELSE RingAndAnswer(e, c)

(* ooOnReceivedSetup, ooSendCallProceeding, ooH323CallAdmitted              *)
HandleSetup(e, c, m) ==
  LET tunnels == m.tunneling /\ "TUNNELING" \in c.epFlags
      fast    == IF m.fastPresent THEN "FASTSTART" \in c.epFlags /\ m.fast # << >>
                 ELSE Has(c, "FASTSTART")
      flags   == (IF tunnels THEN {"TUNNELING"} ELSE {})
                   \cup (IF fast THEN {"FASTSTART"} ELSE {})
  IN  CallAdmitted(e, SendCallProceeding(
        [c EXCEPT !.flags = flags, !.remoteFastStartOLCs = IF fast THEN m.fast ELSE << >>]))
-----------------------------------------------------------------------------
(* The answer to fast start, at the calling end                             *)

(* ooFindLogicalChannelByOLC: the first entry with the session, the         *)
(* direction and the capability of the element; 0 stands for NULL.          *)
FindByOLC(c, olc) ==
  SelectInSeq(c.logicalChans,
    LAMBDA ch : /\ ch.session = SessionOf(olc) /\ ch.cap = olc.cap
                /\ ch.dir = IF olc.dir = "reverse" THEN "receive" ELSE "transmit")

(* ooOnLogicalChannelEstablished: the other entries of the session and the  *)
(* direction, as far as their numbers differ, are cleared by their number.  *)
ClearOther(ch, c, o) ==
  IF o.channelNo # ch.channelNo /\ o.session = ch.session /\ o.dir = ch.dir
  THEN ClearChan(c, o.channelNo) ELSE c

Established(c, i) ==
  FoldLeft(LAMBDA d, o : ClearOther(c.logicalChans[i], d, o),
           SetChanState(c, i, "ESTABLISHED"), c.logicalChans)

(* One element of an answer; the loop ends at an element that matches no    *)
(* proposal.                                                                *)
TakeElement(so, olc) ==
  LET i == FindByOLC(so.call, olc)
      c == [so.call EXCEPT !.remoteFastStartOLCs = Append(@, olc)]
      d == [c EXCEPT !.logicalChans[i].channelNo = olc.chan]
  IN  IF ~so.ok THEN so
      ELSE IF i = 0 THEN [call |-> c, ok |-> FALSE]
      ELSE [call |-> Established(IF olc.dir = "forward" THEN StartChan(d, i) ELSE d, i),
            ok |-> TRUE]

(* The elements of an answer, and the flag when all could be taken.         *)
TakeAnswer(c, fast) ==
  LET so == FoldLeft(TakeElement, [call |-> c, ok |-> TRUE], fast)
  IN  IF so.ok THEN [so EXCEPT !.call.flags = @ \cup {"FASTSTARTANSWERED"}] ELSE so

(* The address of the peer's H.245 listener, which ends tunnelling.         *)
TakeH245Address(c, m) ==
  IF m.h245 /\ ~m.tunneling
  THEN [c EXCEPT !.flags = @ \ {"TUNNELING"}, !.remoteH245Port = TRUE] ELSE c

(* ooOnReceivedCallProceeding takes an answer whenever it finds one,        *)
(* ooOnReceivedAlerting only the first.                                     *)
HandleProgress(c, m) ==
  LET takes == /\ Has(c, "FASTSTART") /\ m.fast # << >>
               /\ m.type = "Alerting" => ~Has(c, "FASTSTARTANSWERED")
      so == IF takes THEN TakeAnswer(c, m.fast) ELSE [call |-> c, ok |-> TRUE]
  IN  IF so.ok THEN TakeH245Address(so.call, m) ELSE so.call

(* Mutant of FastStartInConnect: unanswered proposals stay in the list.     *)
FastStartInConnectKeeps(c, m) ==
  IF Has(c, "FASTSTARTANSWERED") \/ m.fast = << >> THEN [call |-> c, ok |-> TRUE]
  ELSE TakeAnswer(c, m.fast)

(* ooOnReceivedSignalConnect, the fast start in it: the last chance to      *)
(* answer, so without an answer all proposals are dropped.                  *)
FastStartInConnect(c, m) ==
  LET refused == Has(c, "FASTSTART") /\ m.fast = << >>
  IN  CASE Has(c, "FASTSTARTANSWERED") -> [call |-> c, ok |-> TRUE]
        [] ~Has(c, "FASTSTARTANSWERED") /\ m.fast # << >> -> TakeAnswer(c, m.fast)
        [] ~Has(c, "FASTSTARTANSWERED") /\ m.fast = << >> ->
             [call |-> IF refused THEN [ClearAllChans(c) EXCEPT !.flags = @ \ {"FASTSTART"}] ELSE c,
              ok |-> TRUE]

(* ooOnReceivedSignalConnect, the rest: the H.245 connection if the peer    *)
(* listens for it, or both procedures tunnelled.                            *)
StartH245(e, w, c, m) ==
  LET c1 == TakeH245Address(c, m)
      c2 == IF c1.remoteH245Port THEN CreateH245Connection(e, w, c1) ELSE c1
      c3 == IF m.tunneling THEN c2 ELSE [c2 EXCEPT !.flags = @ \ {"TUNNELING"}]
  IN  IF Has(c3, "TUNNELING")
      THEN SendMSD(e, w, IF c3.localTermCapState = "Idle" THEN SendTermCap(w, c3) ELSE c3)
      ELSE c3

(* ooHandleH2250Message, case Q931ConnectMsg                                *)
HandleConnect(e, w, c, m) ==
  LET so == FastStartInConnect(StopTimer(c, "CALLESTB", 0), m)
  IN  IF so.ok THEN StartH245(e, w, so.call, m) ELSE so.call
-----------------------------------------------------------------------------
(* Forwarding and release                                                   *)

(* ooH323ForwardCall: the call goes on until the peer releases it.          *)
ForwardCall(c) ==
  [SendH225([c EXCEPT !.pCallFwdData = "byUs"], Msg("CallForwarded")) EXCEPT
     !.callEndReason = "OTHER"]

(* ooOnReceivedFacility with the reason callForwarded: where to is kept     *)
(* before the state of the call is looked at.                               *)
HandleCallForwarded(c) ==
  LET c1 == [c EXCEPT !.pCallFwdData = "byRemote"]
  IN  IF c1.callState < CLEAR
      THEN [c1 EXCEPT !.callState = CLEAR, !.callEndReason = "REMOTE_FWDED"] ELSE c1

(* ooOnReceivedFacility: a tunnelled H.245 message counts only while the    *)
(* call is tunnelled.                                                       *)
HandleTunneled(e, w, c, m) == IF Has(c, "TUNNELING") THEN HandleH245Message(e, w, c, m) ELSE c

(* Mutant of HandleReleaseComplete: the call is left as it was.             *)
HandleReleaseCompleteForgets(c) ==
  LET c1 == StopTimer(c, "SESSION", 0)
  IN  IF c1.h245SessionState \in {"IDLE", "CLOSED"} THEN c1 ELSE CloseH245(c1)

(* Sets callEndReason unless it has been set.                               *)
Because(c) == IF c.callEndReason = "UNKNOWN" THEN [c EXCEPT !.callEndReason = "OTHER"] ELSE c

(* ooOnReceivedReleaseComplete *)
HandleReleaseComplete(c) ==
  LET c1 == Because(StopTimer(c, "SESSION", 0))
      c2 == IF c1.h245SessionState \in {"IDLE", "CLOSED"} THEN c1 ELSE CloseH245(c1)
  IN  [c2 EXCEPT !.callState = CLEARED]

(* ooHandleH2250Message *)
HandleH2250Message(e, w, c, m) ==
  CASE m.type = "Setup"           -> HandleSetup(e, c, m)
    [] m.type \in {"CallProceeding", "Alerting"} -> HandleProgress(c, m)
    [] m.type = "Connect"         -> HandleConnect(e, w, c, m)
    [] m.type = "ReleaseComplete" -> HandleReleaseComplete(c)
    [] m.type = "CallForwarded"   -> HandleCallForwarded(c)
    [] OTHER                      -> HandleTunneled(e, w, c, m)
=============================================================================
