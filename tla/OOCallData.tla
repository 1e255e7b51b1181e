----------------------------- MODULE OOCallData -----------------------------
(***************************************************************************)
(* The call record of ooh323c (OOH323CallData) and the operations that     *)
(* work on one record: the logical channel list (ooLogChan.c), the two     *)
(* outgoing queues and what sending a message starts (oochannels.c), and   *)
(* ending a call (ooCalls.c).                                              *)
(*                                                                         *)
(* The stack is one select loop: every C function runs to completion on    *)
(* one call, so each is an operator from the record it finds to the record *)
(* it leaves.  What a function takes from outside comes in a "world" w:    *)
(*   w.num  the random number ooGenerateStatusDeterminationNumber returns  *)
(*   w.ok   whether the H.245 socket connects or takes what is written     *)
(*   w.okH225  whether the H.225 socket takes what is written              *)
(* Allocation failures are not modelled.                                   *)
(***************************************************************************)
EXTENDS Integers, FiniteSets, SequencesExt

CONSTANTS
  Endpoint,            \* endpoints whose calls run this code
  TermType,            \* [Endpoint -> Nat], gH323ep.termType
  CallMode,            \* [Endpoint -> {"AUDIOCALL", "VIDEOCALL", "OTHER"}], gH323ep.callMode
  Cap,                 \* the capabilities (codecs) the endpoints know
  MediaOf,             \* [Cap -> MediaType], capType
  CapPrefs,            \* [Endpoint -> Seq(Cap)], call->capPrefs, every capability of the end
  CanTx, CanRx,        \* [Endpoint -> SUBSET Cap], capabilities with the OOTX and the OORX bit
  JointTx,             \* [Endpoint -> Seq(Cap)], call->jointCaps with the OOTX bit, as they are
                       \* when the peer's capability set has been processed
  NumMod,              \* status determination numbers are 0 .. NumMod-1 (2^24 in the code)
  TCSSeqMod,           \* H245SequenceNumber is an unsigned byte (256 in the code)
  ChanNoBase,          \* logicalChanNoBase, 1001 in the code
  ChanNoMax,           \* logicalChanNoMax, 1100 in the code
  MaxRetries,          \* DEFAULT_MAX_RETRIES, 3 in the code
  MaxConnectAttempts   \* attempts to connect the H.245 channel, 3 in the code

MediaType == {"audio", "video"}

(* The RTP session of each media type; 0 means that the master is to choose *)
(* one, from FirstFreeSession on.                                           *)
DefaultSession(t) == IF t = "audio" THEN 1 ELSE 2
FirstFreeSession == 4

ASSUME ConstantsAssumption ==
  /\ TermType \in [Endpoint -> Nat]
  /\ CallMode \in [Endpoint -> {"AUDIOCALL", "VIDEOCALL", "OTHER"}]
  /\ MediaOf \in [Cap -> MediaType]
  /\ CapPrefs \in [Endpoint -> Seq(Cap)]
  /\ CanTx \in [Endpoint -> SUBSET Cap] /\ CanRx \in [Endpoint -> SUBSET Cap]
  /\ JointTx \in [Endpoint -> Seq(Cap)]
  /\ NumMod \in Nat /\ NumMod > 0 /\ NumMod % 2 = 0
  /\ TCSSeqMod \in Nat /\ TCSSeqMod > 1
  /\ ChanNoBase \in Nat /\ ChanNoMax \in Nat /\ ChanNoBase <= ChanNoMax
  /\ MaxRetries \in Nat /\ MaxConnectAttempts \in Nat

-----------------------------------------------------------------------------
(* The enumerations of ooCalls.h that the code compares with < and >=.      *)

CREATED           == 0
WAITING_ADMISSION == 1
CONNECTING        == 2
CONNECTED         == 3
PAUSED            == 4
CLEAR             == 5
CLEAR_RELEASERECVD == 6
CLEAR_RELEASESENT == 7
CLEARED           == 8

CallState == CREATED .. CLEARED

SessionState == {"IDLE", "PAUSED", "ACTIVE", "ENDSENT", "ENDRECVD", "CLOSED"}
MasterSlaveState == {"Idle", "DetermineSent", "Master", "Slave"}
LocalTermCapState == {"Idle", "SetSent", "AckRecvd"}
RemoteTermCapState == {"Idle", "Recvd", "AckSent"}

DetNumber == 0 .. NumMod - 1
SeqNumber == 0 .. TCSSeqMod - 1

(* started: the application has been told to start the media of the channel *)
(* (startReceiveChannel, startTransmitChannel).                             *)
LogicalChan == [channelNo : Nat, session : Nat, dir : {"transmit", "receive"},
                cap : Cap, state : {"IDLE", "PROPOSED", "ESTABLISHED"}, started : BOOLEAN]

(* A timer is known by its type and, for the channel timers, its channel.  *)
TimerType == {"CALLESTB", "MSD", "TCS", "OLC", "CLC", "RCC", "SESSION", "H245CONNECT"}
Timer == [type : TimerType, chan : Nat]
TimerOf(t, n) == [type |-> t, chan |-> n]

(* Flags of a call and of its endpoint: call->flags and gH323ep.flags.      *)
CallFlag == {"TUNNELING", "FASTSTART", "FASTSTARTANSWERED"}
EpFlag   == {"TUNNELING", "FASTSTART", "AUTOANSWER", "MANUALRINGBACK"}

(* callEndReason, as far as its value decides anything.                     *)
EndReason == {"UNKNOWN", "REMOTE_FWDED", "OTHER"}

(* pCallFwdData: who has forwarded the call.                                *)
FwdData == {"none", "byUs", "byRemote"}

(* A fast start element: the forward direction is the proposer's transmit   *)
(* channel, the reverse direction the one it would receive on.              *)
FastOLC == [chan : Nat, cap : Cap, dir : {"forward", "reverse"}]

(* Messages: H.245, and H.225.  On the H.225 connection an H.245 message    *)
(* stands for the Facility it is tunnelled in, and CallForwarded for the    *)
(* Facility with that reason.  h245 says that the message has the address   *)
(* of an H.245 listener, fast is fastStart; only Setup may have it present  *)
(* and empty.                                                               *)
Plain == {"TCSAck", "TCSRelease", "MSDReject", "MSDRelease", "EndSession",
          "ReleaseComplete", "CallForwarded"}
ChanMsg == {"OLCAck", "OLCReject", "CLC", "CLCAck", "RCC", "RCCAck", "RCCReject", "RCCRelease"}
Message ==
       [type : Plain]
  \cup [type : ChanMsg, chan : Nat]
  \cup [type : {"TCS"}, seq : SeqNumber, caps : BOOLEAN]
  \cup [type : {"TCSReject"}, seq : SeqNumber]
  \cup [type : {"MSD"}, terminalType : Nat, number : DetNumber]
  \cup [type : {"MSDAck"}, decision : {"master", "slave"}]
  \cup [type : {"OLC"}, chan : Nat, cap : Cap, session : Nat]
  \cup [type : {"Setup"}, tunneling : BOOLEAN, fastPresent : BOOLEAN, fast : Seq(FastOLC)]
  \cup [type : {"CallProceeding", "Alerting", "Connect"}, tunneling : BOOLEAN,
        h245 : BOOLEAN, fast : Seq(FastOLC)]

Msg(t)        == [type |-> t]
ChanMsgOf(t, n) == [type |-> t, chan |-> n]

(* What a step takes from its environment.                                  *)
World == [num : DetNumber, ok : BOOLEAN, okH225 : BOOLEAN]

(* A socket is open while the code holds it; once closed it stays closed.   *)
Socket == {"none", "open", "closed"}

(* h225Net and h245Net hold what this end has written to its socket and the *)
(* other end has not read.                                                  *)
Call ==
  [callState : CallState, h245SessionState : SessionState,
   masterSlaveState : MasterSlaveState, statusDeterminationNumber : DetNumber,
   msdRetries : Nat, localTermCapState : LocalTermCapState,
   remoteTermCapState : RemoteTermCapState, localTermCapSeqNo : SeqNumber,
   remoteTermCapSeqNo : SeqNumber, logicalChans : Seq(LogicalChan),
   logicalChanNoCur : Nat, nextSessionID : Nat, timers : SUBSET Timer, h245ConnectionAttempts : Nat,
   h225Sock : Socket, h245Sock : Socket, h245listener : BOOLEAN,
   h225Out : Seq(Message), h245Out : Seq(Message),
   h225Net : Seq(Message), h245Net : Seq(Message),
   endSessionBuilt : BOOLEAN, releaseBuilt : BOOLEAN,
   outgoing : BOOLEAN, flags : SUBSET CallFlag, epFlags : SUBSET EpFlag,
   remoteFastStartOLCs : Seq(FastOLC), pFastStartRes : Seq(FastOLC),
   remoteH245Port : BOOLEAN, callEndReason : EndReason, pCallFwdData : FwdData,
   cleaned : BOOLEAN, forwarded : BOOLEAN]

(* ooCreateCall, once the H.225 connection exists.  remoteH245Port says     *)
(* that the port is known, forwarded that a new call has been placed        *)
(* instead of this one.                                                     *)
NewCall(out, ep) ==
  [callState |-> CREATED, h245SessionState |-> "IDLE",
   masterSlaveState |-> "Idle", statusDeterminationNumber |-> 0,
   msdRetries |-> 0, localTermCapState |-> "Idle", remoteTermCapState |-> "Idle",
   localTermCapSeqNo |-> 0, remoteTermCapSeqNo |-> 0, logicalChans |-> << >>,
   logicalChanNoCur |-> ChanNoBase, nextSessionID |-> FirstFreeSession, timers |-> {}, h245ConnectionAttempts |-> 0,
   h225Sock |-> "open", h245Sock |-> "none", h245listener |-> FALSE,
   h225Out |-> << >>, h245Out |-> << >>, h225Net |-> << >>, h245Net |-> << >>,
   endSessionBuilt |-> FALSE, releaseBuilt |-> FALSE,
   outgoing |-> out, flags |-> ep \cap {"TUNNELING", "FASTSTART"}, epFlags |-> ep,
   remoteFastStartOLCs |-> << >>, pFastStartRes |-> << >>, remoteH245Port |-> FALSE,
   callEndReason |-> "UNKNOWN", pCallFwdData |-> "none",
   cleaned |-> FALSE, forwarded |-> FALSE]

(* OO_TESTFLAG *)
Has(c, flag) == flag \in c.flags

(* Mutant of MarkClear: without the test.                                   *)
MarkClearUntested(c) == [c EXCEPT !.callState = CLEAR, !.callEndReason = "OTHER"]

(* The idiom "if(call->callState < OO_CALL_CLEAR)" with an end reason.      *)
MarkClear(c) ==
  IF c.callState < CLEAR
  THEN [c EXCEPT !.callState = CLEAR, !.callEndReason = "OTHER"] ELSE c

StartTimer(c, t, n) == [c EXCEPT !.timers = @ \cup {TimerOf(t, n)}]
StopTimer(c, t, n)  == [c EXCEPT !.timers = @ \ {TimerOf(t, n)}]
-----------------------------------------------------------------------------
(* ooLogChan.c                                                              *)

(* ooFindLogicalChannelByLogicalChannelNo: the first entry with the number, *)
(* whatever its direction; 0 stands for NULL.                               *)
FindChan(chans, n) == SelectInSeq(chans, LAMBDA ch : ch.channelNo = n)

(* ooAddNewLogicalChannel *)
AddChanIn(c, n, session, dir, cap, st) ==
  [c EXCEPT !.logicalChans =
     Append(@, [channelNo |-> n, session |-> session, dir |-> dir, cap |-> cap,
                state |-> st, started |-> FALSE])]

(* ooCallGenerateSessionID: the default session of the media unless an      *)
(* entry of the same direction has it, proposed or established; then the    *)
(* master takes the next one, and everyone else leaves it open.             *)
SessionTaken(c, cap, dir) ==
  \E i \in DOMAIN c.logicalChans :
    /\ c.logicalChans[i].session = DefaultSession(MediaOf[cap])
    /\ c.logicalChans[i].dir = dir

GenerateSession(c, cap, dir) ==
  CASE ~SessionTaken(c, cap, dir) -> DefaultSession(MediaOf[cap])
    [] SessionTaken(c, cap, dir) /\ c.masterSlaveState = "Master" -> c.nextSessionID
    [] OTHER -> 0

(* The next session is used up when the one generated is it.                *)
UseSession(c, session) ==
  IF session = c.nextSessionID THEN [c EXCEPT !.nextSessionID = @ + 1] ELSE c

AddChan(c, n, dir, cap, st) ==
  LET session == GenerateSession(c, cap, dir)
  IN  AddChanIn(UseSession(c, session), n, session, dir, cap, st)

(* logicalChanNoCur++, and back to the base past logicalChanNoMax.          *)
NextChanNo(c) ==
  [c EXCEPT !.logicalChanNoCur = IF @ + 1 > ChanNoMax THEN ChanNoBase ELSE @ + 1]

SetChanState(c, i, st) == [c EXCEPT !.logicalChans[i].state = st]

(* startReceiveChannel or startTransmitChannel, handed the i-th entry.      *)
StartChan(c, i) == [c EXCEPT !.logicalChans[i].started = TRUE]

(* ooClearLogicalChannel and ooRemoveLogicalChannel: the number is looked   *)
(* up again and the entry found is removed.                                 *)
ClearChan(c, n) ==
  LET i == FindChan(c.logicalChans, n)
  IN  IF i = 0 THEN c ELSE [c EXCEPT !.logicalChans = RemoveAt(@, i)]

(* ooClearAllLogicalChannels *)
ClearAllChans(c) == [c EXCEPT !.logicalChans = << >>]
-----------------------------------------------------------------------------
(* oochannels.c: closing the channels, sending, and what sending starts.    *)

Closed(sock) == IF sock = "open" THEN "closed" ELSE sock

(* ooCloseH245Connection *)
CloseH245(c) ==
  [c EXCEPT !.h245Sock = Closed(@), !.h245Out = << >>, !.h245SessionState = "CLOSED"]

(* ooCloseH225Connection *)
CloseH225(c) == [c EXCEPT !.h225Sock = Closed(@), !.h225Out = << >>]

(* ooOnSendMsg, case OOReleaseComplete: no gatekeeper is registered here.   *)
OnSendReleaseComplete(c) ==
  LET st == IF c.callState = CLEAR_RELEASERECVD THEN CLEARED ELSE CLEAR_RELEASESENT
      c1 == [c EXCEPT !.callState = st]
      c2 == IF st = CLEAR_RELEASESENT /\ c.h245SessionState = "IDLE"
            THEN StartTimer(c1, "SESSION", 0) ELSE c1
  IN  IF c.h245SessionState = "CLOSED" THEN [c2 EXCEPT !.callState = CLEARED] ELSE c2

(* ooOnSendMsg, case OOEndSessionCommand. *)
OnSendEndSession(c) ==
  IF c.h245SessionState = "ACTIVE"
  THEN StartTimer([c EXCEPT !.h245SessionState = "ENDSENT"], "SESSION", 0)
  ELSE CloseH245(c)

(* ooOnSendMsg, case OOTerminalCapabilitySet. *)
OnSendTCS(c) ==
  LET c1 == IF Has(c, "TUNNELING") /\ c.h245SessionState \in {"IDLE", "PAUSED"}
            THEN [c EXCEPT !.h245SessionState = "ACTIVE"] ELSE c
  IN  StartTimer(c1, "TCS", 0)

(* ooOnSendMsg: called for a message that has been written to its socket.   *)
OnSendMsg(c, m) ==
  CASE m.type = "ReleaseComplete" -> OnSendReleaseComplete(c)
    [] m.type = "EndSession"      -> OnSendEndSession(c)
    [] m.type = "Setup"           -> StartTimer(c, "CALLESTB", 0)
    [] m.type = "TCS"             -> OnSendTCS(c)
    [] m.type = "MSD"             -> StartTimer(c, "MSD", 0)
    [] m.type = "OLC"             -> StartTimer(c, "OLC", m.chan)
    [] m.type = "CLC"             -> StartTimer(c, "CLC", m.chan)
    [] m.type = "RCC"             -> StartTimer(c, "RCC", m.chan)
    [] OTHER                      -> c

(* ooSendMsg(call, OOQ931MSG): a tunnelled H.245 message counts as itself.  *)
SendMsgQ931(w, c) ==
  IF c.callState = CLEARED \/ c.h225Out = << >> THEN c
  ELSE LET m  == Head(c.h225Out)
           c1 == [c EXCEPT !.h225Out = Tail(@)]
       IN  IF w.okH225 THEN OnSendMsg([c1 EXCEPT !.h225Net = Append(@, m)], m)
           ELSE MarkClear(c1)

(* ooSendMsg(call, OOH245MSG): without a socket the message is dropped.     *)
SendMsgH245(w, c) ==
  IF c.callState = CLEARED \/ c.h245Out = << >> THEN c
  ELSE LET m  == Head(c.h245Out)
           c1 == [c EXCEPT !.h245Out = Tail(@)]
       IN  CASE c.h245Sock # "open" -> c1
             [] c.h245Sock = "open" /\ w.ok ->
                  OnSendMsg([c1 EXCEPT !.h245Net = Append(@, m)], m)
             [] c.h245Sock = "open" /\ ~w.ok -> MarkClear(c1)

(* ooSendH225Msg: a high priority message empties the queue before it is    *)
(* appended, and waits there like any other (the immediate send is          *)
(* commented out).                                                          *)
SendH225(c, m) ==
  IF m.type \in {"ReleaseComplete", "EndSession"}
  THEN [c EXCEPT !.h225Out = << m >>]
  ELSE [c EXCEPT !.h225Out = Append(@, m)]

(* ooSendH245Msg *)
SendH245(w, c, m) ==
  IF Has(c, "TUNNELING") THEN SendH225(c, m)
  ELSE IF m.type = "EndSession" THEN SendMsgH245(w, [c EXCEPT !.h245Out = << m >>])
  ELSE [c EXCEPT !.h245Out = Append(@, m)]
-----------------------------------------------------------------------------
(* ooCalls.c *)

(* Mutant of CleanCall: a call this end forwarded is taken for one the peer *)
(* forwarded.                                                               *)
CleanCallForwardsAny(c) ==
  LET c1 == CloseH225(CloseH245(ClearAllChans(c)))
  IN  [c1 EXCEPT !.h245listener = FALSE, !.timers = {}, !.cleaned = TRUE,
                 !.forwarded = (c.pCallFwdData # "none")]

(* ooCleanCall, and the new call ooH323HandleCallFwdRequest places.         *)
CleanCall(c) ==
  LET c1 == CloseH225(CloseH245(ClearAllChans(c)))
  IN  [c1 EXCEPT !.h245listener = FALSE, !.timers = {}, !.cleaned = TRUE,
                 !.forwarded = (c.pCallFwdData = "byRemote")]

(* ooEndCall *)
EndCall(w, c) ==
  IF c.callState = CLEARED THEN CleanCall(c)
  ELSE
    LET c1 == ClearAllChans(c)
        c2 == IF ~c1.endSessionBuilt /\ c1.h245SessionState \in {"ACTIVE", "ENDRECVD"}
              THEN [SendH245(w, c1, Msg("EndSession")) EXCEPT !.endSessionBuilt = TRUE]
              ELSE c1
    IN  IF c2.h225Sock # "open" THEN [c2 EXCEPT !.callState = CLEARED]
        ELSE IF ~c2.releaseBuilt /\ c2.callState \in {CLEAR, CLEAR_RELEASERECVD}
        THEN [SendH225(c2, Msg("ReleaseComplete")) EXCEPT !.releaseBuilt = TRUE]
        ELSE c2
=============================================================================
