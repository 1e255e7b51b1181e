------------------------------- MODULE OOH245 -------------------------------
(***************************************************************************)
(* ooh245.c: what an endpoint does with each H.245 message and with each   *)
(* H.245 timer, as operators on the call record of OOCallData.  The        *)
(* application installs no openLogicalChannels callback, as every program  *)
(* of the repository (asterisk/, tests/).                                  *)
(***************************************************************************)
EXTENDS OOCallData

(* ooSendTermCapMsg.  The sequence number is an unsigned byte.              *)
SendTermCap(w, c) ==
  IF c.localTermCapState = "SetSent" THEN c
  ELSE LET n == (c.localTermCapSeqNo + 1) % TCSSeqMod
       IN  SendH245(w, [c EXCEPT !.localTermCapSeqNo = n, !.localTermCapState = "SetSent"],
                    [type |-> "TCS", seq |-> n, caps |-> TRUE])

(* ooSendMasterSlaveDetermination *)
SendMSD(e, w, c) ==
  IF c.masterSlaveState # "Idle" THEN c
  ELSE SendH245(w, [c EXCEPT !.statusDeterminationNumber = w.num,
                             !.masterSlaveState = "DetermineSent"],
                [type |-> "MSD", terminalType |-> TermType[e], number |-> w.num])

(* A MasterSlaveDeterminationAck names the role of the endpoint it is sent  *)
(* to; the sender takes the other one.                                      *)
BecomeMaster(w, c) ==
  [SendH245(w, c, [type |-> "MSDAck", decision |-> "slave"]) EXCEPT !.masterSlaveState = "Master"]
BecomeSlave(w, c) ==
  [SendH245(w, c, [type |-> "MSDAck", decision |-> "master"]) EXCEPT !.masterSlaveState = "Slave"]

(* ooCreateH245Connection: connected, start both procedures; refused, retry *)
(* on a timer until the attempts are used up.                               *)
CreateH245Connection(e, w, c) ==
  IF w.ok
  THEN SendMSD(e, w, SendTermCap(w, [c EXCEPT !.h245Sock = "open", !.h245SessionState = "ACTIVE"]))
  ELSE IF c.h245ConnectionAttempts >= MaxConnectAttempts THEN MarkClear(c)
  ELSE StartTimer(c, "H245CONNECT", 0)

(* ooAcceptH245Connection *)
AcceptH245Connection(e, w, c) ==
  SendMSD(e, w, SendTermCap(w, [c EXCEPT !.h245Sock = "open", !.h245SessionState = "ACTIVE"]))
-----------------------------------------------------------------------------
(* Opening channels *)

(* Mutant of OpenChannel: entered as if the peer had accepted it already.   *)
OpenChannelAtOnce(w, c, cap) ==
  LET n == c.logicalChanNoCur
      s == GenerateSession(c, cap, "transmit")
  IN  SendH245(w, AddChan(NextChanNo(c), n, "transmit", cap, "ESTABLISHED"),
               [type |-> "OLC", chan |-> n, cap |-> cap, session |-> s])

(* ooOpenChannel *)
OpenChannel(w, c, cap) ==
  LET n == c.logicalChanNoCur
      s == GenerateSession(c, cap, "transmit")
  IN  SendH245(w, AddChan(NextChanNo(c), n, "transmit", cap, "PROPOSED"),
               [type |-> "OLC", chan |-> n, cap |-> cap, session |-> s])

(* The order in which ooOpenLogicalChannel looks for a capability: the      *)
(* master goes by its own preferences, the slave by the joint capabilities. *)
Order(e, c) == IF c.masterSlaveState = "Master" THEN CapPrefs[e] ELSE JointTx[e]

(* What it chooses: the first of the media type that is a joint capability; *)
(* 0 stands for none.                                                       *)
Choice(e, c, t) ==
  SelectInSeq(Order(e, c), LAMBDA cap : MediaOf[cap] = t /\ Contains(JointTx[e], cap))

(* ooOpenLogicalChannel, and what its caller does when it fails.            *)
OpenMedia(e, w, c, t) ==
  IF Choice(e, c, t) = 0 THEN MarkClear(c)
  ELSE OpenChannel(w, c, Order(e, c)[Choice(e, c, t)])

(* ooOpenLogicalChannels: audio first; video only if audio could be opened. *)
OpenLogicalChannels(e, w, c) ==
  CASE CallMode[e] = "AUDIOCALL" -> OpenMedia(e, w, c, "audio")
    [] CallMode[e] = "VIDEOCALL" ->
         IF Choice(e, c, "audio") # 0
         THEN OpenMedia(e, w, OpenMedia(e, w, c, "audio"), "video")
         ELSE MarkClear(c)
    [] OTHER -> c

CapsExchanged(c) == c.localTermCapState = "AckRecvd" /\ c.remoteTermCapState = "AckSent"
RoleDecided(c)   == c.masterSlaveState \in {"Master", "Slave"}

(* Mutant of OpenIfNone: without the test of the list.                      *)
OpenAgain(e, w, c) == OpenLogicalChannels(e, w, c)

(* "Since Cap exchange and MasterSlave Procedures are done": the three      *)
(* handlers that may finish the two procedures share this step.             *)
OpenIfNone(e, w, c) ==
  IF c.logicalChans = << >> THEN OpenLogicalChannels(e, w, c) ELSE c
-----------------------------------------------------------------------------
(* Master slave determination: ooHandleMasterSlave, ooHandleMasterSlaveReject *)

(* Mutant of HandleMSD: a new number for every comparison, also when one of *)
(* ours is on its way.                                                      *)
HandleMSDWithNewNumber(e, w, c, m) ==
  LET diff == (m.number - w.num) % NumMod
      half == NumMod \div 2
  IN  CASE m.terminalType < TermType[e] -> BecomeMaster(w, c)
        [] m.terminalType > TermType[e] -> BecomeSlave(w, c)
        [] m.terminalType = TermType[e] /\ diff \in {0, half} ->
             SendH245(w, c, Msg("MSDReject"))
        [] m.terminalType = TermType[e] /\ 0 < diff /\ diff < half -> BecomeMaster(w, c)
        [] m.terminalType = TermType[e] /\ half < diff -> BecomeSlave(w, c)

HandleMSD(e, w, c, m) ==
  LET ours == IF c.masterSlaveState = "DetermineSent" THEN c.statusDeterminationNumber
              ELSE w.num
      diff == (m.number - ours) % NumMod
      half == NumMod \div 2
  IN  CASE m.terminalType < TermType[e] -> BecomeMaster(w, c)
        [] m.terminalType > TermType[e] -> BecomeSlave(w, c)
        [] m.terminalType = TermType[e] /\ diff \in {0, half} ->
             SendH245(w, c, Msg("MSDReject"))
        [] m.terminalType = TermType[e] /\ 0 < diff /\ diff < half -> BecomeMaster(w, c)
        [] m.terminalType = TermType[e] /\ half < diff -> BecomeSlave(w, c)

HandleMSDAck(e, w, c, m) ==
  LET c0 == StopTimer(c, "MSD", 0)
      c1 == IF c0.masterSlaveState # "DetermineSent" THEN c0
            ELSE IF m.decision = "master" THEN BecomeMaster(w, c0) ELSE BecomeSlave(w, c0)
  IN  IF CapsExchanged(c1) THEN OpenIfNone(e, w, c1) ELSE c1

(* Mutant of HandleMSDReject: the retry is not counted.                     *)
HandleMSDRejectUncounted(e, w, c) ==
  LET c0 == StopTimer(c, "MSD", 0)
  IN  IF c0.msdRetries < MaxRetries
      THEN SendMSD(e, w, [c0 EXCEPT !.masterSlaveState = "Idle"])
      ELSE MarkClear(c0)

HandleMSDReject(e, w, c) ==
  LET c0 == StopTimer(c, "MSD", 0)
  IN  IF c0.msdRetries < MaxRetries
      THEN SendMSD(e, w, [c0 EXCEPT !.msdRetries = @ + 1, !.masterSlaveState = "Idle"])
      ELSE MarkClear(c0)
-----------------------------------------------------------------------------
(* Terminal capability exchange *)

(* ooOnReceivedTerminalCapabilitySet with the two tests of its caller, on a *)
(* set that is accepted.                                                    *)
AcceptTCS(e, w, c, m) ==
  LET c1 == IF m.caps THEN c ELSE [c EXCEPT !.h245SessionState = "PAUSED"]
      c2 == [SendH245(w, [c1 EXCEPT !.remoteTermCapSeqNo = m.seq], Msg("TCSAck"))
               EXCEPT !.remoteTermCapState = "AckSent"]
      c3 == IF c2.localTermCapState = "Idle" THEN SendTermCap(w, c2) ELSE c2
  IN  IF CapsExchanged(c3) /\ RoleDecided(c3) THEN OpenIfNone(e, w, c3) ELSE c3

RejectTCS(w, c, m) ==
  LET c1 == [SendH245(w, c, [type |-> "TCSReject", seq |-> m.seq])
               EXCEPT !.remoteTermCapState = "Idle"]
  IN  IF c1.localTermCapState = "Idle" THEN SendTermCap(w, c1) ELSE c1

HandleTCS(e, w, c, m) ==
  LET c1 == IF c.h245SessionState = "IDLE" THEN [c EXCEPT !.h245SessionState = "ACTIVE"] ELSE c
  IN  IF c1.remoteTermCapSeqNo >= m.seq /\ c1.remoteTermCapSeqNo # 0
      THEN RejectTCS(w, c1, m) ELSE AcceptTCS(e, w, c1, m)

(* Mutant of HandleTCSAck: the role need not be decided.                    *)
HandleTCSAckAnyRole(e, w, c) ==
  LET c1 == [StopTimer(c, "TCS", 0) EXCEPT !.localTermCapState = "AckRecvd"]
  IN  IF CapsExchanged(c1) THEN OpenIfNone(e, w, c1) ELSE c1

(* ooOnReceivedTerminalCapabilitySetAck *)
HandleTCSAck(e, w, c) ==
  LET c1 == [StopTimer(c, "TCS", 0) EXCEPT !.localTermCapState = "AckRecvd"]
  IN  IF CapsExchanged(c1) /\ RoleDecided(c1) THEN OpenIfNone(e, w, c1) ELSE c1

HandleTCSReject(c, m) ==
  IF m.seq # c.localTermCapSeqNo THEN c ELSE MarkClear(StopTimer(c, "TCS", 0))
-----------------------------------------------------------------------------
(* Logical channels *)

(* Mutant of HandleOLC: the direction, a string in the code, is misspelt.   *)
HandleOLCMisspelt(e, w, c, m) ==
  IF m.cap \in CanRx[e]
  THEN LET s  == IF m.session = 0 THEN GenerateSession(c, m.cap, "receive") ELSE m.session
           c0 == IF m.session = 0 THEN UseSession(c, s) ELSE c
           c1 == SendH245(w, AddChanIn(c0, m.chan, s, "recieve", m.cap, "IDLE"),
                          ChanMsgOf("OLCAck", m.chan))
           i  == Len(c1.logicalChans)
       IN  SetChanState(StartChan(c1, i), i, "ESTABLISHED")
  ELSE SendH245(w, c, ChanMsgOf("OLCReject", m.chan))

(* ooHandleOpenLogicalChannel and its helper *)
HandleOLC(e, w, c, m) ==
  IF m.cap \in CanRx[e]
  THEN LET s  == IF m.session = 0 THEN GenerateSession(c, m.cap, "receive") ELSE m.session
           c0 == IF m.session = 0 THEN UseSession(c, s) ELSE c
           c1 == SendH245(w, AddChanIn(c0, m.chan, s, "receive", m.cap, "IDLE"),
                          ChanMsgOf("OLCAck", m.chan))
           i  == Len(c1.logicalChans)
       IN  SetChanState(StartChan(c1, i), i, "ESTABLISHED")
  ELSE SendH245(w, c, ChanMsgOf("OLCReject", m.chan))

(* ooOnReceivedOpenLogicalChannelAck; no channel is proposed without its    *)
(* session here, so the one in the acknowledgement is not taken.            *)
HandleOLCAck(c, m) ==
  LET c0 == StopTimer(c, "OLC", m.chan)
      i  == FindChan(c0.logicalChans, m.chan)
  IN  IF i = 0 THEN c0 ELSE SetChanState(StartChan(c0, i), i, "ESTABLISHED")

(* ooOnReceivedOpenLogicalChannelRejected *)
HandleOLCReject(c, m) == MarkClear(StopTimer(c, "OLC", m.chan))

(* Mutants of SendCLC and HandleCLC: the entry stays in the list.           *)
SendCLCOnly(w, c, n) == SendH245(w, c, ChanMsgOf("CLC", n))
HandleCLCOnlyAck(w, c, m) == SendH245(w, c, ChanMsgOf("CLCAck", m.chan))

(* ooSendCloseLogicalChannel *)
SendCLC(w, c, n) == ClearChan(SendH245(w, c, ChanMsgOf("CLC", n)), n)

(* ooOnReceivedCloseLogicalChannel *)
HandleCLC(w, c, m) == SendH245(w, ClearChan(c, m.chan), ChanMsgOf("CLCAck", m.chan))

(* ooOnReceivedRequestChannelClose *)
HandleRCC(w, c, m) ==
  LET i == FindChan(c.logicalChans, m.chan)
  IN  IF i = 0 \/ (i # 0 /\ c.logicalChans[i].dir # "transmit") THEN c
      ELSE SendCLC(w, SendH245(w, c, ChanMsgOf("RCCAck", m.chan)), m.chan)

(* ooOnReceivedRequestChannelCloseAck and ooOnReceivedRequestChannelCloseReject *)
HandleRCCAnswer(c, m) == ClearChan(StopTimer(c, "RCC", m.chan), m.chan)
-----------------------------------------------------------------------------
(* ooHandleH245Command: EndSessionCommand.  With both ends already sending  *)
(* theirs the connection closes; otherwise answer with our own.             *)
HandleEndSession(w, c) ==
  IF c.h245SessionState = "ENDSENT" THEN CloseH245(StopTimer(c, "SESSION", 0))
  ELSE SendH245(w, ClearAllChans([c EXCEPT !.h245SessionState = "ENDRECVD"]), Msg("EndSession"))

(* ooHandleH245Message *)
HandleH245Message(e, w, c, m) ==
  CASE m.type = "TCS"        -> HandleTCS(e, w, c, m)
    [] m.type = "MSD"        -> HandleMSD(e, w, c, m)
    [] m.type = "OLC"        -> HandleOLC(e, w, c, m)
    [] m.type = "CLC"        -> HandleCLC(w, c, m)
    [] m.type = "RCC"        -> HandleRCC(w, c, m)
    [] m.type = "MSDAck"     -> HandleMSDAck(e, w, c, m)
    [] m.type = "MSDReject"  -> HandleMSDReject(e, w, c)
    [] m.type = "TCSAck"     -> HandleTCSAck(e, w, c)
    [] m.type = "TCSReject"  -> HandleTCSReject(c, m)
    [] m.type = "OLCAck"     -> HandleOLCAck(c, m)
    [] m.type = "OLCReject"  -> HandleOLCReject(c, m)
    [] m.type = "CLCAck"     -> StopTimer(c, "CLC", m.chan)
    [] m.type \in {"RCCAck", "RCCReject"} -> HandleRCCAnswer(c, m)
    [] m.type = "EndSession" -> HandleEndSession(w, c)
    [] OTHER                 -> c
-----------------------------------------------------------------------------
(* Timer callbacks.  ooTimerFireExpired deletes the timer when its callback *)
(* has returned; no callback looks for its own, so here it goes first.      *)

(* ooSessionTimerExpired *)
SessionExpired(c) ==
  LET c1 == IF c.h245SessionState \notin {"IDLE", "CLOSED", "PAUSED"} THEN CloseH245(c) ELSE c
  IN  IF c1.callState = CLEAR_RELEASESENT THEN [c1 EXCEPT !.callState = CLEARED] ELSE c1

FireTimer(e, w, c, t) ==
  LET c0 == StopTimer(c, t.type, t.chan)
  IN  CASE t.type = "MSD" -> MarkClear(SendH245(w, c0, Msg("MSDRelease")))
        [] t.type = "TCS" -> MarkClear(SendH245(w, c0, Msg("TCSRelease")))
        [] t.type = "OLC" ->
             MarkClear(IF FindChan(c0.logicalChans, t.chan) = 0 THEN c0
                       ELSE SendCLC(w, c0, t.chan))
        [] t.type = "CLC" -> MarkClear(ClearChan(c0, t.chan))
        [] t.type = "RCC" ->
             MarkClear(ClearChan(SendH245(w, c0, ChanMsgOf("RCCRelease", t.chan)), t.chan))
        [] t.type = "SESSION" -> SessionExpired(c0)
        [] t.type = "CALLESTB" -> MarkClear(c0)
        [] t.type = "H245CONNECT" ->
             CreateH245Connection(e, w, [c0 EXCEPT !.h245ConnectionAttempts = @ + 1])
=============================================================================
