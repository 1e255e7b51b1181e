----------------------------- MODULE OOChannels -----------------------------
(***************************************************************************)
(* oochannels.c: the pass ooProcessFDSETsAndTimers makes over one call,    *)
(* and what it does with each thing that select found ready.               *)
(***************************************************************************)
EXTENDS OOH225

-----------------------------------------------------------------------------
(* A CloseLogicalChannel for each established outgoing channel.             *)
QueueClose(out, ch) ==
  IF ch.state = "ESTABLISHED" /\ ch.dir = "transmit"
  THEN Append(out, ChanMsgOf("CLC", ch.channelNo)) ELSE out

(* Mutant of ClosePaused: this end's capabilities are not sent again.       *)
ClosePausedKeepsCaps(c) ==
  [c EXCEPT
     !.h245Out = FoldLeft(QueueClose, @, c.logicalChans), !.logicalChans = << >>,
     !.masterSlaveState = "Idle", !.callState = PAUSED,
     !.remoteTermCapState = "Idle", !.h245SessionState = "IDLE"]

(* ooH245Receive, session paused by the other end: the outgoing channels    *)
(* are closed, and the call goes back to where it began.  The loop reads    *)
(* temp->next after the entry is freed; the freed entry is taken to be      *)
(* intact, as this code's allocator leaves it.                              *)
ClosePaused(c) ==
  [c EXCEPT
     !.h245Out = FoldLeft(QueueClose, @, c.logicalChans), !.logicalChans = << >>,
     !.masterSlaveState = "Idle", !.callState = PAUSED,
     !.localTermCapState = "Idle", !.remoteTermCapState = "Idle",
     !.h245SessionState = "IDLE"]

(* ooH245Receive: a whole message *)
ReceiveH245(e, w, c, m) ==
  HandleH245Message(e, w, IF c.h245SessionState = "PAUSED" THEN ClosePaused(c) ELSE c, m)

(* ooH245Receive: the socket is closed or in error *)
ReceiveH245Fails(c) ==
  MarkClear(IF c.h245SessionState = "PAUSED" THEN ClosePaused(c) ELSE CloseH245(c))
-----------------------------------------------------------------------------
(* ooH2250Receive: the socket is closed or in error *)
ReceiveH225Fails(c) ==
  IF c.callState = CLEARED THEN CloseH225(c)
  ELSE [CloseH225(MarkClear(c)) EXCEPT !.callState = CLEARED]
-----------------------------------------------------------------------------
(* What is ready on a call when its pass begins.                            *)
Nothing == [type |-> "nothing"]
Eof     == [type |-> "eof"]
Arrival == Message \cup {Nothing, Eof}

Ready == [expired : SUBSET Timer, h225 : Arrival, h245 : Arrival, listener : BOOLEAN]

(* The steps of the pass, in their order.  found is the call as select saw  *)
(* it, c the call as the steps before have left it: a socket is served only *)
(* if it was in the set and is still open, and a queue that was not empty   *)
(* is written from (the kernel has room for these few messages).            *)
FireExpired(e, w, c, expired) ==
  IF expired = {} THEN c ELSE FireTimer(e, w, c, CHOOSE t \in expired : TRUE)

ServeH225(e, w, c, arrived) ==
  CASE c.h225Sock # "open" \/ arrived = Nothing -> c
    [] c.h225Sock = "open" /\ arrived = Eof     -> ReceiveH225Fails(c)
    [] OTHER                                    -> HandleH2250Message(e, w, c, arrived)

ServesH245(c, arrived) == c.h245Sock = "open" /\ arrived # Nothing

ServeH245(e, w, c, arrived) ==
  CASE ~ServesH245(c, arrived)                  -> c
    [] ServesH245(c, arrived) /\ arrived = Eof  -> ReceiveH245Fails(c)
    [] OTHER                                    -> ReceiveH245(e, w, c, arrived)

WriteH245(e, w, found, c, listener) ==
  IF c.h245Sock = "open"
  THEN IF found.h245Sock = "open" /\ found.h245Out # << >> THEN SendMsgH245(w, c) ELSE c
  ELSE IF c.h245listener /\ listener THEN AcceptH245Connection(e, w, c) ELSE c

WriteH225(w, found, c) ==
  IF c.h225Sock = "open" /\ found.h225Out # << >> THEN SendMsgQ931(w, c) ELSE c

EndOfPass(w, c) == IF c.callState >= CLEAR THEN EndCall(w, c) ELSE c

(* The call after each step of the pass. *)
AfterTimers(e, w, found, ready) == FireExpired(e, w, found, ready.expired)
AfterH225(e, w, found, ready) ==
  ServeH225(e, w, AfterTimers(e, w, found, ready), ready.h225)
AfterH245(e, w, found, ready) ==
  ServeH245(e, w, AfterH225(e, w, found, ready), ready.h245)
AfterWrites(e, w, found, ready) ==
  WriteH225(w, found, WriteH245(e, w, found, AfterH245(e, w, found, ready), ready.listener))

PassOver(e, w, found, ready) == EndOfPass(w, AfterWrites(e, w, found, ready))
=============================================================================
