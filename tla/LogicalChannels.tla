--------------------------- MODULE LogicalChannels ---------------------------
(***************************************************************************)
(* The logical channels of one call once both H.245 procedures are done:   *)
(* ooLogChan.c and the channel handlers and timers of ooh245.c at one end, *)
(* against a peer that follows H.245 but need not run this code.  Each end *)
(* numbers the channels it transmits on as it likes, so a number alone     *)
(* does not say which of the two directions is meant; the list of this     *)
(* code is searched by number alone.  The peer may pause the session with  *)
(* an empty capability set, and resume it by running both procedures       *)
(* again; this end then begins anew, with the numbers that come next.      *)
(***************************************************************************)
EXTENDS OOChannels

CONSTANTS
  Local,       \* the end that runs this code
  PeerChan,    \* the numbers the peer may give its channels
  PeerTermType, \* the peer's terminal type, other than this end's
  MaxPauses,   \* bound: how often the peer pauses the session
  MaxInFlight  \* bound: messages of this end that are queued or unread

ASSUME ChannelsAssumption ==
  /\ Local \in Endpoint
  /\ PeerChan \subseteq Nat
  /\ PeerTermType \in Nat \ {TermType[Local]}
  /\ MaxPauses \in Nat /\ 2 * MaxPauses + 1 < TCSSeqMod   \* no number comes twice
  /\ MaxInFlight \in Nat

VARIABLES
  call,       \* this end's call
  theirs,     \* channels the peer has open towards this end
  asked,      \* channels this end proposed, the peer has not answered
  receiving,  \* channels this end proposed, the peer has accepted
  forgotten,  \* of theirs, those open when this end dropped its list
  paused,     \* the peer has paused the session and not begun to resume it
  awaited,    \* what the peer still has to send ("MSD") or to read before it goes on
  pauses      \* how often the peer has paused the session

channels == << theirs, asked, receiving >>
session  == << paused, awaited, pauses >>
vars == << call, channels, forgotten, session >>

(* The socket takes what is written. *)
Fine == [num |-> 0, ok |-> TRUE, okH225 |-> TRUE]

(* Both procedures are done, and this end has just proposed its channels.   *)
Init ==
  /\ call = OpenLogicalChannels(Local, Fine,
              [NewCall(TRUE, {}) EXCEPT
                 !.callState = CONNECTED, !.h245SessionState = "ACTIVE", !.h245Sock = "open",
                 !.masterSlaveState = "Master",
                 !.localTermCapState = "AckRecvd", !.localTermCapSeqNo = 1,
                 !.remoteTermCapState = "AckSent", !.remoteTermCapSeqNo = 1])
  /\ theirs = {} /\ asked = {} /\ receiving = {} /\ forgotten = {}
  /\ paused = FALSE /\ awaited = {} /\ pauses = 0

Live == call.callState < CLEAR

Room == Len(call.h245Out) + Len(call.h245Net) < MaxInFlight

(* The peer has no procedure under way. *)
Running == ~paused /\ awaited = {}

(* A message of the peer is received on arrival, by c, and makes this end   *)
(* drop its list if the session has been paused.                            *)
Receive(c, m) == call' = ReceiveH245(Local, Fine, c, m)
Forgotten     == IF call.h245SessionState = "PAUSED" THEN theirs ELSE forgotten

Handle(m) == Receive(call, m) /\ forgotten' = Forgotten

-----------------------------------------------------------------------------
(* This end's queue is written from, and the peer reads.                    *)
Write ==
  /\ Live /\ call.h245Out # << >>
  /\ call' = SendMsgH245(Fine, call)
  /\ UNCHANGED << channels, forgotten, session >>

(* What the peer answers at once.  It confirms the role it is told by       *)
(* naming the other one.                                                    *)
Answer(m) ==
  CASE m.type = "CLC"    -> {ChanMsgOf("CLCAck", m.chan)}
    [] m.type = "TCS"    -> {Msg("TCSAck")}
    [] m.type = "MSDAck" -> {[type |-> "MSDAck",
                              decision |-> IF m.decision = "master" THEN "slave" ELSE "master"]}
    [] OTHER             -> {}

(* The peer forgets a channel when it reads its CloseLogicalChannel.        *)
PeerReads ==
  /\ Live /\ call.h245Net # << >>
  /\ LET m    == Head(call.h245Net)
         rest == [call EXCEPT !.h245Net = Tail(@)]
     IN  /\ asked' = CASE m.type = "OLC" -> asked \cup {m.chan}
                       [] m.type = "CLC" -> asked \ {m.chan}
                       [] OTHER          -> asked
         /\ receiving' = IF m.type = "CLC" THEN receiving \ {m.chan} ELSE receiving
         /\ awaited' = awaited \ {m.type}
         /\ IF Answer(m) = {} THEN call' = rest /\ UNCHANGED forgotten
            ELSE \E a \in Answer(m) : Receive(rest, a) /\ forgotten' = Forgotten
  /\ UNCHANGED << theirs, paused, pauses >>

PeerAccepts(n) ==
  /\ Live /\ n \in asked
  /\ Handle(ChanMsgOf("OLCAck", n))
  /\ asked' = asked \ {n} /\ receiving' = receiving \cup {n}
  /\ UNCHANGED << theirs, session >>

PeerRejects(n) ==
  /\ Live /\ n \in asked
  /\ Handle(ChanMsgOf("OLCReject", n))
  /\ asked' = asked \ {n}
  /\ UNCHANGED << theirs, receiving, session >>

(* The peer asks this end to close a channel it transmits on.               *)
PeerRequestsClose(n) ==
  /\ Live /\ Room /\ n \in receiving
  /\ Handle(ChanMsgOf("RCC", n))
  /\ UNCHANGED << channels, session >>

(* The peer opens a channel towards this end: open if the code accepts it.  *)
PeerOpens(n, cap) ==
  /\ Live /\ Room /\ Running /\ n \in PeerChan \ theirs
  /\ Handle([type |-> "OLC", chan |-> n, cap |-> cap, session |-> DefaultSession(MediaOf[cap])])
  /\ theirs' = IF cap \in CanRx[Local] THEN theirs \cup {n} ELSE theirs
  /\ UNCHANGED << asked, receiving, session >>

PeerCloses(n) ==
  /\ Live /\ Room /\ n \in theirs
  /\ Receive(call, ChanMsgOf("CLC", n))
  /\ theirs' = theirs \ {n} /\ forgotten' = Forgotten \ {n}
  /\ UNCHANGED << asked, receiving, session >>

(* The peer numbers its capability sets one by one.                         *)
CapabilitySet(caps) == [type |-> "TCS", seq |-> call.remoteTermCapSeqNo + 1, caps |-> caps]

(* The peer pauses the session when there are channels and no proposal of   *)
(* this end is open.  An end without channels opens them in answer to the   *)
(* empty set, and a proposal that is dropped with the list stays with the   *)
(* peer.                                                                    *)
Settled ==
  /\ call.logicalChans # << >>
  /\ \A i \in DOMAIN call.logicalChans : call.logicalChans[i].state = "ESTABLISHED"

PeerPauses ==
  /\ Live /\ Running /\ Settled /\ pauses < MaxPauses
  /\ Handle(CapabilitySet(FALSE))
  /\ paused' = TRUE /\ awaited' = {"TCSAck"} /\ pauses' = pauses + 1
  /\ UNCHANGED channels

(* The peer resumes it with a capability set, once the empty one has been   *)
(* acknowledged, and determines the roles again.                            *)
PeerResumes ==
  /\ Live /\ paused /\ awaited = {}
  /\ Handle(CapabilitySet(TRUE))
  /\ paused' = FALSE /\ awaited' = {"MSD", "TCSAck", "TCS", "MSDAck"}
  /\ UNCHANGED << channels, pauses >>

PeerDetermines ==
  /\ Live /\ "MSD" \in awaited
  /\ Handle([type |-> "MSD", terminalType |-> PeerTermType, number |-> 0])
  /\ awaited' = awaited \ {"MSD"}
  /\ UNCHANGED << channels, paused, pauses >>

Expire(t) ==
  /\ Live /\ t \in call.timers
  /\ call' = FireTimer(Local, Fine, call, t)
  /\ UNCHANGED << channels, forgotten, session >>

Next ==
  \/ Write \/ PeerReads
  \/ PeerPauses \/ PeerResumes \/ PeerDetermines
  \/ \E n \in asked : PeerAccepts(n) \/ PeerRejects(n)
  \/ \E n \in receiving : PeerRequestsClose(n)
  \/ \E n \in PeerChan, cap \in Cap : PeerOpens(n, cap)
  \/ \E n \in theirs : PeerCloses(n)
  \/ \E t \in call.timers : Expire(t)

Spec == Init /\ [][Next]_vars

(* This end's loop writes and reads; the peer reads, and resumes a session  *)
(* that it has paused.                                                      *)
Resumption ==
  WF_vars(Write) /\ WF_vars(PeerReads) /\ WF_vars(PeerResumes) /\ WF_vars(PeerDetermines)

FairSpec == Spec /\ Resumption
-----------------------------------------------------------------------------
TypeOK ==
  /\ call \in Call
  /\ theirs \subseteq PeerChan
  /\ asked \subseteq Nat /\ receiving \subseteq Nat /\ forgotten \subseteq PeerChan
  /\ paused \in BOOLEAN /\ awaited \subseteq {"MSD", "TCSAck", "TCS", "MSDAck"}
  /\ pauses \in 0 .. MaxPauses

Numbers(dir) ==
  {call.logicalChans[i].channelNo :
     i \in {i \in 1 .. Len(call.logicalChans) : call.logicalChans[i].dir = dir}}

(* While the call lives, the receiving entries of the list are the channels *)
(* the peer has open, whatever was opened, closed or timed out on the other *)
(* direction; all but those a pause has made this end forget.               *)
ReceivesWhatPeerSends == Live => Numbers("receive") = theirs \ forgotten

(* Once the peer has read everything, it expects media on exactly the       *)
(* channels this end transmits or has proposed.                             *)
TransmitsWhatPeerReceives ==
  (Live /\ call.h245Out = << >> /\ call.h245Net = << >>)
    => Numbers("transmit") = asked \cup receiving

(* This end never transmits on a channel the peer has not accepted.         *)
TransmitsOnlyAccepted ==
  Live =>
    \A i \in 1 .. Len(call.logicalChans) :
      LET ch == call.logicalChans[i]
      IN  ch.dir = "transmit" /\ ch.state = "ESTABLISHED" => ch.channelNo \in receiving

(* A session that the peer has paused comes up again with channels of this  *)
(* end's in it, or the call is given up.                                    *)
Resumes == paused ~> ((Running /\ Numbers("transmit") # {}) \/ ~Live)

(* No media is sent twice: whichever of the three handlers ends the two     *)
(* procedures opens the channels, the others find them opened.              *)
OneChannelPerCap ==
  Live =>
    \A i, j \in DOMAIN call.logicalChans :
      LET a == call.logicalChans[i]
          b == call.logicalChans[j]
      IN  a.dir = "transmit" /\ b.dir = "transmit" /\ a.cap = b.cap => i = j

(* ooh245.h:325-326: a received CloseLogicalChannel "closes the logical     *)
(* channel and removes the logical channel entry from the list": what the   *)
(* peer has closed is no longer listed as a receiving channel.              *)
ClosedAreRemoved == Live => Numbers("receive") \subseteq theirs
=============================================================================
