----------------------------- MODULE CallSession -----------------------------
(***************************************************************************)
(* One call between two endpoints that both run ooh323c: Setup, ringing    *)
(* and the answer, with fast start and tunnelling as the ends have them;   *)
(* the H.245 start-up (capability exchange, master slave determination,    *)
(* opening of channels); the timers; the commands of the two users; and    *)
(* the clearing of the call at both ends.                                  *)
(*                                                                         *)
(* Each end makes passes of ooProcessFDSETsAndTimers over its call.  A     *)
(* pass is one step: what it reads was there when select returned, and     *)
(* what it writes goes to two sockets the peer reads in any order, so the  *)
(* peer cannot tell when in the pass it was written.  What one end has     *)
(* written and the other has not read is h225Net and h245Net of the        *)
(* writer's record.                                                        *)
(***************************************************************************)
EXTENDS OOChannels

CONSTANTS
  Caller,        \* the end that placed the call
  Scenarios,     \* what may happen in the call, see Scenario
  RandomNumbers  \* what the random number generator may return

(* The stack commands that concern one call.                                *)
UserCommand == {"ring", "answer", "forward", "hangup"}

(* A scenario: the flags of each endpoint, those the caller's call options  *)
(* leave, what each user may ask for, and the timers that may expire before *)
(* they are stopped.  A user rings and answers only at a call that comes in *)
(* (tests/simple/simple.c:720, and Asterisk's core for ooh323_answer).      *)
Scenario ==
  [ep : [Endpoint -> SUBSET EpFlag], opts : SUBSET {"TUNNELING", "FASTSTART"},
   asks : [Endpoint -> SUBSET UserCommand], expire : [Endpoint -> SUBSET TimerType]]

ASSUME SessionAssumption ==
  /\ \E called \in Endpoint : called # Caller /\ Endpoint = {Caller, called}
  /\ \A s \in Scenarios : s \in Scenario /\ s.asks[Caller] \cap {"ring", "answer"} = {}
  /\ RandomNumbers \subseteq DetNumber /\ RandomNumbers # {}

VARIABLES
  scenario,  \* the scenario this call is in
  call,      \* [Endpoint -> Call]: the record each end has of the call
  commands   \* [Endpoint -> SUBSET UserCommand]: what its user may still ask

vars == << scenario, call, commands >>

Peer(e) == CHOOSE p \in Endpoint : p # e

(* The caller has queued Setup, the called end has accepted the connection. *)
Init ==
  /\ scenario \in Scenarios
  /\ call = [e \in Endpoint |->
               IF e = Caller THEN MakeCall(e, scenario.ep[e], scenario.opts)
               ELSE NewCall(FALSE, scenario.ep[e])]
  /\ commands = [e \in Endpoint |-> IF e = Caller THEN scenario.asks[e] ELSE {}]

-----------------------------------------------------------------------------
(* Writing to a socket fails only if the other end has closed it.           *)
SendOutcome(sock) == IF sock = "closed" THEN BOOLEAN ELSE {TRUE}

(* The kernel connects while the listener exists, unless the network fails. *)
ConnectOutcome(e) == IF call[Peer(e)].h245listener THEN BOOLEAN ELSE {FALSE}

(* What a pass of end e may find on a connection: the next thing the peer   *)
(* has written, if it has arrived yet.  A closed peer's data can still be   *)
(* read, unless it closed with data unread, which resets the connection.    *)
Arrived(mySock, myNet, peerNet, peerGone) ==
  IF mySock # "open" THEN {Nothing}
  ELSE {Nothing}
       \cup (IF peerNet # << >> THEN {Head(peerNet)} ELSE {})
       \cup (IF peerGone /\ (peerNet = << >> \/ myNet # << >>) THEN {Eof} ELSE {})

ArrivedH225(e) ==
  LET c == call[e]
      p == call[Peer(e)]
  IN  Arrived(c.h225Sock, c.h225Net, p.h225Net, p.h225Sock = "closed")

ArrivedH245(e) ==
  LET c == call[e]
      p == call[Peer(e)]
  IN  Arrived(c.h245Sock, c.h245Net, p.h245Net,
              \/ p.h245Sock = "closed"
              \/ p.h245Sock = "none" /\ ~p.h245listener)

(* The listener is in the set only while the call has no H.245 socket, and  *)
(* ready once the caller's connect has succeeded.                           *)
CanAccept(e) ==
  /\ call[e].h245Sock = "none" /\ call[e].h245listener
  /\ call[Peer(e)].h245Sock # "none"

(* At most one timer is taken to expire in one pass.  The connection retry  *)
(* is the only way on from a refused connection, so it may always expire.   *)
Expired(e) ==
  {{}} \cup {{t} : t \in {t \in call[e].timers : t.type \in scenario.expire[e] \cup {"H245CONNECT"}}}

ReadyAt(e) ==
  [expired : Expired(e), h225 : ArrivedH225(e), h245 : ArrivedH245(e),
   listener : IF CanAccept(e) THEN BOOLEAN ELSE {FALSE}]

(* What the environment answers in the pass.  No pass draws more than one   *)
(* random number, and a closed H.245 connection takes all that is written   *)
(* to it in the pass or nothing.                                            *)
WorldsAt(e) ==
  LET open == IF call[e].h245Sock = "none" /\ ~CanAccept(e) THEN ConnectOutcome(e)
              ELSE SendOutcome(call[Peer(e)].h245Sock)
  IN  [num : RandomNumbers, ok : open, okH225 : SendOutcome(call[Peer(e)].h225Sock)]

(* One end's pass over its call, with what it has read taken from the       *)
(* peer's side.                                                             *)
AfterPass(e, ready, w) ==
  LET before   == AfterH225(e, w, call[e], ready)
      read245  == ServesH245(before, ready.h245) /\ ready.h245 # Eof
      read225  == ready.h225 \notin {Nothing, Eof}
  IN  [call EXCEPT
         ![e] = PassOver(e, w, @, ready),
         ![Peer(e)].h225Net = IF read225 THEN Tail(@) ELSE @,
         ![Peer(e)].h245Net = IF read245 THEN Tail(@) ELSE @]

(* A pass that changes nothing is no step.  With Setup the user learns of   *)
(* the call.                                                                *)
Pass(e) ==
  /\ ~call[e].cleaned
  /\ \E ready \in ReadyAt(e), w \in WorldsAt(e) :
       /\ call' = AfterPass(e, ready, w)
       /\ commands' = IF ready.h225.type = "Setup"
                      THEN [commands EXCEPT ![e] = scenario.asks[e]] ELSE commands
  /\ call' # call
  /\ UNCHANGED scenario

(* Some pass of e changes something.                                        *)
CanPass(e) ==
  ~call[e].cleaned /\ \E ready \in ReadyAt(e), w \in WorldsAt(e) : AfterPass(e, ready, w) # call

(* ooProcessStackCommand, between two passes: each command is given at most *)
(* once, and the code looks at nothing but whether the call still exists.   *)
Asks(e, command) ==
  /\ ~call[e].cleaned /\ command \in commands[e]
  /\ commands' = [commands EXCEPT ![e] = @ \ {command}]
  /\ UNCHANGED scenario

(* OO_CMD_MANUALRINGBACK *)
Ring(e) ==
  /\ Asks(e, "ring") /\ "MANUALRINGBACK" \in call[e].epFlags
  /\ call' = [call EXCEPT ![e] = RingAndAnswer(e, @)]

(* OO_CMD_ANSCALL; an endpoint that answers by itself has no use for it.    *)
Answer(e) ==
  /\ Asks(e, "answer") /\ "AUTOANSWER" \notin call[e].epFlags
  /\ call' = [call EXCEPT ![e] = AcceptCall(e, @)]

(* OO_CMD_FWDCALL *)
Forward(e) ==
  /\ Asks(e, "forward")
  /\ call' = [call EXCEPT ![e] = ForwardCall(@)]

(* OO_CMD_HANGCALL: ooH323HangCall; on a call that is being cleared it      *)
(* changes nothing.                                                         *)
HangUp(e) ==
  /\ Asks(e, "hangup")
  /\ call[e].callState < CLEAR
  /\ call' = [call EXCEPT ![e] = MarkClear(@)]

(* Nothing is on its way, nothing is timed and neither end is clearing.     *)
Quiet ==
  \A e \in Endpoint :
    /\ call[e].callState < CLEAR
    /\ call[e].timers = {}
    /\ call[e].h225Out = << >> /\ call[e].h225Net = << >>
    /\ call[e].h245Out = << >> /\ call[e].h245Net = << >>

(* The system stops when both calls are over, or when the call is up and    *)
(* only a user could do something.                                          *)
Rest ==
  /\ Quiet \/ \A e \in Endpoint : call[e].cleaned
  /\ UNCHANGED vars

Next ==
  \/ \E e \in Endpoint : Pass(e) \/ Ring(e) \/ Answer(e) \/ Forward(e) \/ HangUp(e)
  \/ Rest

Spec == Init /\ [][Next]_vars
-----------------------------------------------------------------------------
(* Fairness: the loop of each end keeps making passes while there is        *)
(* something to do; no user has to ask for anything.  This is               *)
(* WF_vars(Pass(e)) with ENABLED written out as CanPass.                    *)
Fairness == \A e \in Endpoint : []<>~CanPass(e) \/ []<><<Pass(e)>>_vars

FairSpec == Spec /\ Fairness
-----------------------------------------------------------------------------
(* The state of both calls has its type.                                    *)
TypeOK ==
  /\ scenario \in Scenarios
  /\ call \in [Endpoint -> Call]
  /\ commands \in [Endpoint -> SUBSET UserCommand]

(* What e is about to read and take for H.245.                              *)
Incoming(e) ==
  LET c == call[e]
      p == call[Peer(e)]
      next(sock, net) == IF sock = "open" /\ net # << >> THEN {Head(net)} ELSE {}
  IN  next(c.h245Sock, p.h245Net)
      \cup (IF Has(c, "TUNNELING") THEN next(c.h225Sock, p.h225Net) ELSE {})

(* Master slave determination: with numbers that cross, are equal or half   *)
(* way apart, with retries, and with an end that answers before it has sent *)
(* its own number, the two ends never take the same role.                   *)
RolesDiffer ==
  \A e \in Endpoint :
    RoleDecided(call[e]) => call[Peer(e)].masterSlaveState # call[e].masterSlaveState

(* OpenLogicalChannel is only sent when the sender has finished both        *)
(* procedures; what makes that safe is that a live call that reads it, whose *)
(* handler tests nothing, has finished them too by then.                    *)
OLCFindsReceiverReady ==
  \A e \in Endpoint :
    (call[e].callState < CLEAR /\ \E m \in Incoming(e) : m.type = "OLC")
      => CapsExchanged(call[e]) /\ RoleDecided(call[e])

Channels(e, dir) ==
  {ch \in ToSet(call[e].logicalChans) : ch.dir = dir /\ ch.state = "ESTABLISHED"}

NumberAndCap(chans) == {<< ch.channelNo, ch.cap >> : ch \in chans}

(* An end opens its channels only if its channel list is empty, and in the  *)
(* same list are the other end's channels and what fast start has offered:  *)
(* still, when the call comes to rest both ends have channels they transmit *)
(* on, they are the receiving channels of the other end, by number and      *)
(* codec, and the application was told to start each open channel.          *)
MediaFlowsBothWays ==
  Quiet =>
    \A e \in Endpoint :
      /\ CallMode[e] # "OTHER" => Channels(e, "transmit") # {}
      /\ NumberAndCap(Channels(e, "transmit")) = NumberAndCap(Channels(Peer(e), "receive"))
      /\ \A ch \in Channels(e, "transmit") \cup Channels(e, "receive") : ch.started

(* Fast start offers a channel for each codec and direction, its answer may *)
(* come in several messages, and H.245 starts up beside it: an end never    *)
(* has two open channels for the same media in the same direction.          *)
OneChannelPerMedia ==
  \A e \in Endpoint :
    \A i, j \in DOMAIN call[e].logicalChans :
      LET a == call[e].logicalChans[i]
          b == call[e].logicalChans[j]
      IN  (/\ i # j /\ a.dir = b.dir /\ MediaOf[a.cap] = MediaOf[b.cap])
            => ~(a.state = "ESTABLISHED" /\ b.state = "ESTABLISHED")

(* The state of a call only moves towards CLEARED: what is marked for       *)
(* clearing is never a live call again.                                     *)
CallStateAdvances ==
  [][\A e \in Endpoint : call'[e].callState >= call[e].callState]_vars

(* A call given up by either end, for whatever reason, is eventually removed *)
(* at both ends.                                                            *)
ClearedAtBothEnds ==
  (\E e \in Endpoint : call[e].callState >= CLEAR) ~> (\A e \in Endpoint : call[e].cleaned)

(* A call is answered and comes to rest with its media open, or is cleared. *)
Settles == <>(Quiet \/ \E e \in Endpoint : call[e].callState >= CLEAR)

(* The user of e has asked to forward the call, and e has noted it; the     *)
(* note is overwritten when e is asked to forward the call itself.          *)
HasForwarded(e) ==
  /\ "forward" \in scenario.asks[e] \ commands[e]
  /\ call[e].pCallFwdData # "none"

(* A new call takes the place of this one only if the user at the other end *)
(* has asked for it, whatever both users do, also when both forward the     *)
(* call, and however it ends.                                               *)
ForwardedByPeer ==
  \A e \in Endpoint : call[e].forwarded => HasForwarded(Peer(e))

(* ooLogChan.h:99-101: "When the remote endpoint selects one of the proposed *)
(* alternatives, other channels for the same session type need to be        *)
(* closed": at rest, what the caller lists of the media types in the answer  *)
(* to its fast start is what the answer selected.                           *)
AlternativesClosed ==
  Quiet =>
    \A olc \in ToSet(call[Caller].remoteFastStartOLCs) :
      LET dir == IF olc.dir = "reverse" THEN "receive" ELSE "transmit"
      IN  \A ch \in ToSet(call[Caller].logicalChans) :
            (ch.dir = dir /\ MediaOf[ch.cap] = MediaOf[olc.cap])
              => ch.cap = olc.cap /\ ch.state = "ESTABLISHED"

(* What the caller has offered by fast start is not counted as proposed     *)
(* until it is chosen, and what is chosen of it is the other end's choice.  *)
Offered(c) ==
  IF c.outgoing /\ "FASTSTART" \in c.epFlags THEN Len(Proposals(Caller)) ELSE 0

(* The start-up as H245Negotiation describes it.                            *)
Negotiation ==
  INSTANCE H245Negotiation WITH
    role <- [e \in Endpoint |->
               IF RoleDecided(call[e]) THEN call[e].masterSlaveState ELSE "undecided"],
    proposed <- [e \in Endpoint |->
                   call[e].logicalChanNoCur - ChanNoBase - Offered(call[e])],
    fast <- [e \in Endpoint |-> ~call[e].outgoing /\ "FASTSTART" \in call[e].epFlags],
    over <- [e \in Endpoint |-> call[e].callState >= CLEAR]

NegotiationSpec == Negotiation!Spec
=============================================================================
