----------------------------- MODULE ChanOOH323 -----------------------------
(***************************************************************************)
(* The Asterisk channel driver (asterisk/chan_ooh323.c) and the threads    *)
(* that meet in it.  For each call there is the private structure pvt, the *)
(* Asterisk channel that owns it, and the stack's own record of the call.  *)
(*                                                                         *)
(*   stack    the thread in ooMonitorChannels: it takes commands from the  *)
(*            pipe, and calls the driver back; a callback finds the pvt by *)
(*            the token of the call and locks it after;                    *)
(*   pbx[c]   the thread Asterisk runs the channel of call c with;         *)
(*   monitor  the thread in do_monitor, which destroys what needs it.      *)
(*                                                                         *)
(* What a thread does under iflock, or under the lock of a pvt, is one     *)
(* step: nothing in there waits for another lock (the channel is only      *)
(* tried), but for ooh323_destroy, which may hold both while it waits for  *)
(* the lock of the channel.  That one is held over two steps, by the       *)
(* thread that runs the channel.  ooh323_fixup is left out, and no         *)
(* gatekeeper is configured.                                               *)
(***************************************************************************)
EXTENDS Naturals, Sequences, FiniteSets

CONSTANTS
  Call,      \* the calls, each with its pvt and its channel
  Outgoing,  \* those that Asterisk places
  MayBeBusy, \* those that Asterisk may indicate busy or congestion on
  MayHappen  \* [Call -> SUBSET Event]: what may happen on each, once

Event == {"alerting", "connect", "digit"}

ASSUME DriverAssumption ==
  /\ Outgoing \subseteq Call /\ MayBeBusy \subseteq Call
  /\ MayHappen \in [Call -> SUBSET Event]

Flag  == {"ALREADYGONE", "NEEDDESTROY"}
Life  == {"none", "live", "freed"}

Command == [type : {"MAKECALL", "ANSCALL", "HANGCALL"}, call : Call]

VARIABLES
  pvt,       \* [Call -> Life]; the live ones are in iflist
  flags,     \* [Call -> SUBSET Flag]: pvt->flags
  owner,     \* the calls whose pvt->owner is their channel, not NULL
  callToken, \* the calls whose pvt->callToken is set
  busy,      \* the calls that Asterisk has indicated busy or congestion on
  chan,      \* [Call -> Life]: the Asterisk channel
  tech_pvt,  \* the calls whose channel->tech_pvt is their pvt, not NULL
  up,        \* the channels in AST_STATE_UP
  softhangup,\* the channels that have been asked to hang up
  pbx,       \* [Call -> where the thread of the channel is]
  h323,      \* [Call -> the state of the call in the stack]
  due,       \* [Call -> SUBSET Event]: what may still happen on each
  answered,  \* the calls that a Connect is received or sent for
  commands,  \* the commands in the pipe
  stack,     \* where the stack thread is, and with which call
  monitor,   \* the pvt that the monitor wants to detach from its channel
  crashed    \* a thread has used what was not there

driver  == << pvt, flags, owner, callToken, busy >>
channel == << chan, tech_pvt, up, softhangup >>
calls   == << h323, due, answered >>
vars == << driver, channel, pbx, calls, commands, stack, monitor, crashed >>

(* The places of the threads.  A pbx thread holds the lock of its channel   *)
(* while it is in an operation.  The stack thread holds the address of the  *)
(* pvt in one set of places, that of the channel in the other.              *)
Operation == {"answer", "media", "hangup"}
PbxPlace  == Operation \cup {"none", "down", "up", "gone"}
HoldsPvt  == {"onNewCallCreated", "onAlerting", "newChannel", "onCallEstablished",
              "retryEstablished", "onReceivedDigit", "queueDigit", "startTransmit",
              "stopTransmit", "onCallCleared"}
HoldsChan == {"lockOwner", "queueRinging", "queueAnswer"}
At(place, c) == [at |-> place, call |-> c]
Idle == [at |-> "idle"]
StackPlace == {Idle} \cup {At(place, c) : place \in HoldsPvt \cup HoldsChan, c \in Call}
MonitorPlace == {Idle} \cup {At("detach", c) : c \in Call}

Init ==
  /\ pvt = [c \in Call |-> "none"] /\ flags = [c \in Call |-> {}]
  /\ owner = {} /\ callToken = {} /\ busy = {}
  /\ chan = [c \in Call |-> "none"] /\ tech_pvt = {} /\ up = {} /\ softhangup = {}
  /\ pbx = [c \in Call |-> "none"]
  /\ h323 = [c \in Call |-> "none"] /\ due = MayHappen /\ answered = Outgoing
  /\ commands = << >> /\ stack = Idle /\ monitor = Idle /\ crashed = FALSE

-----------------------------------------------------------------------------
(* Helpers                                                                  *)

ChanFree(c) == pbx[c] \notin Operation

(* The monitor holds iflock and the lock of a pvt while it waits.           *)
IflockFree == monitor = Idle
PvtFree(c) == monitor # At("detach", c)

(* Using a channel that has been freed may pass unnoticed or end the        *)
(* process.                                                                 *)
Touch(c) == IF chan[c] = "live" THEN crashed' = FALSE ELSE crashed' \in BOOLEAN

Send(type, c) == commands' = Append(commands, [type |-> type, call |-> c])

(* A mutant: the pvt is put in no list.                                     *)
AllocUnlisted(c) == IflockFree /\ pvt' = [pvt EXCEPT ![c] = "unlisted"]

(* ooh323_alloc *)
Alloc(c) == IflockFree /\ pvt' = [pvt EXCEPT ![c] = "live"]

(* ooh323_new: the channel and the pvt know each other.                     *)
Attach(c) ==
  /\ chan' = [chan EXCEPT ![c] = "live"]
  /\ owner' = owner \cup {c} /\ tech_pvt' = tech_pvt \cup {c}

(* find_call, and what follows if there is a pvt with the token.            *)
Find(c, place) ==
  IflockFree /\ stack' = IF pvt[c] = "live" /\ c \in callToken THEN At(place, c) ELSE Idle

-----------------------------------------------------------------------------
(* The thread of a channel; Asterisk locks the channel to call the driver.  *)

(* ooh323_request *)
Request(c) ==
  /\ c \in Outgoing /\ pbx[c] = "none"
  /\ Alloc(c) /\ Attach(c)
  /\ pbx' = [pbx EXCEPT ![c] = "down"]
  /\ UNCHANGED << flags, callToken, busy, up, softhangup, calls, commands, stack, monitor, crashed >>

(* ooh323_call: the token is set before the stack can read the command.     *)
PlaceCall(c) ==
  /\ pbx[c] = "down"
  /\ callToken' = callToken \cup {c}
  /\ Send("MAKECALL", c)
  /\ pbx' = [pbx EXCEPT ![c] = "up"]
  /\ UNCHANGED << pvt, flags, owner, busy, channel, calls, stack, monitor, crashed >>

(* Asterisk locks the channel: to answer an incoming call, to read or write *)
(* media or digits, or to hang up, which is all it does once asked to.      *)
Enter(c, operation) ==
  /\ pbx[c] = "up"
  /\ operation = "answer" => c \notin Outgoing /\ c \notin up
  /\ c \in softhangup => operation = "hangup"
  /\ pbx' = [pbx EXCEPT ![c] = operation]
  /\ UNCHANGED << driver, channel, calls, commands, stack, monitor, crashed >>

(* ooh323_answer; a channel without a pvt would end the process.            *)
Answer(c) ==
  /\ pbx[c] = "answer"
  /\ crashed' = (c \notin tech_pvt)
  /\ up' = up \cup {c}
  /\ IF c \in up THEN UNCHANGED commands ELSE Send("ANSCALL", c)
  /\ pbx' = [pbx EXCEPT ![c] = "up"]
  /\ UNCHANGED << driver, chan, tech_pvt, softhangup, calls, stack, monitor >>

(* ooh323_read, ooh323_write, ooh323_digit_begin, ooh323_digit_end          *)
UseMedia(c) ==
  /\ pbx[c] = "media"
  /\ pbx' = [pbx EXCEPT ![c] = "up"]
  /\ UNCHANGED << driver, channel, calls, commands, stack, monitor, crashed >>

(* ooh323_indicate: busy or congestion; for anything else it does nothing   *)
(* here.  A channel without a pvt ends the process.                         *)
Indicate(c) ==
  /\ c \in MayBeBusy /\ pbx[c] = "media"
  /\ crashed' = (c \notin tech_pvt)
  /\ IF c \in tech_pvt /\ "ALREADYGONE" \notin flags[c]
     THEN /\ Send("HANGCALL", c)
          /\ flags' = [flags EXCEPT ![c] = @ \cup {"ALREADYGONE"}]
          /\ busy' = busy \cup {c}
     ELSE UNCHANGED << commands, flags, busy >>
  /\ pbx' = [pbx EXCEPT ![c] = "up"]
  /\ UNCHANGED << pvt, owner, callToken, channel, calls, stack, monitor >>

(* ooh323_hangup: unless the stack has cleared the call already it is asked *)
(* to; then Asterisk frees the channel.                                     *)
Detach(c) ==
  /\ owner' = owner \ {c} /\ tech_pvt' = tech_pvt \ {c}
  /\ chan' = [chan EXCEPT ![c] = "freed"]
  /\ pbx' = [pbx EXCEPT ![c] = "gone"]

(* A mutant: a call that nobody has cleared is given to the monitor too.    *)
HangUpDestroys(c) ==
  /\ pbx[c] = "hangup"
  /\ IF c \notin tech_pvt THEN UNCHANGED << flags, commands >>
     ELSE flags' = [flags EXCEPT ![c] = Flag] /\ Send("HANGCALL", c)
  /\ Detach(c)
  /\ UNCHANGED << pvt, callToken, busy, up, softhangup, calls, stack, monitor, crashed >>

(* A mutant: a call that the stack has cleared is only taken off the channel.*)
HangUpForgets(c) ==
  /\ pbx[c] = "hangup"
  /\ IF c \notin tech_pvt \/ "ALREADYGONE" \in flags[c] THEN UNCHANGED << flags, commands >>
     ELSE flags' = [flags EXCEPT ![c] = @ \cup {"ALREADYGONE"}] /\ Send("HANGCALL", c)
  /\ Detach(c)
  /\ UNCHANGED << pvt, callToken, busy, up, softhangup, calls, stack, monitor, crashed >>

HangUp(c) ==
  /\ pbx[c] = "hangup"
  /\ CASE c \notin tech_pvt -> UNCHANGED << flags, commands >>
       [] c \in tech_pvt /\ "ALREADYGONE" \in flags[c] ->
            /\ flags' = [flags EXCEPT ![c] = @ \cup {"NEEDDESTROY"}]
            /\ UNCHANGED commands
       [] c \in tech_pvt /\ "ALREADYGONE" \notin flags[c] ->
            /\ flags' = [flags EXCEPT ![c] = @ \cup {"ALREADYGONE"}]
            /\ Send("HANGCALL", c)
  /\ Detach(c)
  /\ UNCHANGED << pvt, callToken, busy, up, softhangup, calls, stack, monitor, crashed >>

-----------------------------------------------------------------------------
(* The stack thread between callbacks: a command, or what the network       *)
(* brings.                                                                  *)

(* ooProcessStackCommand: a call that is over, or not there, is left alone. *)
TakeCommand ==
  /\ stack = Idle /\ commands # << >>
  /\ commands' = Tail(commands)
  /\ LET cmd == Head(commands)
         c   == cmd.call
     IN  CASE cmd.type = "MAKECALL" ->
                Find(c, "onNewCallCreated") /\ UNCHANGED calls
           [] cmd.type = "ANSCALL" ->
                /\ answered' = IF h323[c] \in {"active", "clearing"}
                               THEN answered \cup {c} ELSE answered
                /\ UNCHANGED << h323, due, stack >>
           [] cmd.type = "HANGCALL" ->
                /\ h323' = [h323 EXCEPT ![c] = IF @ = "active" THEN "clearing" ELSE @]
                /\ UNCHANGED << due, answered, stack >>
  /\ UNCHANGED << driver, channel, pbx, monitor, crashed >>

(* ooh323_onReceivedSetup *)
ReceiveSetup(c) ==
  /\ stack = Idle /\ c \notin Outgoing /\ h323[c] = "none"
  /\ h323' = [h323 EXCEPT ![c] = "active"]
  /\ Alloc(c) /\ callToken' = callToken \cup {c}
  /\ UNCHANGED << flags, owner, busy, channel, pbx, due, answered, commands, stack, monitor, crashed >>

(* The peer gives up, or the call fails.                                    *)
PeerReleases(c) ==
  /\ stack = Idle /\ h323[c] = "active"
  /\ h323' = [h323 EXCEPT ![c] = "clearing"]
  /\ UNCHANGED << driver, channel, pbx, due, answered, commands, stack, monitor, crashed >>

(* Alerting is received or sent; Connect is received, or sent after the     *)
(* answer, and the state of the call is not looked at; a digit arrives.     *)
Happens(c, event, place) ==
  /\ stack = Idle /\ event \in due[c]
  /\ h323[c] = "active" \/ (event = "connect" /\ h323[c] = "clearing")
  /\ event = "connect" => c \in answered
  /\ due' = [due EXCEPT ![c] = @ \ {event}]
  /\ Find(c, place)
  /\ UNCHANGED << driver, channel, pbx, h323, answered, commands, monitor, crashed >>

(* A channel to transmit on is answered, by H.245 or by fast start, in any  *)
(* state of the call and any number of times.                               *)
ChannelAnswered(c) ==
  /\ stack = Idle /\ h323[c] \in {"active", "clearing"}
  /\ Find(c, "startTransmit")
  /\ UNCHANGED << driver, channel, pbx, calls, commands, monitor, crashed >>

(* ooCleanCall: the transmit channels that are open are stopped, then the   *)
(* driver learns that the call is over.                                     *)
CleanCall(c) ==
  /\ stack = Idle /\ h323[c] = "clearing"
  /\ h323' = [h323 EXCEPT ![c] = "over"]
  /\ Find(c, "stopTransmit") \/ Find(c, "onCallCleared")
  /\ UNCHANGED << driver, channel, pbx, due, answered, commands, monitor, crashed >>

-----------------------------------------------------------------------------
(* The callbacks, once they have found the pvt.                             *)

In(place, c) == stack = At(place, c)
Leave == stack' = Idle

OnNewCallCreated(c) ==
  /\ In("onNewCallCreated", c) /\ Leave
  /\ h323' = [h323 EXCEPT ![c] = "active"]
  /\ UNCHANGED << driver, channel, pbx, due, answered, commands, monitor, crashed >>

(* An incoming call gets its channel, and the lock of the pvt is given up   *)
(* to allocate it; an outgoing call tells the channel it has.               *)
OnAlerting(c) ==
  /\ In("onAlerting", c)
  /\ stack' = IF c \notin Outgoing THEN At("newChannel", c)
              ELSE IF c \in owner THEN At("lockOwner", c) ELSE Idle
  /\ UNCHANGED << driver, channel, pbx, calls, commands, monitor, crashed >>

(* ooh323_new: the thread of the channel is started, or there is no channel.*)
NewChannel(c) ==
  /\ In("newChannel", c) /\ Leave
  /\ \/ Attach(c) /\ pbx' = [pbx EXCEPT ![c] = "up"]
     \/ UNCHANGED << chan, owner, tech_pvt, pbx >>
  /\ UNCHANGED << pvt, flags, callToken, busy, up, softhangup, calls, commands, monitor, crashed >>

LockOwner(c) ==
  /\ In("lockOwner", c) /\ ChanFree(c)
  /\ Touch(c) /\ stack' = At("queueRinging", c)
  /\ UNCHANGED << driver, channel, pbx, calls, commands, monitor >>

(* ast_queue_control *)
QueueControl(c) ==
  /\ In("queueRinging", c) \/ In("queueAnswer", c)
  /\ Touch(c) /\ Leave
  /\ UNCHANGED << driver, channel, pbx, calls, commands, monitor >>

Established(c) ==
  /\ up' = up \cup {c}
  /\ stack' = IF c \in Outgoing THEN At("queueAnswer", c) ELSE Idle

(* The owner is looked at before the channel is tried the first time ...    *)
OnCallEstablished(c) ==
  /\ In("onCallEstablished", c)
  /\ CASE c \notin owner -> Leave /\ UNCHANGED up
       [] c \in owner /\ ~ChanFree(c) -> stack' = At("retryEstablished", c) /\ UNCHANGED up
       [] c \in owner /\ ChanFree(c) -> Established(c)
  /\ UNCHANGED << driver, chan, tech_pvt, softhangup, pbx, calls, commands, monitor, crashed >>

(* ... and not when it is tried again.                                      *)
RetryEstablished(c) ==
  /\ In("retryEstablished", c)
  /\ \/ c \notin owner /\ crashed' = TRUE /\ UNCHANGED << up, stack >>
     \/ c \in owner /\ ChanFree(c) /\ Established(c) /\ UNCHANGED crashed
  /\ UNCHANGED << driver, chan, tech_pvt, softhangup, pbx, calls, commands, monitor >>

(* ooh323_onReceivedDigit: the owner is read without the lock, twice.       *)
OnReceivedDigit(c) ==
  /\ In("onReceivedDigit", c)
  /\ stack' = IF c \in owner THEN At("queueDigit", c) ELSE Idle
  /\ UNCHANGED << driver, channel, pbx, calls, commands, monitor, crashed >>

QueueDigit(c) ==
  /\ In("queueDigit", c) /\ Leave
  /\ crashed' = (c \notin owner)
  /\ UNCHANGED << driver, channel, pbx, calls, commands, monitor >>

(* setup_rtp_connection: the pvt that was found is used without its lock.   *)
StartTransmit(c) ==
  /\ In("startTransmit", c) /\ Leave
  /\ UNCHANGED << driver, channel, pbx, calls, commands, monitor, crashed >>

(* close_rtp_connection, and on to onCallCleared.                           *)
StopTransmit(c) ==
  /\ In("stopTransmit", c) /\ Find(c, "onCallCleared")
  /\ UNCHANGED << driver, channel, pbx, calls, commands, monitor, crashed >>

(* A channel that still has the call is asked to hang up, and the pvt is    *)
(* left to it; otherwise the pvt can go.  The channel is tried until it is  *)
(* free, or until the pvt has no owner.                                     *)
(* A mutant: the pvt of a channel that has been told is destroyed at once.  *)
OnCallClearedDestroys(c) ==
  /\ In("onCallCleared", c) /\ Leave
  /\ c \in owner => ChanFree(c)
  /\ flags' = [flags EXCEPT ![c] = @ \cup {"NEEDDESTROY"}]
  /\ softhangup' = IF c \in owner THEN softhangup \cup {c} ELSE softhangup
  /\ UNCHANGED << pvt, owner, callToken, busy, chan, tech_pvt, up, pbx, calls, commands, monitor, crashed >>

OnCallCleared(c) ==
  /\ In("onCallCleared", c) /\ Leave
  /\ c \in owner => ChanFree(c)
  /\ IF c \in owner /\ "ALREADYGONE" \notin flags[c]
     THEN /\ flags' = [flags EXCEPT ![c] = @ \cup {"ALREADYGONE"}]
          /\ softhangup' = softhangup \cup {c}
     ELSE /\ flags' = [flags EXCEPT ![c] = @ \cup {"NEEDDESTROY"}]
          /\ UNCHANGED softhangup
  /\ UNCHANGED << pvt, owner, callToken, busy, chan, tech_pvt, up, pbx, calls, commands, monitor, crashed >>

-----------------------------------------------------------------------------
(* do_monitor, ooh323_destroy: a pvt without an owner is freed; one that    *)
(* has an owner is taken out of the list, and has to be detached first.     *)
Destroy(c) ==
  /\ IflockFree /\ pvt[c] = "live" /\ "NEEDDESTROY" \in flags[c]
  /\ IF c \in owner
     THEN monitor' = At("detach", c) /\ UNCHANGED pvt
     ELSE pvt' = [pvt EXCEPT ![c] = "freed"] /\ UNCHANGED monitor
  /\ UNCHANGED << flags, owner, callToken, busy, channel, pbx, calls, commands, stack, crashed >>

(* ooh323_destroy, when it has got the lock of the channel.                 *)
DetachOwner(c) ==
  /\ monitor = At("detach", c) /\ ChanFree(c)
  /\ monitor' = Idle /\ pvt' = [pvt EXCEPT ![c] = "freed"]
  /\ owner' = owner \ {c} /\ tech_pvt' = tech_pvt \ {c}
  /\ UNCHANGED << flags, callToken, busy, chan, up, softhangup, pbx, calls, commands, stack, crashed >>

(* A callback that uses a pvt that has been freed may also end the process. *)
UseFreed(c) ==
  /\ pvt[c] = "freed" /\ \E place \in HoldsPvt : In(place, c)
  /\ crashed' = TRUE
  /\ UNCHANGED << driver, channel, pbx, calls, commands, stack, monitor >>

(* What needs the lock of the pvt waits for a monitor that has it.          *)
Pbx(c) ==
  \/ Request(c) \/ \E operation \in Operation : Enter(c, operation)
  \/ PvtFree(c) /\ (PlaceCall(c) \/ Answer(c) \/ UseMedia(c) \/ Indicate(c) \/ HangUp(c))

Callback(c) ==
  \/ LockOwner(c) \/ QueueControl(c) \/ QueueDigit(c) \/ StartTransmit(c)
  \/ /\ PvtFree(c)
     /\ \/ OnNewCallCreated(c) \/ OnAlerting(c) \/ NewChannel(c) \/ OnCallEstablished(c)
        \/ RetryEstablished(c) \/ OnReceivedDigit(c) \/ StopTransmit(c) \/ OnCallCleared(c)

Network(c) ==
  \/ ReceiveSetup(c) \/ PeerReleases(c) \/ ChannelAnswered(c) \/ CleanCall(c)
  \/ Happens(c, "alerting", "onAlerting")
  \/ Happens(c, "connect", "onCallEstablished")
  \/ Happens(c, "digit", "onReceivedDigit")

Monitor(c) == Destroy(c) \/ DetachOwner(c)

Next ==
  /\ ~crashed
  /\ \/ TakeCommand
     \/ \E c \in Call : Pbx(c) \/ Callback(c) \/ UseFreed(c) \/ Network(c) \/ Monitor(c)

Spec == Init /\ [][Next]_vars
-----------------------------------------------------------------------------
(* Fairness.  The stack thread goes on with what it has begun, takes its    *)
(* commands and cleans its calls, and gets a lock it waits for again and    *)
(* again; an operation of a channel comes to its end, and Asterisk hangs up *)
(* when asked to; the monitor thread keeps looking.                         *)
Fairness ==
  /\ SF_vars(~crashed /\ TakeCommand)
  /\ \A c \in Call :
       /\ SF_vars(~crashed /\ Callback(c))
       /\ SF_vars(~crashed /\ CleanCall(c))
       /\ WF_vars(~crashed /\ PvtFree(c) /\ (Answer(c) \/ UseMedia(c) \/ HangUp(c) \/ PlaceCall(c)))
       /\ WF_vars(~crashed /\ c \in softhangup /\ Enter(c, "hangup"))
       /\ WF_vars(~crashed /\ Monitor(c))

FairSpec == Spec /\ Fairness
-----------------------------------------------------------------------------
(* Properties.                                                              *)

(* Every variable holds what the code's declarations allow.                 *)
TypeOK ==
  /\ pvt \in [Call -> Life] /\ flags \in [Call -> SUBSET Flag]
  /\ owner \subseteq Call /\ callToken \subseteq Call
  /\ chan \in [Call -> Life]
  /\ tech_pvt \subseteq Call /\ up \subseteq Call /\ softhangup \subseteq Call
  /\ pbx \in [Call -> PbxPlace]
  /\ h323 \in [Call -> {"none", "active", "clearing", "over"}]
  /\ due \in [Call -> SUBSET Event] /\ answered \subseteq Call
  /\ busy \subseteq Call
  /\ commands \in Seq(Command) /\ stack \in StackPlace /\ monitor \in MonitorPlace
  /\ crashed \in BOOLEAN

(* A callback finds its pvt under iflock and locks it after iflock has been *)
(* given up, the threads of the channels use what tech_pvt says, and the    *)
(* monitor frees a pvt without asking: still, unless Asterisk has indicated *)
(* busy, no address of a pvt that a thread holds leads to one that has been *)
(* freed, and owner never leads to a channel that has been.                 *)
PointersLive ==
  \A c \in Call \ busy :
    /\ \A place \in HoldsPvt : In(place, c) => pvt[c] = "live"
    /\ c \in tech_pvt => pvt[c] = "live"
    /\ c \in owner => chan[c] = "live"

(* The two sides of a call give it up in any order, each telling the other: *)
(* a pvt is freed only when both have done so.                              *)
DestroyedLast ==
  \A c \in Call \ busy : pvt[c] = "freed" => h323[c] = "over" /\ chan[c] # "live"

(* A channel is locked before its pvt.  The monitor, which has iflock and   *)
(* the pvt, would lock the channel last, and everything would wait if the   *)
(* channel waited for the pvt: it does not come to that on a call that has  *)
(* not been indicated busy.                                                 *)
LocksInOrder == \A c \in Call \ busy : monitor # At("detach", c)

(* When one side has given up a call the other follows, and the pvt is      *)
(* freed: none is left in the list for ever, if no call is indicated busy.  *)
GivenUp(c) == pvt[c] = "live" /\ (pbx[c] = "gone" \/ h323[c] = "over")
NoneIsLeft == \A c \in Call : GivenUp(c) ~> (pvt[c] = "freed" \/ crashed \/ busy # {})

(* chan_ooh323.c:1369-1372 and :1149-1152, "Channel has no owner": what the *)
(* stack reports on a call goes to the owner of its pvt only if it has one. *)
OwnerChecked ==
  \A c \in Call : In("retryEstablished", c) \/ In("queueDigit", c) => c \in owner
=============================================================================
