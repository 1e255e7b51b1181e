-------------------------- MODULE ChanOOH323Proofs --------------------------
(***************************************************************************)
(* Theorems about ChanOOH323, for any calls and any interleaving of the    *)
(* threads: the types, that no thread is left with the address of a freed  *)
(* pvt, and that a pvt is freed after both sides have given up the call.   *)
(*                                                                         *)
(* Nothing but the two flags says who still has the pvt, so the invariant  *)
(* says what each of them stands for: ALREADYGONE on a channel that is     *)
(* still there means that the stack is through with the call, NEEDDESTROY  *)
(* that the channel is gone too.                                           *)
(***************************************************************************)
EXTENDS ChanOOH323, TLAPS

(* The stack is through with the call, and in no callback for it.           *)
Over(c) == h323[c] = "over" /\ \A place \in HoldsPvt : ~In(place, c)

(* The command to place the call is in the pipe.                            *)
MakeCallOf(c) == [type |-> "MAKECALL", call |-> c]
Placing(c) == \E i \in DOMAIN commands : commands[i] = MakeCallOf(c)
Once(c) == \A i, j \in DOMAIN commands :
             commands[i] = MakeCallOf(c) /\ commands[j] = MakeCallOf(c) => i = j

(* The pvt and the channel know each other as long as there is a channel.   *)
Attached(c) ==
  /\ c \in owner <=> chan[c] = "live"
  /\ c \in tech_pvt <=> chan[c] = "live"
  /\ chan[c] = "live" <=> pbx[c] \notin {"none", "gone"}
  /\ chan[c] = "live" => pvt[c] = "live"

(* What the flags stand for.                                                *)
FlagsMean(c) ==
  /\ "ALREADYGONE" \in flags[c] /\ chan[c] = "live" => Over(c)
  /\ "NEEDDESTROY" \in flags[c] => Over(c) /\ chan[c] # "live"
  /\ pvt[c] = "freed" => "NEEDDESTROY" \in flags[c]
  /\ pbx[c] = "none" => flags[c] = {} \/ Over(c)

(* What the stack thread relies on inside a callback.                       *)
Inside(c) ==
  /\ \A place \in HoldsPvt : In(place, c) => pvt[c] = "live"
  /\ In("onNewCallCreated", c) => h323[c] = "none" /\ ~Placing(c)
  /\ In("onAlerting", c) => h323[c] = "active"
  /\ In("newChannel", c) => h323[c] = "active" /\ c \notin Outgoing
  /\ \A place \in {"onCallEstablished", "retryEstablished", "onReceivedDigit", "queueDigit",
                   "startTransmit"} :
       In(place, c) => h323[c] \in {"active", "clearing"}
  /\ In("stopTransmit", c) \/ In("onCallCleared", c) => h323[c] = "over"

(* An incoming call gets its channel once, when alerting is sent.           *)
NoChannelYet(c) ==
  /\ In("onAlerting", c) \/ In("newChannel", c) => "alerting" \notin due[c]
  /\ c \notin Outgoing /\ ("alerting" \in due[c] \/ In("onAlerting", c) \/ In("newChannel", c))
       => pbx[c] = "none"

(* An outgoing call is placed once, and nothing happens on it before.       *)
PlacedOnce(c) ==
  /\ pbx[c] = "down" => c \in Outgoing
  /\ c \in Outgoing /\ pbx[c] \in {"none", "down"} =>
       h323[c] = "none" /\ ~Placing(c) /\ \A place \in HoldsPvt : ~In(place, c)
  /\ Placing(c) => h323[c] = "none" /\ c \in Outgoing
  /\ Once(c)

Good(c) ==
  Attached(c) /\ FlagsMean(c) /\ Inside(c) /\ NoChannelYet(c) /\ PlacedOnce(c)

(* A call that has been indicated busy has a channel, or has had one; of    *)
(* the others the monitor detaches none.                                    *)
Busy ==
  /\ \A c \in busy : pbx[c] \notin {"none", "down"}
  /\ \A c \in Call \ busy : PvtFree(c)

IInv == TypeOK /\ Busy /\ \A c \in Call \ busy : Good(c)
-----------------------------------------------------------------------------
(* The places of the stack thread, and the pipe.                            *)

LEMMA PlacesTyped ==
  /\ Idle \in StackPlace
  /\ \A place \in HoldsPvt \cup HoldsChan, c \in Call : At(place, c) \in StackPlace
  /\ Idle \in MonitorPlace
  /\ \A c \in Call : At("detach", c) \in MonitorPlace
  BY DEF StackPlace, MonitorPlace

LEMMA PlacesApart ==
  ASSUME NEW p, NEW q, NEW c, NEW d
  PROVE  /\ At(p, c) = At(q, d) <=> p = q /\ c = d
         /\ At(p, c) # Idle
  BY DEF At, Idle

LEMMA SameCommands ==
  ASSUME UNCHANGED commands, NEW d
  PROVE  (Placing(d)' <=> Placing(d)) /\ (Once(d)' <=> Once(d))
  BY DEF Placing, Once, MakeCallOf

LEMMA OtherCommand ==
  ASSUME commands \in Seq(Command), NEW c \in Call, NEW type \in {"ANSCALL", "HANGCALL"},
         Send(type, c), NEW d \in Call
  PROVE  /\ commands' \in Seq(Command)
         /\ Placing(d)' <=> Placing(d)
         /\ Once(d) => Once(d)'
  BY DEF Placing, Once, MakeCallOf, Send, Command

LEMMA MakeCallCommand ==
  ASSUME commands \in Seq(Command), NEW c \in Call, ~Placing(c), Send("MAKECALL", c), NEW d \in Call
  PROVE  /\ commands' \in Seq(Command)
         /\ Placing(d)' <=> Placing(d) \/ d = c
         /\ Once(d) => Once(d)'
  BY DEF Placing, Once, MakeCallOf, Send, Command

LEMMA CommandTaken ==
  ASSUME commands \in Seq(Command), commands # << >>, commands' = Tail(commands), NEW d \in Call
  PROVE  /\ commands' \in Seq(Command)
         /\ Head(commands).call \in Call
         /\ Head(commands).type \in {"MAKECALL", "ANSCALL", "HANGCALL"}
         /\ Placing(d)' => Placing(d)
         /\ Head(commands) = MakeCallOf(d) => Placing(d)
         /\ Head(commands) = MakeCallOf(d) /\ Once(d) => ~Placing(d)'
         /\ Once(d) => Once(d)'
<1>1. /\ commands' \in Seq(Command) /\ Head(commands) \in Command
      /\ Head(commands) = commands[1] /\ 1 \in DOMAIN commands
      /\ \A i \in DOMAIN commands' : i + 1 \in DOMAIN commands /\ commands'[i] = commands[i + 1]
  OBVIOUS
<1>2. \A i \in DOMAIN commands' : i \in Nat /\ i + 1 # 1
  OBVIOUS
<1>3. Placing(d)' => Placing(d)
  BY <1>1 DEF Placing, MakeCallOf
<1>4. Head(commands) = MakeCallOf(d) => Placing(d)
  BY <1>1 DEF Placing
<1>5. Head(commands) = MakeCallOf(d) /\ Once(d) => ~Placing(d)'
  BY <1>1, <1>2 DEF Placing, Once, MakeCallOf
<1>6. Once(d) => Once(d)'
  BY <1>1, <1>2 DEF Once, MakeCallOf
<1>. QED BY <1>1, <1>3, <1>4, <1>5, <1>6 DEF Command

LEMMA RequestKeeps ==
  ASSUME IInv, NEW c \in Call, Request(c)
  PROVE  IInv'
<1>1. TypeOK'
  BY PlacesTyped DEF Request, Alloc, Attach, IInv, TypeOK, vars, driver, channel,
     calls, Flag, Life, PbxPlace, Operation, HoldsPvt, HoldsChan, In
<1>2. ASSUME NEW d \in Call \ busy PROVE Good(d)'
  <2>1. UNCHANGED commands
    BY DEF Request, Alloc, Attach, vars, driver, channel, calls
  <2>2. /\ Placing(d)' <=> Placing(d)
        /\ Once(d)' <=> Once(d)
    BY <2>1, SameCommands
  <2>. QED
    BY <2>2, PlacesApart DEF Request, Alloc, Attach, IInv, TypeOK, Good, Attached,
       FlagsMean, Inside, NoChannelYet, PlacedOnce, Over, driver, channel, calls, In,
       HoldsPvt, HoldsChan, Life, Operation, Flag
<1>3. UNCHANGED busy /\ Busy'
  BY DEF Request, Alloc, Attach, IInv, Busy, PvtFree, driver, Operation
<1>. QED BY <1>1, <1>2, <1>3 DEF IInv

LEMMA UseMediaKeeps ==
  ASSUME IInv, NEW c \in Call, UseMedia(c)
  PROVE  IInv'
<1>1. TypeOK'
  BY PlacesTyped DEF UseMedia, Operation, IInv, TypeOK, vars, driver, channel, calls,
     Flag, Life, PbxPlace, Operation, HoldsPvt, HoldsChan, In
<1>2. ASSUME NEW d \in Call \ busy PROVE Good(d)'
  <2>1. UNCHANGED commands
    BY DEF UseMedia, Operation, vars, driver, channel, calls
  <2>2. /\ Placing(d)' <=> Placing(d)
        /\ Once(d)' <=> Once(d)
    BY <2>1, SameCommands
  <2>. QED
    BY <2>2, PlacesApart DEF UseMedia, Operation, IInv, TypeOK, Good, Attached,
       FlagsMean, Inside, NoChannelYet, PlacedOnce, Over, driver, channel, calls, In,
       HoldsPvt, HoldsChan, Life, Operation, Flag
<1>3. UNCHANGED busy /\ Busy'
  BY DEF UseMedia, IInv, Busy, PvtFree, driver, Operation
<1>. QED BY <1>1, <1>2, <1>3 DEF IInv

LEMMA ReceiveSetupKeeps ==
  ASSUME IInv, NEW c \in Call, ReceiveSetup(c)
  PROVE  IInv'
<1>1. TypeOK'
  BY PlacesTyped DEF ReceiveSetup, Alloc, IInv, TypeOK, vars, driver, channel, calls,
     Flag, Life, PbxPlace, Operation, HoldsPvt, HoldsChan, In
<1>2. ASSUME NEW d \in Call \ busy PROVE Good(d)'
  <2>1. UNCHANGED commands
    BY DEF ReceiveSetup, Alloc, vars, driver, channel, calls
  <2>2. /\ Placing(d)' <=> Placing(d)
        /\ Once(d)' <=> Once(d)
    BY <2>1, SameCommands
  <2>. QED
    BY <2>2, PlacesApart DEF ReceiveSetup, Alloc, IInv, TypeOK, Good, Attached,
       FlagsMean, Inside, NoChannelYet, PlacedOnce, Over, driver, channel, calls, In,
       HoldsPvt, HoldsChan, Life, Operation, Flag
<1>3. UNCHANGED busy /\ Busy'
  BY DEF ReceiveSetup, Alloc, IInv, Busy, PvtFree, driver, Operation
<1>. QED BY <1>1, <1>2, <1>3 DEF IInv

LEMMA PeerReleasesKeeps ==
  ASSUME IInv, NEW c \in Call, PeerReleases(c)
  PROVE  IInv'
<1>1. TypeOK'
  BY PlacesTyped DEF PeerReleases, IInv, TypeOK, vars, driver, channel, calls, Flag,
     Life, PbxPlace, Operation, HoldsPvt, HoldsChan, In
<1>2. ASSUME NEW d \in Call \ busy PROVE Good(d)'
  <2>1. UNCHANGED commands
    BY DEF PeerReleases, vars, driver, channel, calls
  <2>2. /\ Placing(d)' <=> Placing(d)
        /\ Once(d)' <=> Once(d)
    BY <2>1, SameCommands
  <2>. QED
    BY <2>2, PlacesApart DEF PeerReleases, IInv, TypeOK, Good, Attached, FlagsMean,
       Inside, NoChannelYet, PlacedOnce, Over, driver, channel, calls, In, HoldsPvt,
       HoldsChan, Life, Operation, Flag
<1>3. UNCHANGED busy /\ Busy'
  BY DEF PeerReleases, IInv, Busy, PvtFree, driver, Operation
<1>. QED BY <1>1, <1>2, <1>3 DEF IInv

LEMMA ChannelAnsweredKeeps ==
  ASSUME IInv, NEW c \in Call, ChannelAnswered(c)
  PROVE  IInv'
<1>1. TypeOK'
  BY PlacesTyped DEF ChannelAnswered, Find, IInv, TypeOK, vars, driver, channel, calls,
     Flag, Life, PbxPlace, Operation, HoldsPvt, HoldsChan, In
<1>2. ASSUME NEW d \in Call \ busy PROVE Good(d)'
  <2>1. UNCHANGED commands
    BY DEF ChannelAnswered, Find, vars, driver, channel, calls
  <2>2. /\ Placing(d)' <=> Placing(d)
        /\ Once(d)' <=> Once(d)
    BY <2>1, SameCommands
  <2>. QED
    BY <2>2, PlacesApart DEF ChannelAnswered, Find, IInv, TypeOK, Good, Attached,
       FlagsMean, Inside, NoChannelYet, PlacedOnce, Over, driver, channel, calls, In,
       HoldsPvt, HoldsChan, Life, Operation, Flag
<1>3. UNCHANGED busy /\ Busy'
  BY DEF ChannelAnswered, Find, IInv, Busy, PvtFree, driver, Operation
<1>. QED BY <1>1, <1>2, <1>3 DEF IInv

LEMMA CleanCallKeeps ==
  ASSUME IInv, NEW c \in Call, CleanCall(c)
  PROVE  IInv'
<1>1. TypeOK'
  BY PlacesTyped DEF CleanCall, Find, IInv, TypeOK, vars, driver, channel, calls,
     Flag, Life, PbxPlace, Operation, HoldsPvt, HoldsChan, In
<1>2. ASSUME NEW d \in Call \ busy PROVE Good(d)'
  <2>1. UNCHANGED commands
    BY DEF CleanCall, Find, vars, driver, channel, calls
  <2>2. /\ Placing(d)' <=> Placing(d)
        /\ Once(d)' <=> Once(d)
    BY <2>1, SameCommands
  <2>. QED
    BY <2>2, PlacesApart DEF CleanCall, Find, IInv, TypeOK, Good, Attached,
       FlagsMean, Inside, NoChannelYet, PlacedOnce, Over, driver, channel, calls, In,
       HoldsPvt, HoldsChan, Life, Operation, Flag
<1>3. UNCHANGED busy /\ Busy'
  BY DEF CleanCall, Find, IInv, Busy, PvtFree, driver, Operation
<1>. QED BY <1>1, <1>2, <1>3 DEF IInv

LEMMA OnNewCallCreatedKeeps ==
  ASSUME IInv, NEW c \in Call, OnNewCallCreated(c)
  PROVE  IInv'
<1>1. TypeOK'
  BY PlacesTyped DEF OnNewCallCreated, Leave, IInv, TypeOK, vars, driver, channel,
     calls, Flag, Life, PbxPlace, Operation, HoldsPvt, HoldsChan, In
<1>2. ASSUME NEW d \in Call \ busy PROVE Good(d)'
  <2>1. UNCHANGED commands
    BY DEF OnNewCallCreated, Leave, vars, driver, channel, calls
  <2>2. /\ Placing(d)' <=> Placing(d)
        /\ Once(d)' <=> Once(d)
    BY <2>1, SameCommands
  <2>. QED
    BY <2>2, PlacesApart DEF OnNewCallCreated, Leave, IInv, TypeOK, Good, Attached,
       FlagsMean, Inside, NoChannelYet, PlacedOnce, Over, driver, channel, calls, In,
       HoldsPvt, HoldsChan, Life, Operation, Flag
<1>3. UNCHANGED busy /\ Busy'
  BY DEF OnNewCallCreated, IInv, Busy, PvtFree, driver, Operation
<1>. QED BY <1>1, <1>2, <1>3 DEF IInv

LEMMA OnAlertingKeeps ==
  ASSUME IInv, NEW c \in Call, OnAlerting(c)
  PROVE  IInv'
<1>1. TypeOK'
  <2>1. stack' \in StackPlace
    BY PlacesTyped DEF OnAlerting, IInv, TypeOK, HoldsPvt, HoldsChan, In
  <2>2. crashed' \in BOOLEAN
    BY DEF OnAlerting, IInv, TypeOK
  <2>. QED
    BY <2>1, <2>2 DEF OnAlerting, IInv, TypeOK, driver, channel, calls
<1>2. ASSUME NEW d \in Call \ busy PROVE Good(d)'
  <2>1. UNCHANGED commands
    BY DEF OnAlerting, vars, driver, channel, calls
  <2>2. /\ Placing(d)' <=> Placing(d)
        /\ Once(d)' <=> Once(d)
    BY <2>1, SameCommands
  <2>. QED
    BY <2>2, PlacesApart DEF OnAlerting, IInv, TypeOK, Good, Attached, FlagsMean,
       Inside, NoChannelYet, PlacedOnce, Over, driver, channel, calls, In, HoldsPvt,
       HoldsChan, Life, Operation, Flag
<1>3. UNCHANGED busy /\ Busy'
  BY DEF OnAlerting, IInv, Busy, PvtFree, driver, Operation
<1>. QED BY <1>1, <1>2, <1>3 DEF IInv

LEMMA NewChannelKeeps ==
  ASSUME IInv, NEW c \in Call, NewChannel(c)
  PROVE  IInv'
<1>1. TypeOK'
  BY PlacesTyped DEF NewChannel, Leave, Attach, IInv, TypeOK, vars, driver, channel,
     calls, Flag, Life, PbxPlace, Operation, HoldsPvt, HoldsChan, In
<1>2. ASSUME NEW d \in Call \ busy PROVE Good(d)'
  <2>1. UNCHANGED commands
    BY DEF NewChannel, Leave, Attach, vars, driver, channel, calls
  <2>2. /\ Placing(d)' <=> Placing(d)
        /\ Once(d)' <=> Once(d)
    BY <2>1, SameCommands
  <2>. QED
    BY <2>2, PlacesApart DEF NewChannel, Leave, Attach, IInv, TypeOK, Good, Attached,
       FlagsMean, Inside, NoChannelYet, PlacedOnce, Over, driver, channel, calls, In,
       HoldsPvt, HoldsChan, Life, Operation, Flag
<1>3. UNCHANGED busy /\ Busy'
  BY DEF NewChannel, Attach, IInv, TypeOK, Busy, PvtFree, driver, Operation
<1>. QED BY <1>1, <1>2, <1>3 DEF IInv

LEMMA LockOwnerKeeps ==
  ASSUME IInv, NEW c \in Call, LockOwner(c)
  PROVE  IInv'
<1>1. TypeOK'
  <2>1. stack' \in StackPlace
    BY PlacesTyped DEF LockOwner, IInv, TypeOK, HoldsPvt, HoldsChan, In
  <2>2. crashed' \in BOOLEAN
    BY DEF LockOwner, Touch, IInv, TypeOK
  <2>. QED
    BY <2>1, <2>2 DEF LockOwner, IInv, TypeOK, driver, channel, calls
<1>2. ASSUME NEW d \in Call \ busy PROVE Good(d)'
  <2>1. UNCHANGED commands
    BY DEF LockOwner, Touch, vars, driver, channel, calls
  <2>2. /\ Placing(d)' <=> Placing(d)
        /\ Once(d)' <=> Once(d)
    BY <2>1, SameCommands
  <2>. QED
    BY <2>2, PlacesApart DEF LockOwner, Touch, IInv, TypeOK, Good, Attached,
       FlagsMean, Inside, NoChannelYet, PlacedOnce, Over, driver, channel, calls, In,
       HoldsPvt, HoldsChan, Life, Operation, Flag
<1>3. UNCHANGED busy /\ Busy'
  BY DEF LockOwner, IInv, Busy, PvtFree, driver, Operation
<1>. QED BY <1>1, <1>2, <1>3 DEF IInv

LEMMA QueueControlKeeps ==
  ASSUME IInv, NEW c \in Call, QueueControl(c)
  PROVE  IInv'
<1>1. TypeOK'
  <2>1. stack' \in StackPlace
    BY PlacesTyped DEF QueueControl, Leave, IInv, TypeOK, HoldsPvt, HoldsChan, In
  <2>2. crashed' \in BOOLEAN
    BY DEF QueueControl, Touch, Leave, IInv, TypeOK
  <2>. QED
    BY <2>1, <2>2 DEF QueueControl, Leave, IInv, TypeOK, driver, channel, calls
<1>2. ASSUME NEW d \in Call \ busy PROVE Good(d)'
  <2>1. UNCHANGED commands
    BY DEF QueueControl, Touch, Leave, vars, driver, channel, calls
  <2>2. /\ Placing(d)' <=> Placing(d)
        /\ Once(d)' <=> Once(d)
    BY <2>1, SameCommands
  <2>. QED
    BY <2>2, PlacesApart DEF QueueControl, Touch, Leave, IInv, TypeOK, Good,
       Attached, FlagsMean, Inside, NoChannelYet, PlacedOnce, Over, driver, channel,
       calls, In, HoldsPvt, HoldsChan, Life, Operation, Flag
<1>3. UNCHANGED busy /\ Busy'
  BY DEF QueueControl, IInv, Busy, PvtFree, driver, Operation
<1>. QED BY <1>1, <1>2, <1>3 DEF IInv

LEMMA OnCallEstablishedKeeps ==
  ASSUME IInv, NEW c \in Call, OnCallEstablished(c)
  PROVE  IInv'
<1>1. TypeOK'
  <2>1. stack' \in StackPlace
    BY PlacesTyped DEF OnCallEstablished, Leave, Established, IInv, TypeOK, HoldsPvt,
       HoldsChan, In
  <2>2. crashed' \in BOOLEAN
    BY DEF OnCallEstablished, Leave, Established, IInv, TypeOK
  <2>. QED
    BY <2>1, <2>2 DEF OnCallEstablished, Leave, Established, IInv, TypeOK, driver,
       channel, calls
<1>2. ASSUME NEW d \in Call \ busy PROVE Good(d)'
  <2>1. UNCHANGED commands
    BY DEF OnCallEstablished, Leave, Established, vars, driver, channel, calls
  <2>2. /\ Placing(d)' <=> Placing(d)
        /\ Once(d)' <=> Once(d)
    BY <2>1, SameCommands
  <2>3. CASE ~(c \in owner /\ ChanFree(c))
    <3>1. stack' \in {Idle, At("retryEstablished", c)}
      BY <2>3 DEF OnCallEstablished, Leave
    <3>2. In("onCallEstablished", c) /\ UNCHANGED << driver, chan, tech_pvt, pbx, calls >>
      BY DEF OnCallEstablished
    <3>. QED
      BY <2>2, <3>1, <3>2, PlacesApart DEF IInv, TypeOK, Good, Attached, FlagsMean,
         Inside, NoChannelYet, PlacedOnce, Over, calls, driver, In, HoldsPvt, Life
  <2>4. CASE c \in owner /\ ChanFree(c)
    BY <2>2, <2>4, PlacesApart DEF OnCallEstablished, Leave, Established, IInv,
       TypeOK, Good, Attached, FlagsMean, Inside, NoChannelYet, PlacedOnce, Over,
       calls, driver, In, HoldsPvt, HoldsChan, Life
  <2>. QED
    BY <2>3, <2>4
<1>3. UNCHANGED busy /\ Busy'
  BY DEF OnCallEstablished, Established, IInv, Busy, PvtFree, driver, Operation
<1>. QED BY <1>1, <1>2, <1>3 DEF IInv

LEMMA RetryEstablishedKeeps ==
  ASSUME IInv, NEW c \in Call, RetryEstablished(c)
  PROVE  IInv'
<1>1. TypeOK'
  <2>1. stack' \in StackPlace
    BY PlacesTyped DEF RetryEstablished, Established, IInv, TypeOK, HoldsPvt,
       HoldsChan, In
  <2>2. crashed' \in BOOLEAN
    BY DEF RetryEstablished, Established, IInv, TypeOK
  <2>. QED
    BY <2>1, <2>2 DEF RetryEstablished, Established, IInv, TypeOK, driver, channel,
       calls
<1>2. ASSUME NEW d \in Call \ busy PROVE Good(d)'
  <2>1. UNCHANGED commands
    BY DEF RetryEstablished, Established, vars, driver, channel, calls
  <2>2. /\ Placing(d)' <=> Placing(d)
        /\ Once(d)' <=> Once(d)
    BY <2>1, SameCommands
  <2>. QED
    BY <2>2, PlacesApart DEF RetryEstablished, Established, IInv, TypeOK, Good,
       Attached, FlagsMean, Inside, NoChannelYet, PlacedOnce, Over, driver, channel,
       calls, In, HoldsPvt, HoldsChan, Life, Operation, Flag
<1>3. UNCHANGED busy /\ Busy'
  BY DEF RetryEstablished, Established, IInv, Busy, PvtFree, driver, Operation
<1>. QED BY <1>1, <1>2, <1>3 DEF IInv

LEMMA OnReceivedDigitKeeps ==
  ASSUME IInv, NEW c \in Call, OnReceivedDigit(c)
  PROVE  IInv'
<1>1. TypeOK'
  BY PlacesTyped DEF OnReceivedDigit, IInv, TypeOK, vars, driver, channel, calls,
     Flag, Life, PbxPlace, Operation, HoldsPvt, HoldsChan, In
<1>2. ASSUME NEW d \in Call \ busy PROVE Good(d)'
  <2>1. UNCHANGED commands
    BY DEF OnReceivedDigit, vars, driver, channel, calls
  <2>2. /\ Placing(d)' <=> Placing(d)
        /\ Once(d)' <=> Once(d)
    BY <2>1, SameCommands
  <2>. QED
    BY <2>2, PlacesApart DEF OnReceivedDigit, IInv, TypeOK, Good, Attached,
       FlagsMean, Inside, NoChannelYet, PlacedOnce, Over, driver, channel, calls, In,
       HoldsPvt, HoldsChan, Life, Operation, Flag
<1>3. UNCHANGED busy /\ Busy'
  BY DEF OnReceivedDigit, IInv, Busy, PvtFree, driver, Operation
<1>. QED BY <1>1, <1>2, <1>3 DEF IInv

LEMMA QueueDigitKeeps ==
  ASSUME IInv, NEW c \in Call, QueueDigit(c)
  PROVE  IInv'
<1>1. TypeOK'
  BY PlacesTyped DEF QueueDigit, Leave, IInv, TypeOK, vars, driver, channel, calls,
     Flag, Life, PbxPlace, Operation, HoldsPvt, HoldsChan, In
<1>2. ASSUME NEW d \in Call \ busy PROVE Good(d)'
  <2>1. UNCHANGED commands
    BY DEF QueueDigit, Leave, vars, driver, channel, calls
  <2>2. /\ Placing(d)' <=> Placing(d)
        /\ Once(d)' <=> Once(d)
    BY <2>1, SameCommands
  <2>. QED
    BY <2>2, PlacesApart DEF QueueDigit, Leave, IInv, TypeOK, Good, Attached,
       FlagsMean, Inside, NoChannelYet, PlacedOnce, Over, driver, channel, calls, In,
       HoldsPvt, HoldsChan, Life, Operation, Flag
<1>3. UNCHANGED busy /\ Busy'
  BY DEF QueueDigit, IInv, Busy, PvtFree, driver, Operation
<1>. QED BY <1>1, <1>2, <1>3 DEF IInv

LEMMA StartTransmitKeeps ==
  ASSUME IInv, NEW c \in Call, StartTransmit(c)
  PROVE  IInv'
<1>1. TypeOK'
  BY PlacesTyped DEF StartTransmit, Leave, IInv, TypeOK, vars, driver, channel,
     calls, Flag, Life, PbxPlace, Operation, HoldsPvt, HoldsChan, In
<1>2. ASSUME NEW d \in Call \ busy PROVE Good(d)'
  <2>1. UNCHANGED commands
    BY DEF StartTransmit, Leave, vars, driver, channel, calls
  <2>2. /\ Placing(d)' <=> Placing(d)
        /\ Once(d)' <=> Once(d)
    BY <2>1, SameCommands
  <2>. QED
    BY <2>2, PlacesApart DEF StartTransmit, Leave, IInv, TypeOK, Good, Attached,
       FlagsMean, Inside, NoChannelYet, PlacedOnce, Over, driver, channel, calls, In,
       HoldsPvt, HoldsChan, Life, Operation, Flag
<1>3. UNCHANGED busy /\ Busy'
  BY DEF StartTransmit, IInv, Busy, PvtFree, driver, Operation
<1>. QED BY <1>1, <1>2, <1>3 DEF IInv

LEMMA StopTransmitKeeps ==
  ASSUME IInv, NEW c \in Call, StopTransmit(c)
  PROVE  IInv'
<1>1. TypeOK'
  BY PlacesTyped DEF StopTransmit, Find, IInv, TypeOK, vars, driver, channel, calls,
     Flag, Life, PbxPlace, Operation, HoldsPvt, HoldsChan, In
<1>2. ASSUME NEW d \in Call \ busy PROVE Good(d)'
  <2>1. UNCHANGED commands
    BY DEF StopTransmit, Find, vars, driver, channel, calls
  <2>2. /\ Placing(d)' <=> Placing(d)
        /\ Once(d)' <=> Once(d)
    BY <2>1, SameCommands
  <2>. QED
    BY <2>2, PlacesApart DEF StopTransmit, Find, IInv, TypeOK, Good, Attached,
       FlagsMean, Inside, NoChannelYet, PlacedOnce, Over, driver, channel, calls, In,
       HoldsPvt, HoldsChan, Life, Operation, Flag
<1>3. UNCHANGED busy /\ Busy'
  BY DEF StopTransmit, Find, IInv, Busy, PvtFree, driver, Operation
<1>. QED BY <1>1, <1>2, <1>3 DEF IInv

LEMMA OnCallClearedKeeps ==
  ASSUME IInv, NEW c \in Call, OnCallCleared(c)
  PROVE  IInv'
<1>1. TypeOK'
  BY PlacesTyped DEF OnCallCleared, Leave, IInv, TypeOK, vars, driver, channel,
     calls, Flag, Life, PbxPlace, Operation, HoldsPvt, HoldsChan, In
<1>2. ASSUME NEW d \in Call \ busy PROVE Good(d)'
  <2>1. UNCHANGED commands
    BY DEF OnCallCleared, Leave, vars, driver, channel, calls
  <2>2. /\ Placing(d)' <=> Placing(d)
        /\ Once(d)' <=> Once(d)
    BY <2>1, SameCommands
  <2>. QED
    BY <2>2, PlacesApart DEF OnCallCleared, Leave, IInv, TypeOK, Good, Attached,
       FlagsMean, Inside, NoChannelYet, PlacedOnce, Over, driver, channel, calls, In,
       HoldsPvt, HoldsChan, Life, Operation, Flag
<1>3. UNCHANGED busy /\ Busy'
  BY DEF OnCallCleared, IInv, Busy, PvtFree, driver, Operation
<1>. QED BY <1>1, <1>2, <1>3 DEF IInv

LEMMA DestroyKeeps ==
  ASSUME IInv, NEW c \in Call, Destroy(c)
  PROVE  IInv'
<1>1. TypeOK'
  BY PlacesTyped DEF Destroy, IInv, TypeOK, driver, channel, calls, Flag, Life
<1>2. ASSUME NEW d \in Call \ busy PROVE Good(d)'
  <2>1. UNCHANGED commands
    BY DEF Destroy
  <2>2. /\ Placing(d)' <=> Placing(d)
        /\ Once(d)' <=> Once(d)
    BY <2>1, SameCommands
  <2>. QED
    BY <2>2, PlacesApart DEF Destroy, IInv, TypeOK, Busy, PvtFree, Good, Attached, FlagsMean,
       Inside, NoChannelYet, PlacedOnce, Over, driver, channel, calls, In, HoldsPvt, Life
<1>3. UNCHANGED busy /\ Busy'
  BY PlacesApart DEF Destroy, IInv, Busy, Good, Attached, FlagsMean, PvtFree, driver
<1>. QED BY <1>1, <1>2, <1>3 DEF IInv

LEMMA DetachOwnerKeeps ==
  ASSUME IInv, NEW c \in Call, DetachOwner(c)
  PROVE  IInv'
<1>1. TypeOK'
  BY PlacesTyped DEF DetachOwner, IInv, TypeOK, driver, channel, calls, Flag, Life
<1>2. ASSUME NEW d \in Call \ busy PROVE Good(d)'
  <2>1. UNCHANGED commands
    BY DEF DetachOwner
  <2>2. /\ Placing(d)' <=> Placing(d)
        /\ Once(d)' <=> Once(d)
    BY <2>1, SameCommands
  <2>. QED
    BY <2>2, PlacesApart DEF DetachOwner, IInv, TypeOK, Busy, PvtFree, Good, Attached, FlagsMean,
       Inside, NoChannelYet, PlacedOnce, Over, driver, channel, calls, In, HoldsPvt, Life
<1>3. UNCHANGED busy /\ Busy'
  BY PlacesApart DEF DetachOwner, IInv, Busy, Good, Attached, FlagsMean, PvtFree, driver
<1>. QED BY <1>1, <1>2, <1>3 DEF IInv

LEMMA UseFreedKeeps ==
  ASSUME IInv, NEW c \in Call, UseFreed(c)
  PROVE  IInv'
<1>1. TypeOK'
  BY PlacesTyped DEF UseFreed, IInv, TypeOK, driver, channel, calls, Flag, Life
<1>2. ASSUME NEW d \in Call \ busy PROVE Good(d)'
  <2>1. UNCHANGED commands
    BY DEF UseFreed
  <2>2. /\ Placing(d)' <=> Placing(d)
        /\ Once(d)' <=> Once(d)
    BY <2>1, SameCommands
  <2>. QED
    BY <2>2, PlacesApart DEF UseFreed, IInv, TypeOK, Busy, PvtFree, Good, Attached, FlagsMean,
       Inside, NoChannelYet, PlacedOnce, Over, driver, channel, calls, In, HoldsPvt, Life
<1>3. UNCHANGED busy /\ Busy'
  BY PlacesApart DEF UseFreed, IInv, Busy, Good, Attached, FlagsMean, PvtFree, driver
<1>. QED BY <1>1, <1>2, <1>3 DEF IInv

LEMMA IndicateKeeps ==
  ASSUME IInv, NEW c \in Call, Indicate(c)
  PROVE  IInv'
<1>1. commands' \in Seq(Command) /\ \A d \in Call : (Placing(d)' <=> Placing(d)) /\ (Once(d) => Once(d)')
  <2>1. commands \in Seq(Command)
    BY DEF IInv, TypeOK
  <2>2. CASE UNCHANGED commands
    BY <2>1, <2>2, SameCommands
  <2>3. CASE Send("HANGCALL", c)
    BY <2>1, <2>3, OtherCommand
  <2>. QED BY <2>2, <2>3 DEF Indicate
<1>2. \/ c \in busy' /\ busy' = busy \cup {c} /\ flags' = [flags EXCEPT ![c] = @ \cup {"ALREADYGONE"}]
      \/ UNCHANGED << busy, flags >>
  BY DEF Indicate
<1>3. TypeOK'
  <2>1. flags' \in [Call -> SUBSET Flag] /\ busy' \subseteq Call
    BY <1>2 DEF IInv, TypeOK, Flag
  <2>2. pbx' \in [Call -> PbxPlace] /\ crashed' \in BOOLEAN
    BY DEF Indicate, IInv, TypeOK, PbxPlace
  <2>. QED
    BY <1>1, <2>1, <2>2 DEF Indicate, IInv, TypeOK, channel, calls
<1>4. ASSUME NEW d \in Call \ busy' PROVE Good(d)'
  BY <1>1, <1>2, PlacesApart DEF Indicate, IInv, TypeOK, Good, Attached, FlagsMean, Inside,
     NoChannelYet, PlacedOnce, Over, channel, calls, In, HoldsPvt, Life, Operation
<1>5. Busy'
  BY <1>2 DEF Indicate, IInv, TypeOK, Busy, PvtFree
<1>. QED BY <1>3, <1>4, <1>5 DEF IInv

LEMMA PlaceCallKeeps ==
  ASSUME IInv, NEW c \in Call, PlaceCall(c)
  PROVE  IInv'
<1>1. ~Placing(c) /\ Send("MAKECALL", c) /\ commands \in Seq(Command)
  BY DEF PlaceCall, IInv, TypeOK, Busy, Good, PlacedOnce
<1>2. TypeOK'
  BY <1>1, MakeCallCommand DEF PlaceCall, IInv, TypeOK, vars, driver, channel, calls,
     Flag, Life, PbxPlace, Operation, HoldsPvt, HoldsChan, In
<1>3. ASSUME NEW d \in Call \ busy PROVE Good(d)'
  <2>1. /\ Placing(d)' <=> Placing(d) \/ d = c
        /\ Once(d) => Once(d)'
    BY <1>1, MakeCallCommand
  <2>. QED
    BY <2>1, PlacesApart DEF PlaceCall, IInv, TypeOK, Good, Attached, FlagsMean,
       Inside, NoChannelYet, PlacedOnce, Over, driver, channel, calls, In, HoldsPvt,
       HoldsChan, Life, Operation, Flag
<1>4. UNCHANGED busy /\ Busy'
  BY DEF PlaceCall, IInv, Busy, PvtFree, driver, Operation
<1>. QED BY <1>2, <1>3, <1>4 DEF IInv

LEMMA EnterKeeps ==
  ASSUME IInv, NEW c \in Call, NEW operation \in Operation, Enter(c, operation)
  PROVE  IInv'
<1>1. TypeOK'
  BY PlacesTyped DEF Enter, IInv, TypeOK, vars, driver, channel, calls, Flag, Life,
     PbxPlace, Operation, HoldsPvt, HoldsChan, In
<1>2. ASSUME NEW d \in Call \ busy PROVE Good(d)'
  <2>1. UNCHANGED commands
    BY DEF Enter
  <2>2. /\ Placing(d)' <=> Placing(d)
        /\ Once(d)' <=> Once(d)
    BY <2>1, SameCommands
  <2>. QED
    BY <2>2, PlacesApart DEF Enter, IInv, TypeOK, Good, Attached, FlagsMean, Inside,
       NoChannelYet, PlacedOnce, Over, driver, channel, calls, In, HoldsPvt,
       HoldsChan, Life, Operation, Flag
<1>3. UNCHANGED busy /\ Busy'
  BY DEF Enter, IInv, Busy, PvtFree, driver, Operation
<1>. QED BY <1>1, <1>2, <1>3 DEF IInv

LEMMA AnswerKeeps ==
  ASSUME IInv, NEW c \in Call, Answer(c)
  PROVE  IInv'
<1>1. commands' \in Seq(Command) /\ \A d \in Call : (Placing(d)' <=> Placing(d)) /\ (Once(d) => Once(d)')
  <2>1. commands \in Seq(Command)
    BY DEF IInv, TypeOK
  <2>2. CASE UNCHANGED commands
    BY <2>1, <2>2, SameCommands
  <2>3. CASE Send("ANSCALL", c)
    BY <2>1, <2>3, OtherCommand
  <2>. QED BY <2>2, <2>3 DEF Answer
<1>2. crashed' \in BOOLEAN
  BY DEF Answer
<1>3. TypeOK'
  BY <1>1, <1>2 DEF Answer, IInv, TypeOK, driver, calls, PbxPlace, Operation
<1>4. ASSUME NEW d \in Call \ busy PROVE Good(d)'
  BY <1>1, PlacesApart DEF Answer, IInv, TypeOK, Good, Attached, FlagsMean, Inside,
     NoChannelYet, PlacedOnce, Over, driver, channel, calls, In, HoldsPvt, HoldsChan,
     Life, Operation, Flag
<1>5. UNCHANGED busy /\ Busy'
  BY DEF Answer, IInv, Busy, PvtFree, driver, Operation
<1>. QED BY <1>3, <1>4, <1>5 DEF IInv

LEMMA HangUpKeeps ==
  ASSUME IInv, NEW c \in Call, HangUp(c)
  PROVE  IInv'
<1>1. commands' \in Seq(Command) /\ \A d \in Call : (Placing(d)' <=> Placing(d)) /\ (Once(d) => Once(d)')
  <2>1. commands \in Seq(Command)
    BY DEF IInv, TypeOK
  <2>2. CASE UNCHANGED commands
    BY <2>1, <2>2, SameCommands
  <2>3. CASE Send("HANGCALL", c)
    BY <2>1, <2>3, OtherCommand
  <2>. QED BY <2>2, <2>3 DEF HangUp
<1>2. /\ flags' \in {flags, [flags EXCEPT ![c] = @ \cup {"NEEDDESTROY"}],
                     [flags EXCEPT ![c] = @ \cup {"ALREADYGONE"}]}
      /\ c \notin busy =>
           flags' = [flags EXCEPT ![c] = @ \cup IF "ALREADYGONE" \in flags[c]
                                                THEN {"NEEDDESTROY"} ELSE {"ALREADYGONE"}]
  <2>1. c \notin busy => c \in tech_pvt
    BY DEF HangUp, IInv, Good, Attached
  <2>. QED BY <2>1 DEF HangUp
<1>3. TypeOK'
  <2>1. flags' \in [Call -> SUBSET Flag]
    BY <1>2 DEF IInv, TypeOK, Flag
  <2>2. /\ owner' \subseteq Call /\ tech_pvt' \subseteq Call
        /\ chan' \in [Call -> Life] /\ pbx' \in [Call -> PbxPlace]
    BY DEF HangUp, Detach, IInv, TypeOK, Life, PbxPlace
  <2>. QED
    BY <1>1, <2>1, <2>2 DEF HangUp, IInv, TypeOK, calls
<1>4. ASSUME NEW d \in Call \ busy PROVE Good(d)'
  BY <1>1, <1>2, PlacesApart DEF HangUp, Detach, IInv, TypeOK, Good, Attached,
     FlagsMean, Inside, NoChannelYet, PlacedOnce, Over, driver, channel, calls, In,
     HoldsPvt, HoldsChan, Life, Operation, Flag
<1>5. UNCHANGED busy /\ Busy'
  BY DEF HangUp, Detach, IInv, Busy, PvtFree, driver, Operation
<1>. QED BY <1>3, <1>4, <1>5 DEF IInv

(* What happens on a call, and the callback that tells the driver.          *)
Tells == {<< "alerting", "onAlerting" >>, << "connect", "onCallEstablished" >>,
           << "digit", "onReceivedDigit" >>}

LEMMA HappensKeeps ==
  ASSUME IInv, NEW c \in Call, NEW event, NEW place, << event, place >> \in Tells,
         Happens(c, event, place)
  PROVE  IInv'
<1>1. TypeOK'
  BY PlacesTyped DEF Happens, Find, Tells, IInv, TypeOK, vars, driver, channel,
     calls, Flag, Life, PbxPlace, Operation, HoldsPvt, HoldsChan, In
<1>2. ASSUME NEW d \in Call \ busy PROVE Good(d)'
  <2>1. UNCHANGED commands
    BY DEF Happens
  <2>2. /\ Placing(d)' <=> Placing(d)
        /\ Once(d)' <=> Once(d)
    BY <2>1, SameCommands
  <2>. QED
    BY <2>2, PlacesApart DEF Happens, Find, Tells, IInv, TypeOK, Good, Attached,
       FlagsMean, Inside, NoChannelYet, PlacedOnce, Over, driver, channel, calls, In,
       HoldsPvt, HoldsChan, Life, Operation, Flag
<1>3. UNCHANGED busy /\ Busy'
  BY DEF Happens, Find, IInv, Busy, PvtFree, driver, Operation
<1>. QED BY <1>1, <1>2, <1>3 DEF IInv

LEMMA TakeCommandKeeps ==
  ASSUME IInv, TakeCommand
  PROVE  IInv'
<1> DEFINE cmd == Head(commands)
<1> DEFINE c == cmd.call
<1>1. commands \in Seq(Command) /\ commands # << >> /\ commands' = Tail(commands)
  BY DEF TakeCommand, IInv, TypeOK
<1>2. /\ commands' \in Seq(Command) /\ c \in Call /\ cmd = [type |-> cmd.type, call |-> c]
      /\ cmd.type \in {"MAKECALL", "ANSCALL", "HANGCALL"}
  <2>1. cmd \in Command /\ commands' \in Seq(Command)
    BY <1>1
  <2>. QED BY <2>1 DEF Command
<1>3. ASSUME NEW d \in Call
      PROVE  /\ Placing(d)' => Placing(d)
             /\ Once(d) => Once(d)'
             /\ cmd = MakeCallOf(d) /\ Once(d) => Placing(d) /\ ~Placing(d)'
  BY <1>1, CommandTaken
<1>4. cmd.type = "MAKECALL" => cmd = MakeCallOf(c)
  BY <1>2 DEF MakeCallOf
<1> HIDE DEF cmd, c
<1>5. CASE cmd.type = "MAKECALL"
  <2>1. /\ stack = Idle /\ Find(c, "onNewCallCreated")
        /\ UNCHANGED << driver, channel, pbx, calls, monitor, crashed >>
    BY <1>5 DEF TakeCommand, cmd, c
  <2>2. TypeOK'
    BY <1>2, <2>1, PlacesTyped DEF Find, IInv, TypeOK, vars, driver, channel, calls,
       Flag, Life, PbxPlace, Operation, HoldsPvt, HoldsChan, In
  <2>3. ASSUME NEW d \in Call \ busy PROVE Good(d)'
    <3>1. d = c => Placing(d) /\ ~Placing(d)'
      BY <1>3, <1>4, <1>5 DEF IInv, Good, PlacedOnce
    <3>. QED
      BY <1>2, <1>3, <2>1, <3>1, PlacesApart DEF Find, IInv, TypeOK, Good, Attached,
         FlagsMean, Inside, NoChannelYet, PlacedOnce, Over, driver, channel, calls,
         In, HoldsPvt, HoldsChan, Life, Operation, Flag
  <2>4. UNCHANGED busy /\ Busy'
    BY <2>1 DEF TakeCommand, IInv, Busy, PvtFree, driver
  <2>. QED BY <2>2, <2>3, <2>4 DEF IInv
<1>6. CASE cmd.type # "MAKECALL"
  <2>1. /\ stack = Idle
        /\ h323' = h323 \/ h323' = [h323 EXCEPT ![c] = IF @ = "active" THEN "clearing" ELSE @]
        /\ answered' \in {answered, answered \cup {c}}
        /\ UNCHANGED << driver, channel, pbx, due, stack, monitor, crashed >>
    BY <1>2, <1>6 DEF TakeCommand, cmd, c, calls
  <2>2. TypeOK'
    BY <1>2, <2>1 DEF IInv, TypeOK, driver, channel
  <2>3. ASSUME NEW d \in Call \ busy PROVE Good(d)'
    BY <1>2, <1>3, <2>1, PlacesApart DEF IInv, TypeOK, Good, Attached, FlagsMean,
       Inside, NoChannelYet, PlacedOnce, Over, driver, channel, calls, In, HoldsPvt,
       HoldsChan, Life, Operation, Flag
  <2>4. UNCHANGED busy /\ Busy'
    BY <2>1 DEF TakeCommand, IInv, Busy, PvtFree, driver
  <2>. QED BY <2>2, <2>3, <2>4 DEF IInv
<1>. QED BY <1>5, <1>6
-----------------------------------------------------------------------------
LEMMA InitIInv == Init => IInv
<1>. SUFFICES ASSUME Init PROVE IInv
  OBVIOUS
<1>1. TypeOK
  <2>1. commands \in Seq(Command) /\ stack \in StackPlace /\ monitor \in MonitorPlace
    BY PlacesTyped DEF Init
  <2>3. crashed \in BOOLEAN
    BY DEF Init
  <2>2. /\ pvt \in [Call -> Life] /\ chan \in [Call -> Life]
        /\ flags \in [Call -> SUBSET Flag] /\ due \in [Call -> SUBSET Event]
        /\ pbx \in [Call -> PbxPlace] /\ h323 \in [Call -> {"none", "active", "clearing", "over"}]
    BY DriverAssumption DEF Init, Life, PbxPlace
  <2>. QED
    BY <2>1, <2>2, <2>3, DriverAssumption DEF Init, TypeOK
<1>3. Busy
  BY PlacesApart DEF Init, Busy, PvtFree
<1>2. ASSUME NEW c \in Call PROVE Good(c)
  BY PlacesApart DEF Init, Good, Attached, FlagsMean, Inside, NoChannelYet,
     PlacedOnce, Over, Placing, Once, MakeCallOf, In, HoldsPvt, Life
<1>. QED BY <1>1, <1>2, <1>3 DEF IInv

LEMMA NextIInv == IInv /\ [Next]_vars => IInv'
<1>. SUFFICES ASSUME IInv, [Next]_vars PROVE IInv'
  OBVIOUS
<1>1. CASE UNCHANGED vars
  <2>1. TypeOK'
    BY <1>1 DEF vars, driver, channel, calls, IInv, TypeOK
  <2>2. ASSUME NEW d \in Call \ busy PROVE Good(d)'
    BY <1>1 DEF vars, driver, channel, calls, IInv, Good, Attached, FlagsMean,
       Inside, NoChannelYet, PlacedOnce, Over, In, Placing, Once
  <2>3. UNCHANGED busy /\ Busy'
    BY <1>1 DEF vars, driver, IInv, Busy, PvtFree
  <2>. QED BY <2>1, <2>2, <2>3 DEF IInv
<1>2. CASE TakeCommand
  BY <1>2, TakeCommandKeeps
<1>3. ASSUME NEW c \in Call, Pbx(c) PROVE IInv'
  BY <1>3, RequestKeeps, PlaceCallKeeps, AnswerKeeps, UseMediaKeeps, IndicateKeeps,
     HangUpKeeps, EnterKeeps DEF Pbx
<1>4. ASSUME NEW c \in Call, Callback(c) PROVE IInv'
  BY <1>4, OnNewCallCreatedKeeps, OnAlertingKeeps, NewChannelKeeps, LockOwnerKeeps,
     QueueControlKeeps,
     OnCallEstablishedKeeps, RetryEstablishedKeeps, OnReceivedDigitKeeps, QueueDigitKeeps,
     StartTransmitKeeps, StopTransmitKeeps, OnCallClearedKeeps DEF Callback
<1>5. ASSUME NEW c \in Call, Network(c) PROVE IInv'
  BY <1>5, ReceiveSetupKeeps, PeerReleasesKeeps, ChannelAnsweredKeeps, CleanCallKeeps,
     HappensKeeps
     DEF Network, Tells
<1>6. ASSUME NEW c \in Call, Monitor(c) \/ UseFreed(c) PROVE IInv'
  BY <1>6, DestroyKeeps, DetachOwnerKeeps, UseFreedKeeps DEF Monitor
<1>. QED BY <1>1, <1>2, <1>3, <1>4, <1>5, <1>6 DEF Next

LEMMA IInvAlways == Spec => []IInv
  BY InitIInv, NextIInv, PTL DEF Spec

(* Every variable keeps its type.                                           *)
THEOREM TypeCorrect == Spec => []TypeOK
<1>1. IInv => TypeOK
  BY DEF IInv
<1>. QED BY <1>1, IInvAlways, PTL

(* The callbacks find a pvt and lock it later, the channels follow          *)
(* tech_pvt, the monitor frees without asking: no thread ever has the       *)
(* address of a pvt, or a pvt that of a channel, that has been freed.       *)
THEOREM NoDanglingPointer == Spec => []PointersLive
<1>1. IInv => PointersLive
  BY DEF IInv, TypeOK, Good, Attached, Inside, PointersLive
<1>. QED BY <1>1, IInvAlways, PTL

(* The monitor never waits for the lock of a channel while it has iflock    *)
(* and the lock of the pvt, unless the call has been indicated busy.        *)
THEOREM NoWaitingMonitor == Spec => []LocksInOrder
<1>1. IInv => LocksInOrder
  BY DEF IInv, Busy, PvtFree, LocksInOrder
<1>. QED BY <1>1, IInvAlways, PTL

(* Whoever gives the call up first, the pvt is freed only after the other.  *)
THEOREM FreedAfterBoth == Spec => []DestroyedLast
<1>1. IInv => DestroyedLast
  BY DEF IInv, Good, FlagsMean, Over, DestroyedLast
<1>. QED BY <1>1, IInvAlways, PTL
=============================================================================
