--------------------------- MODULE MCCallSession ---------------------------
(* Values of the constants for model checking CallSession.                  *)
EXTENDS CallSession

Both == {"alice", "bob"}
Of(a, b) == [e \in Both |-> IF e = "alice" THEN a ELSE b]

Auto       == {"AUTOANSWER"}
Manual     == {"MANUALRINGBACK"}
Tunnel     == {"TUNNELING"}
Fast       == {"FASTSTART"}
FastTunnel == Tunnel \cup Fast

(* A scenario in which the call options are the caller's flags.             *)
Play(alice, bob, asks, expire) ==
  [ep |-> Of(alice, bob), opts |-> alice, asks |-> asks, expire |-> expire]

BobAnswers == Of({}, {"ring", "answer"})
NoTimer    == Of({}, {})
NoAnswer   == Of({"CALLESTB"}, {})

(* How two ends can be set up for a call that is answered, or not in time.  *)
SetupScenarios ==
  {Play({}, Auto, BobAnswers, NoAnswer),
   Play(Tunnel, Tunnel, BobAnswers, NoAnswer),
   Play(Tunnel, {}, BobAnswers, NoAnswer),
   Play(FastTunnel, FastTunnel \cup Auto, BobAnswers, NoAnswer),
   Play(FastTunnel, Tunnel, BobAnswers, NoAnswer),
   Play(Fast, Fast \cup Manual, BobAnswers, NoAnswer)}

FastScenarios == {Play(FastTunnel, FastTunnel \cup Auto, BobAnswers, NoTimer)}

(* Who hangs up, forwards or waits too long, in calls that are tunnelled,  *)
(* not tunnelled, and with fast start.                                      *)
OneTimer    == Of({"CALLESTB"}, {"TCS"})
ThreeTimers == Of({"CALLESTB"}, {"TCS", "MSD", "SESSION"})
ClearScenarios ==
  {Play({}, Auto, Of({"hangup"}, {"hangup"}), NoTimer),
   Play({}, {}, Of({}, {"answer", "hangup"}), OneTimer),
   Play(Tunnel, Tunnel, Of({"hangup"}, {"answer", "forward", "hangup"}), ThreeTimers),
   Play({}, {}, Of({"forward"}, {"answer", "forward"}), NoTimer),
   Play(FastTunnel, FastTunnel \cup Manual, Of({"hangup"}, {"ring", "answer", "hangup"}),
        NoAnswer)}

Zero == {0}
All  == DetNumber
SameTermType == Of(60, 60)
BobIsGateway == Of(60, 80)
AudioCall    == Of("AUDIOCALL", "AUDIOCALL")

(* Two audio codecs both ends have, and one for video only alice has; their *)
(* order differs, and the joint capabilities are in the order of the peer's *)
(* set.                                                                     *)
Codecs     == {"g711", "g729", "h263"}
Media      == [cap \in Codecs |-> IF cap = "h263" THEN "video" ELSE "audio"]
OwnOrder   == Of(<< "h263", "g711", "g729" >>, << "g729", "g711" >>)
PeerOrder  == Of(<< "g729", "g711" >>, << "g711", "g729" >>)
AllCodecs  == [e \in Both |-> ToSet(OwnOrder[e])]

(* Bob has only the second of alice's audio codecs.                         *)
SecondOnly   == << "g729" >>
BobSecond    == Of(OwnOrder["alice"], SecondOnly)
JointSecond  == Of(SecondOnly, SecondOnly)
SecondCodecs == [e \in Both |-> ToSet(BobSecond[e])]

(* Both have just one.                                                      *)
OneEach  == Of(SecondOnly, SecondOnly)
OneCodec == Of(ToSet(SecondOnly), ToSet(SecondOnly))
=============================================================================
