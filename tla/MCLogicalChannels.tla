-------------------------- MODULE MCLogicalChannels --------------------------
(* Values of the constants for model checking LogicalChannels.              *)
EXTENDS LogicalChannels

One       == {"alice"}
Terminal  == [e \in One |-> 60]
VideoCall == [e \in One |-> "VIDEOCALL"]

(* One codec for each media type; this end receives audio only.             *)
Codecs    == {"g711", "h263"}
Media     == [cap \in Codecs |-> IF cap = "h263" THEN "video" ELSE "audio"]
BothInOrder == [e \in One |-> << "g711", "h263" >>]
SendsBoth     == [e \in One |-> Codecs]
ReceivesAudio == [e \in One |-> {"g711"}]

OwnNumbers   == {1001, 1002}
OtherNumbers == {1, 2}
=============================================================================
