----------------------------- MODULE MCGkSession -----------------------------
(* Values of the constants for model checking GkSession.                    *)
EXTENDS GkSession

NoCall    == {}
NoCallRef == [c \in {} |-> 1]
TwoCalls  == {"out", "in"}
OneCallOut == {"out"}
OneCallIn  == {"in"}
OwnRef    == [c \in TwoCalls |-> IF c = "out" THEN 1 ELSE 2]
OneRef    == [c \in OneCallIn |-> 1]

Works    == {TRUE}
AnySend  == BOOLEAN
Nothing  == {}

Registering == {"GRQ", "RRQ"}

EveryRegistrationAnswer ==
  {"GCF", "GCF without id", "GCF without address", "GRJ", "RCF", "RCF without TTL",
   "RRJ", "RRJ discoveryRequired", "RRJ fullRegistrationRequired", "URQ"}
ConfirmsAll    == {"GCF", "RCF without TTL", "ACF"}
MayRejectCalls == ConfirmsAll \cup {"ARJ"}
KeepAlive      == {"GCF", "RCF"}
=============================================================================
