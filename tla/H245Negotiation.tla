--------------------------- MODULE H245Negotiation ---------------------------
(***************************************************************************)
(* What the H.245 start-up of a call promises, without messages: the two   *)
(* ends take opposite master and slave roles and keep them; an end         *)
(* proposes its channels in one step, after it has taken its role unless   *)
(* it may answer a fast start.  Once its call is over, or ends in the      *)
(* step, an end may propose more.                                          *)
(***************************************************************************)
EXTENDS Naturals

CONSTANT Endpoint

VARIABLES
  role,      \* [Endpoint -> {"undecided", "Master", "Slave"}]
  proposed,  \* [Endpoint -> Nat]: how many channels the end has proposed
  fast,      \* [Endpoint -> BOOLEAN]: the end answers fast start
  over       \* [Endpoint -> BOOLEAN]: the end has given up the call

vars == << role, proposed, fast, over >>

Role == {"Master", "Slave"}
Opposite(r) == IF r = "Master" THEN "Slave" ELSE "Master"

TypeOK ==
  /\ role \in [Endpoint -> Role \cup {"undecided"}]
  /\ proposed \in [Endpoint -> Nat]
  /\ fast \in [Endpoint -> BOOLEAN] /\ over \in [Endpoint -> BOOLEAN]

Init ==
  /\ role = [e \in Endpoint |-> "undecided"]
  /\ proposed = [e \in Endpoint |-> 0]
  /\ fast \in [Endpoint -> BOOLEAN]
  /\ over = [e \in Endpoint |-> FALSE]

Decide(e) ==
  /\ role[e] = "undecided"
  /\ role'[e] \in Role
  /\ \A p \in Endpoint \ {e} : role[p] \in {"undecided", Opposite(role'[e])}

Propose(e) ==
  /\ role'[e] \in Role \/ fast[e]
  /\ proposed[e] = 0 \/ over'[e]
  /\ proposed'[e] > proposed[e]

GiveUp(e) == over'[e]

(* One message or timer at an end may do several of these at once.          *)
Step(e) ==
  /\ role' = [role EXCEPT ![e] = role'[e]]
  /\ proposed' = [proposed EXCEPT ![e] = proposed'[e]]
  /\ over' = [over EXCEPT ![e] = over'[e]]
  /\ Decide(e) \/ UNCHANGED role
  /\ Propose(e) \/ UNCHANGED proposed
  /\ GiveUp(e) \/ UNCHANGED over
  /\ UNCHANGED fast

Next == \E e \in Endpoint : Step(e)

Spec == Init /\ [][Next]_vars
=============================================================================
