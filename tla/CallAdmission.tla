---------------------------- MODULE CallAdmission ----------------------------
(***************************************************************************)
(* What admission by a gatekeeper promises each call, without messages,    *)
(* numbers, retries and timers: it is asked about once, admitted only      *)
(* while it is asked about, and once it is over it is never again either.  *)
(* The calls that the loss of the gatekeeper ends, it ends together.       *)
(***************************************************************************)
CONSTANT Call

VARIABLE status

CallStatus == {"new", "asked", "admitted", "over"}

Init == status = [c \in Call |-> "new"]

Ask(c)   == status[c] = "new" /\ status' = [status EXCEPT ![c] = "asked"]
Admit(c) == status[c] = "asked" /\ status' = [status EXCEPT ![c] = "admitted"]
End(c)   ==
  /\ status[c] \in {"asked", "admitted"}
  /\ status' = [status EXCEPT ![c] = "over"]
EndAll   ==
  status' = [c \in Call |-> IF status[c] \in {"asked", "admitted"} THEN "over"
                            ELSE status[c]]

Next == (\E c \in Call : Ask(c) \/ Admit(c) \/ End(c)) \/ EndAll

Spec == Init /\ [][Next]_status
=============================================================================
