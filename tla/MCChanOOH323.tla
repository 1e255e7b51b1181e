---------------------------- MODULE MCChanOOH323 ----------------------------
(* Values of the constants for model checking ChanOOH323.                   *)
EXTENDS ChanOOH323

OneEachWay == {"out", "in"}
OneOut     == {"out"}
OneIn      == {"in"}
Nobody     == {}

(* The peer sends digits only on the call it has placed.                    *)
DigitsComeIn == [c \in OneEachWay |-> IF c = "out" THEN Event \ {"digit"} ELSE Event]
Anything     == [c \in OneEachWay |-> Event]
=============================================================================
