----------------------------- MODULE MCOOTimer -----------------------------
(* Values of the constants for model checking OOTimer: three timers, a      *)
(* second of two microseconds, and a clock that runs over two seconds, so   *)
(* that seconds and microseconds can each decide a comparison and a         *)
(* difference can borrow.                                                   *)
EXTENDS OOTimer

FewDeltas == {0, 1}
Symmetry  == Permutations(TimerId)
Readings  == [sec : 0 .. 2, usec : 0 .. 1]
=============================================================================
