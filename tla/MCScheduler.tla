---------------------------- MODULE MCScheduler ----------------------------
(* Small pools for TLC: two missions of equal urgency; two runners of all   *)
(* projects, one that watches and one that makes a single visit and may be  *)
(* started again.  p1 asks questions and wraps, p2 is the one commands are  *)
(* about.                                                                   *)
EXTENDS Scheduler

CONSTANTS p1, p2, r1, r2

Together == [r \in Runners |-> Anything]
Equal    == [p \in Projects |-> 3]
None     == {}
One      == {p1}
Two      == {p2}
Both     == {p1, p2}
Second   == {r2}

=============================================================================
