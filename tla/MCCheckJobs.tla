---------------------------- MODULE MCCheckJobs ----------------------------
(* Instances of CheckJobs for TLC. *)
EXTENDS CheckJobs

CONSTANTS j1, j2, j3, w1, w2, p1, p2

TwoJobs   == {j1, j2}
ThreeJobs == {j1, j2, j3}

\* The request of j1 is served by p1, the others by p2; one worker each.
FrontOf == [j \in Jobs |-> IF j = j1 THEN p1 ELSE p2]
HomeOf  == [w \in Workers |-> IF w = w1 THEN p1 ELSE p2]
=============================================================================
