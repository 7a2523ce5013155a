---------------------------- MODULE MCAudioJobs ----------------------------
(* Instances of AudioJobs for TLC. *)
EXTENDS AudioJobs

CONSTANTS j1, j2, k1, k2, p1

\* The requests meet at the semaphore of one process.
HomeOf == [j \in Jobs |-> p1]
=============================================================================
