--------------------------- MODULE CheckLifecycle ---------------------------
(***************************************************************************)
(* What the check pipeline promises of one job, whatever queue, store and  *)
(* worker serve it: the row a client polls (GET /check/status) and the     *)
(* stage of the job behind it.  A job is executed at most once, a refused  *)
(* job is never executed, a result is only written by the execution, and a *)
(* row that shows a result never shows "processing" again.  Rows may       *)
(* expire at any time after the job was opened, also before the execution  *)
(* writes its result.                                                      *)
(***************************************************************************)
CONSTANT Jobs

VARIABLES
  row,    \* what GET /check/status shows: [Jobs -> Row]
  stage   \* how far the job is: [Jobs -> Stage]

vars == <<row, stage>>

Settled == {"done", "error"}
Row     == {"absent", "processing"} \cup Settled
Stage   == {"new", "open", "running", "closed"}

Init == /\ row   = [j \in Jobs |-> "absent"]
        /\ stage = [j \in Jobs |-> "new"]

\* The request is turned down, or breaks, before the job is opened; its row may say so.
Decline(j) == /\ stage[j] = "new"
              /\ stage' = [stage EXCEPT ![j] = "closed"]
              /\ \E r \in {"absent", "processing", "error"} : row' = [row EXCEPT ![j] = r]

Open(j) == /\ stage[j] = "new"
           /\ stage' = [stage EXCEPT ![j] = "open"]
           /\ row'   = [row EXCEPT ![j] = "processing"]

\* The queue had no room: the row says so and the job never runs.
Refuse(j) == /\ stage[j] = "open"
             /\ stage' = [stage EXCEPT ![j] = "closed"]
             /\ \E r \in {row[j], "error"} : row' = [row EXCEPT ![j] = r]

Take(j) == /\ stage[j] = "open"
           /\ stage' = [stage EXCEPT ![j] = "running"]
           /\ UNCHANGED row

\* The execution writes a result; it may overwrite its own "done" by "error".
Write(j) == /\ stage[j] = "running"
            /\ row' = [row EXCEPT ![j] = "done"]
            /\ UNCHANGED stage

Finish(j) == /\ stage[j] = "running"
             /\ stage' = [stage EXCEPT ![j] = "closed"]
             /\ \E r \in Settled \cup {row[j]} : row' = [row EXCEPT ![j] = r]

\* A process ends, or a reply is lost: the jobs of S are given up, those being
\* executed with or without their result.
GiveUp(S) == /\ \A j \in S : stage[j] \in {"new", "open", "running"}
             /\ stage' = [j \in Jobs |-> IF j \in S THEN "closed" ELSE stage[j]]
             /\ \E W \in SUBSET {j \in S : stage[j] = "running"} :
                  \E r \in [W -> Settled] :
                    row' = [j \in Jobs |-> IF j \in W THEN r[j] ELSE row[j]]

Expire(j) == /\ stage[j] # "new"
             /\ row' = [row EXCEPT ![j] = "absent"]
             /\ UNCHANGED stage

Next == \/ \E j \in Jobs : \/ Decline(j) \/ Open(j) \/ Refuse(j) \/ Take(j)
                           \/ Write(j) \/ Finish(j) \/ Expire(j)
        \/ \E S \in SUBSET Jobs : GiveUp(S)

Spec == Init /\ [][Next]_vars
=============================================================================
