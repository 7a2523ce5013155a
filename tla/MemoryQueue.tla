----------------------------- MODULE MemoryQueue -----------------------------
(***************************************************************************)
(* The check job pipeline without REDIS_URL: one process, an asyncio.Queue *)
(* and rows in a dictionary.                                               *)
(*                                                                         *)
(*   services/check_queue.py  the branches with _use_redis False           *)
(*   services/job_store.py    _memory and schedule_job_cleanup             *)
(*   routers/check.py         check_plates, process_check_queue_item       *)
(*                                                                         *)
(* A step is the code between two suspensions of the event loop: job_save  *)
(* and enqueue_check_job suspend nowhere here, so that a handler answers   *)
(* in the step in which it saves the row.                                  *)
(***************************************************************************)
EXTENDS Naturals, Sequences

CONSTANTS
  Jobs,      \* the requests POST /check receives
  Workers,   \* the worker tasks: max(1, check_queue_workers)
  MaxDepth,  \* check_queue_max_depth, the maxsize of the queue
  Sentinel   \* None in the queue

ASSUME ConstantsAssumption ==
  /\ Sentinel \notin Jobs
  /\ Jobs \cap {"idle", "ended"} = {}
  /\ Workers # {}
  /\ MaxDepth \in Nat \ {0}

VARIABLES
  queue,  \* asyncio.Queue
  row,    \* _memory
  files,  \* the temporary files of a job are on disk
  pc,     \* where the handler of a job stands
  timer,  \* the cleanup task of a row waits
  wjob,   \* the job a worker executes, or where it stands
  mode,   \* "up", "stopping" in stop_check_queue, "stopped" after it
  sent    \* the workers stop_check_queue has put a sentinel for

vars == <<queue, row, files, pc, timer, wjob, mode, sent>>

Init == /\ queue = <<>>
        /\ row   = [j \in Jobs |-> "absent"]
        /\ files = [j \in Jobs |-> FALSE]
        /\ pc    = [j \in Jobs |-> "new"]
        /\ timer = [j \in Jobs |-> FALSE]
        /\ wjob  = [w \in Workers |-> "idle"]
        /\ mode  = "up"
        /\ sent  = {}
-----------------------------------------------------------------------------
(* POST /check.                                                            *)

\* queue_depth(): after stop_check_queue there is no queue and the depth is 0.
Admit(j) ==
  /\ pc[j] = "new"
  /\ mode = "stopped" \/ Len(queue) < MaxDepth
  /\ pc' = [pc EXCEPT ![j] = "upload"]
  /\ UNCHANGED <<queue, row, files, timer, wjob, mode, sent>>

\* The uploads; a rejected one leaves no file.
Upload(j) ==
  /\ pc[j] = "upload"
  /\ \/ /\ pc' = [pc EXCEPT ![j] = "saved"]
        /\ files' = [files EXCEPT ![j] = TRUE]
     \/ /\ pc' = [pc EXCEPT ![j] = "declined"]
        /\ UNCHANGED files
  /\ UNCHANGED <<queue, row, timer, wjob, mode, sent>>

\* job_save "processing" and put_nowait.
Enqueue(j) ==
  /\ mode = "up" /\ Len(queue) < MaxDepth
  /\ queue' = Append(queue, j)
  /\ row'   = [row EXCEPT ![j] = "processing"]
  /\ pc'    = [pc EXCEPT ![j] = "accepted"]
  /\ UNCHANGED files

\* QueueFull, or the queue is stopping: the row becomes "error", the files go.
Refuse(j) ==
  /\ \/ mode = "stopping"
     \/ mode = "up" /\ Len(queue) >= MaxDepth
  /\ row'   = [row EXCEPT ![j] = "error"]
  /\ files' = [files EXCEPT ![j] = FALSE]
  /\ pc'    = [pc EXCEPT ![j] = "refused"]
  /\ UNCHANGED queue

\* "check_queue is not started" after stop_check_queue: a 500, files and row stay.
Break(j) ==
  /\ mode = "stopped"
  /\ row' = [row EXCEPT ![j] = "processing"]
  /\ pc'  = [pc EXCEPT ![j] = "failed"]
  /\ UNCHANGED <<queue, files>>

SubmitChecked(j) ==
  /\ pc[j] = "saved"
  /\ Enqueue(j) \/ Refuse(j) \/ Break(j)
  /\ UNCHANGED <<timer, wjob, mode, sent>>

\* Mutant: _stopping is not looked at.
SubmitWhileStopping(j) ==
  /\ pc[j] = "saved"
  /\ mode # "stopped" /\ Len(queue) < MaxDepth
  /\ queue' = Append(queue, j)
  /\ row'   = [row EXCEPT ![j] = "processing"]
  /\ pc'    = [pc EXCEPT ![j] = "accepted"]
  /\ UNCHANGED <<files, timer, wjob, mode, sent>>

\* Mutant: the refused request removes the files but the job stays in the queue.
SubmitThenRefuse(j) ==
  /\ pc[j] = "saved"
  /\ queue' = Append(queue, j)
  /\ IF mode = "up" /\ Len(queue) < MaxDepth
     THEN /\ row' = [row EXCEPT ![j] = "processing"]
          /\ pc'  = [pc EXCEPT ![j] = "accepted"]
          /\ UNCHANGED files
     ELSE /\ row'   = [row EXCEPT ![j] = "error"]
          /\ pc'    = [pc EXCEPT ![j] = "refused"]
          /\ files' = [files EXCEPT ![j] = FALSE]
  /\ UNCHANGED <<timer, wjob, mode, sent>>

Submit(j) == SubmitChecked(j)

Handler(j) == Admit(j) \/ Upload(j) \/ Submit(j)
-----------------------------------------------------------------------------
(* The worker loop and process_check_queue_item.                           *)

\* get(): a job, or the sentinel that ends the worker.
TakeHead(w) ==
  /\ wjob[w] = "idle"
  /\ queue # <<>>
  /\ queue' = Tail(queue)
  /\ wjob' = [wjob EXCEPT ![w] = IF Head(queue) = Sentinel THEN "ended" ELSE Head(queue)]
  /\ UNCHANGED <<row, files, pc, timer, mode, sent>>

\* Mutant: a worker that finds _stopping set ends and drops the job it has just taken.
TakeUnlessStopping(w) ==
  /\ wjob[w] = "idle"
  /\ queue # <<>>
  /\ queue' = Tail(queue)
  /\ wjob' = [wjob EXCEPT ![w] = IF mode = "stopping" THEN "ended" ELSE Head(queue)]
  /\ UNCHANGED <<row, files, pc, timer, mode, sent>>

Take(w) == TakeHead(w)

\* The comparison ends with a result or an exception: the row is saved, the files are
\* removed and the cleanup of the row is scheduled.
FinishJob(w) ==
  /\ wjob[w] \in Jobs
  /\ \E r \in {"done", "error"} : row' = [row EXCEPT ![wjob[w]] = r]
  /\ files' = [files EXCEPT ![wjob[w]] = FALSE]
  /\ timer' = [timer EXCEPT ![wjob[w]] = TRUE]
  /\ wjob'  = [wjob EXCEPT ![w] = "idle"]
  /\ UNCHANGED <<queue, pc, mode, sent>>

\* Mutant: an exception of the processor ends the worker.
FinishEndsWorker(w) ==
  /\ wjob[w] \in Jobs
  /\ row'   = [row EXCEPT ![wjob[w]] = "error"]
  /\ files' = [files EXCEPT ![wjob[w]] = FALSE]
  /\ timer' = [timer EXCEPT ![wjob[w]] = TRUE]
  /\ wjob'  = [wjob EXCEPT ![w] = "ended"]
  /\ UNCHANGED <<queue, pc, mode, sent>>

Finish(w) == FinishJob(w)

\* schedule_job_cleanup, an hour later.
Forget(j) ==
  /\ timer[j]
  /\ timer' = [timer EXCEPT ![j] = FALSE]
  /\ row'   = [row EXCEPT ![j] = "absent"]
  /\ UNCHANGED <<queue, files, pc, wjob, mode, sent>>
-----------------------------------------------------------------------------
(* stop_check_queue.                                                       *)

BeginStop ==
  /\ mode = "up"
  /\ mode' = "stopping"
  /\ UNCHANGED <<queue, row, files, pc, timer, wjob, sent>>

\* await _queue.put(None), once per worker: it waits while the queue is full.
PutSentinel ==
  /\ mode = "stopping"
  /\ Len(queue) < MaxDepth
  /\ \E w \in Workers \ sent : sent' = sent \cup {w}
  /\ queue' = Append(queue, Sentinel)
  /\ UNCHANGED <<row, files, pc, timer, wjob, mode>>

\* gather() returns when every worker has ended.
EndStop ==
  /\ mode = "stopping"
  /\ sent = Workers
  /\ \A w \in Workers : wjob[w] = "ended"
  /\ mode'  = "stopped"
  /\ queue' = <<>>
  /\ UNCHANGED <<row, files, pc, timer, wjob, sent>>

Stop == PutSentinel \/ EndStop

Next == \/ \E j \in Jobs : Handler(j) \/ Forget(j)
        \/ \E w \in Workers : Take(w) \/ Finish(w)
        \/ BeginStop \/ Stop

Spec == Init /\ [][Next]_vars

\* The event loop resumes handlers, workers, timers and stop_check_queue.
FairSpec == /\ Spec
            /\ \A j \in Jobs : WF_vars(Handler(j)) /\ WF_vars(Forget(j))
            /\ \A w \in Workers : WF_vars(Take(w)) /\ WF_vars(Finish(w))
            /\ WF_vars(Stop)
-----------------------------------------------------------------------------
(* Properties.                                                             *)

Queued(j) == \E i \in 1..Len(queue) : queue[i] = j
Held(j)   == \E w \in Workers : wjob[w] = j

\* Every variable has its type: a worker holds a job, never a sentinel, and sentinels
\* are put only by stop_check_queue.
TypeOK ==
  /\ queue \in Seq(Jobs \cup {Sentinel})
  /\ row \in [Jobs -> {"absent", "processing", "done", "error"}]
  /\ files \in [Jobs -> BOOLEAN]
  /\ pc \in [Jobs -> {"new", "upload", "saved", "declined", "accepted", "refused", "failed"}]
  /\ timer \in [Jobs -> BOOLEAN]
  /\ wjob \in [Workers -> Jobs \cup {"idle", "ended"}]
  /\ mode \in {"up", "stopping", "stopped"}
  /\ sent \subseteq Workers
  /\ sent # {} => mode # "up"

\* The queue holds at most check_queue_max_depth entries, sentinels included. An accepted
\* job that was not executed yet, its row still "processing" or its files on disk, is in
\* the queue or with a worker; what is there is an accepted job with its files.
BacklogSound ==
  /\ Len(queue) <= MaxDepth
  /\ \A j \in Jobs :
       /\ pc[j] = "accepted" /\ (row[j] = "processing" \/ files[j]) => Queued(j) \/ Held(j)
       /\ Queued(j) \/ Held(j) => pc[j] = "accepted" /\ files[j]
       /\ ~ (Queued(j) /\ Held(j))

\* stop_check_queue returns with every accepted job executed and no worker left: jobs are
\* in front of the sentinels, and one sentinel reaches each worker.
StopDrains ==
  mode = "stopped" =>
    \A j \in Jobs : pc[j] = "accepted" => row[j] # "processing" /\ ~ files[j]

StageOf(j) ==
  CASE Held(j) -> "running"
    [] Queued(j) -> "open"
    [] pc[j] \in {"new", "upload", "saved"} -> "new"
    [] OTHER -> "closed"

Lifecycle == INSTANCE CheckLifecycle WITH stage <- [j \in Jobs |-> StageOf(j)]

\* The in-process queue keeps the same promise to the client as the shared one.
ImplementsLifecycle == Lifecycle!Spec

\* stop_check_queue terminates, also on a full queue with its workers busy.
StopEnds == mode = "stopping" ~> mode = "stopped"

\* An accepted job is executed, whether or not the process is stopping.
AcceptedIsServed == \A j \in Jobs : pc[j] = "accepted" ~> ~ files[j]
=============================================================================
