------------------------------ MODULE CheckJobs ------------------------------
(***************************************************************************)
(* The check (farz) job pipeline in its shared form: REDIS_URL is set, any *)
(* number of application processes push job identifiers on one Redis list  *)
(* and the workers of every process pop them.                              *)
(*                                                                         *)
(*   routers/check.py       POST /check, process_check_queue_item          *)
(*   services/check_queue.py  start, stop, the worker loop, enqueue        *)
(*   services/job_store.py    the row a client polls, with its TTL         *)
(*                                                                         *)
(* A step is one Redis command or one file-system effect, with the code    *)
(* that runs between it and the next await.  Redis may fail a command, or  *)
(* apply it and lose the reply (faults); a process may be stopped by its   *)
(* server or crash (ends).                                                 *)
(***************************************************************************)
EXTENDS Naturals, Sequences, FiniteSets

CONSTANTS
  Jobs,        \* the requests POST /check ever receives, each with its job_id
  StoredJobs,  \* those with use_stored_large: no large file is uploaded
  Procs,       \* application processes
  Front,       \* Front[j]: the process that serves the request of j
  Workers,     \* worker tasks of all processes
  Home,        \* Home[w]: the process the task w belongs to
  MaxDepth,    \* settings.check_queue_max_depth
  MaxFaults,   \* bound on the Redis commands that fail
  MaxEnds,     \* bound on the stops and crashes of processes
  NoJob

ASSUME ConstantsAssumption ==
  /\ StoredJobs \subseteq Jobs
  /\ Front \in [Jobs -> Procs]
  /\ Home \in [Workers -> Procs]
  /\ MaxDepth \in Nat \ {0}
  /\ MaxFaults \in Nat
  /\ MaxEnds \in Nat
  /\ NoJob \notin Jobs

VARIABLES
  queue,   \* the Redis list: Head is what BRPOP takes, Append is LPUSH
  row,     \* the job row in Redis
  files,   \* the temporary files of a job still on disk
  pc,      \* where the POST /check handler of a job stands
  wpc,     \* where a worker stands
  wjob,    \* the job a worker holds
  proc,    \* the state of a process
  faults,  \* Redis commands that failed so far
  ends     \* stops and crashes so far

vars == <<queue, row, files, pc, wpc, wjob, proc, faults, ends>>

Rows     == {"absent", "processing", "done", "error"}
Settled  == {"done", "error"}
File     == {"large", "small"}
InFlight == {"admitted", "large", "saved", "rowed", "checked", "full"}
Answered == {"accepted", "refused", "failed", "cut"}
Holding  == {"handed", "running", "saveDone", "saveError"}
WorkerAt == Holding \cup {"idle", "stopped"}

Queued(j) == \E i \in 1..Len(queue) : queue[i] = j

\* The files process_check_queue_item opens: small_path, and large_path in mode "files".
Needs(j) == IF j \in StoredJobs THEN {"small"} ELSE File

\* A Redis command raises; the model allows MaxFaults of them.
Fault == faults < MaxFaults /\ faults' = faults + 1

Init == /\ queue  = <<>>
        /\ row    = [j \in Jobs |-> "absent"]
        /\ files  = [j \in Jobs |-> {}]
        /\ pc     = [j \in Jobs |-> "new"]
        /\ wpc    = [w \in Workers |-> "idle"]
        /\ wjob   = [w \in Workers |-> NoJob]
        /\ proc   = [p \in Procs |-> "up"]
        /\ faults = 0
        /\ ends   = 0
-----------------------------------------------------------------------------
(* POST /check.  The handler of j runs while its process is not down.      *)

Goes(j, from, to) == /\ pc[j] = from
                     /\ proc[Front[j]] # "down"
                     /\ pc' = [pc EXCEPT ![j] = to]

\* queue_depth() is below the limit, or LLEN fails and counts as depth 0.
Admit(j) == /\ Goes(j, "new", "admitted")
            /\ proc[Front[j]] = "up"
            /\ \/ Len(queue) < MaxDepth /\ UNCHANGED faults
               \/ Fault
            /\ UNCHANGED <<queue, row, files, wpc, wjob, proc, ends>>

\* The large upload: not in stored mode; a rejected one removes its own file.
SaveLarge(j) ==
  /\ \/ /\ Goes(j, "admitted", "large")
        /\ files' = [files EXCEPT ![j] = Needs(j) \ {"small"}]
     \/ /\ j \notin StoredJobs
        /\ Goes(j, "admitted", "refused")
        /\ UNCHANGED files
  /\ UNCHANGED <<queue, row, wpc, wjob, proc, faults, ends>>

\* The small upload: refused with the large file removed; a failed write of the
\* workbook made from typed plates leaves the empty file of mkstemp behind.
SaveSmall(j) ==
  /\ \/ /\ Goes(j, "large", "saved")
        /\ files' = [files EXCEPT ![j] = @ \cup {"small"}]
     \/ /\ Goes(j, "large", "refused")
        /\ files' = [files EXCEPT ![j] = {}]
     \/ /\ Goes(j, "large", "failed")
        /\ files' = [files EXCEPT ![j] = {"small"}]
  /\ UNCHANGED <<queue, row, wpc, wjob, proc, faults, ends>>

\* job_save "processing", before the job is enqueued.  Its failure is a 500.
SaveRow(j) ==
  /\ \/ /\ Goes(j, "saved", "rowed")
        /\ row' = [row EXCEPT ![j] = "processing"]
        /\ UNCHANGED faults
     \/ /\ Goes(j, "saved", "failed")
        /\ Fault
        /\ \E r \in {row[j], "processing"} : row' = [row EXCEPT ![j] = r]
  /\ UNCHANGED <<queue, files, wpc, wjob, proc, ends>>

\* enqueue_check_job up to LLEN: CheckQueueFullError when stopping or full.
CheckDepth(j) ==
  /\ \/ /\ proc[Front[j]] = "up" /\ Len(queue) < MaxDepth
        /\ Goes(j, "rowed", "checked")
        /\ UNCHANGED faults
     \/ /\ proc[Front[j]] = "stopping" \/ Len(queue) >= MaxDepth
        /\ Goes(j, "rowed", "full")
        /\ UNCHANGED faults
     \/ /\ Goes(j, "rowed", "failed")
        /\ Fault
  /\ UNCHANGED <<queue, row, files, wpc, wjob, proc, ends>>

\* enqueue_check_job, LPUSH: the depth read before may be out of date.
PushUnchecked(j) ==
  /\ \/ /\ Goes(j, "checked", "accepted")
        /\ queue' = Append(queue, j)
        /\ UNCHANGED faults
     \/ /\ Goes(j, "checked", "failed")
        /\ Fault
        /\ \/ queue' = Append(queue, j)
           \/ UNCHANGED queue
  /\ UNCHANGED <<row, files, wpc, wjob, proc, ends>>

\* Mutant: any error of enqueue_check_job takes the queue-full path.
PushErrorIsFull(j) ==
  /\ \/ /\ Goes(j, "checked", "accepted")
        /\ queue' = Append(queue, j)
        /\ UNCHANGED faults
     \/ /\ Goes(j, "checked", "full")
        /\ Fault
        /\ \/ queue' = Append(queue, j)
           \/ UNCHANGED queue
  /\ UNCHANGED <<row, files, wpc, wjob, proc, ends>>

\* Mutant: the temporary files are removed on any error of enqueue_check_job.
PushErrorUnlinks(j) ==
  /\ \/ /\ Goes(j, "checked", "accepted")
        /\ queue' = Append(queue, j)
        /\ UNCHANGED <<files, faults>>
     \/ /\ Goes(j, "checked", "failed")
        /\ Fault
        /\ files' = [files EXCEPT ![j] = {}]
        /\ \/ queue' = Append(queue, j)
           \/ UNCHANGED queue
  /\ UNCHANGED <<row, wpc, wjob, proc, ends>>

Push(j) == PushUnchecked(j)

\* except CheckQueueFullError: the row becomes "error", then the files are removed.
Refuse(j) ==
  /\ \/ /\ Goes(j, "full", "refused")
        /\ row'   = [row EXCEPT ![j] = "error"]
        /\ files' = [files EXCEPT ![j] = {}]
        /\ UNCHANGED faults
     \/ /\ Goes(j, "full", "failed")
        /\ Fault
        /\ \E r \in {row[j], "error"} : row' = [row EXCEPT ![j] = r]
        /\ UNCHANGED files
  /\ UNCHANGED <<queue, wpc, wjob, proc, ends>>

Handler(j) == \/ Admit(j) \/ SaveLarge(j) \/ SaveSmall(j) \/ SaveRow(j)
              \/ CheckDepth(j) \/ Push(j) \/ Refuse(j)
-----------------------------------------------------------------------------
(* The worker loop of start_check_queue and process_check_queue_item.      *)

\* BRPOP: Redis takes the tail of the list; the reply is still to come.  When the
\* reply is lost the loop logs the exception and polls again, without the job.
PopOnce(w) ==
  /\ proc[Home[w]] = "up"
  /\ wpc[w] = "idle"
  /\ queue # <<>>
  /\ queue' = Tail(queue)
  /\ \/ /\ wpc'  = [wpc EXCEPT ![w] = "handed"]
        /\ wjob' = [wjob EXCEPT ![w] = Head(queue)]
        /\ UNCHANGED faults
     \/ Fault /\ UNCHANGED <<wpc, wjob>>
  /\ UNCHANGED <<row, files, pc, proc, ends>>

\* Mutant: the element is read first and removed after the processing.
PopLater(w) ==
  /\ proc[Home[w]] = "up"
  /\ wpc[w] = "idle"
  /\ queue # <<>>
  /\ wpc'  = [wpc EXCEPT ![w] = "handed"]
  /\ wjob' = [wjob EXCEPT ![w] = Head(queue)]
  /\ UNCHANGED <<queue, row, files, pc, proc, faults, ends>>

Pop(w) == PopOnce(w)

\* Reading the input files; a missing one is an error like any other.
LoadFiles(w) ==
  /\ wpc[w] = "handed"
  /\ wpc' = [wpc EXCEPT ![w] = IF Needs(wjob[w]) \subseteq files[wjob[w]]
                               THEN "running" ELSE "saveError"]
  /\ UNCHANGED <<queue, row, files, pc, wjob, proc, faults, ends>>

\* Mutant: the worker first saves "processing" again, to renew the TTL of the row.
LoadRenewsRow(w) ==
  /\ wpc[w] = "handed"
  /\ wpc' = [wpc EXCEPT ![w] = "running"]
  /\ row' = [row EXCEPT ![wjob[w]] = "processing"]
  /\ UNCHANGED <<queue, files, pc, wjob, proc, faults, ends>>

Load(w) == LoadFiles(w)

\* run_check_plates_sync / run_check_plates_postgres_sync in a thread.
Compute(w) ==
  /\ wpc[w] = "running"
  /\ \E next \in {"saveDone", "saveError"} : wpc' = [wpc EXCEPT ![w] = next]
  /\ UNCHANGED <<queue, row, files, pc, wjob, proc, faults, ends>>

\* The finally clause: both files are unlinked and the loop polls again.
Release(w) ==
  /\ files' = [files EXCEPT ![wjob[w]] = {}]
  /\ wpc'   = [wpc EXCEPT ![w] = "idle"]
  /\ wjob'  = [wjob EXCEPT ![w] = NoJob]

\* job_save "done"; when it raises, except Exception saves "error" instead,
\* although Redis may have stored the result.
SaveDone(w) ==
  /\ wpc[w] = "saveDone"
  /\ \/ /\ row' = [row EXCEPT ![wjob[w]] = "done"]
        /\ Release(w)
        /\ UNCHANGED faults
     \/ /\ Fault
        /\ \E r \in {row[wjob[w]], "done"} : row' = [row EXCEPT ![wjob[w]] = r]
        /\ wpc' = [wpc EXCEPT ![w] = "saveError"]
        /\ UNCHANGED <<files, wjob>>
  /\ UNCHANGED <<queue, pc, proc, ends>>

\* job_save "error"; when it raises, finally still unlinks and the loop logs.
SaveErrorThenPoll(w) ==
  /\ wpc[w] = "saveError"
  /\ \/ /\ row' = [row EXCEPT ![wjob[w]] = "error"]
        /\ UNCHANGED faults
     \/ /\ Fault
        /\ \E r \in {row[wjob[w]], "error"} : row' = [row EXCEPT ![wjob[w]] = r]
  /\ Release(w)
  /\ UNCHANGED <<queue, pc, proc, ends>>

\* Mutant: the exception ends the worker task.
SaveErrorEndsWorker(w) ==
  /\ wpc[w] = "saveError"
  /\ row'   = [row EXCEPT ![wjob[w]] = "error"]
  /\ files' = [files EXCEPT ![wjob[w]] = {}]
  /\ wpc'   = [wpc EXCEPT ![w] = "stopped"]
  /\ wjob'  = [wjob EXCEPT ![w] = NoJob]
  /\ UNCHANGED <<queue, pc, proc, faults, ends>>

SaveError(w) == SaveErrorThenPoll(w)

Worker(w) == Pop(w) \/ Load(w) \/ Compute(w) \/ SaveDone(w) \/ SaveError(w)
-----------------------------------------------------------------------------
(* The processes, and the TTL of the rows.                                 *)

Of(p)     == {w \in Workers : Home[w] = p}
Saving(p) == {w \in Of(p) : wpc[w] \in {"saveDone", "saveError"}}
Executing(p) == {w \in Of(p) : wpc[w] \in Holding \ {"handed"}}

\* The rows when the job_save calls in flight of the workers in S reached Redis.
RowsAfter(S) ==
  [j \in Jobs |-> IF \E w \in S : wjob[w] = j
                 THEN LET w == CHOOSE v \in S : wjob[v] = j
                      IN  IF wpc[w] = "saveDone" THEN "done" ELSE "error"
                 ELSE row[j]]

WorkersEnd(p) ==
  /\ wpc'  = [w \in Workers |-> IF w \in Of(p) THEN "stopped" ELSE wpc[w]]
  /\ wjob' = [w \in Workers |-> IF w \in Of(p) THEN NoJob ELSE wjob[w]]

\* stop_check_queue cancels every worker.  CancelledError skips the handlers of
\* process_check_queue_item but not its finally; a job whose BRPOP reply was still
\* in flight never reached it.
Stop(p) ==
  /\ ends < MaxEnds
  /\ proc[p] = "up"
  /\ proc' = [proc EXCEPT ![p] = "stopping"]
  /\ WorkersEnd(p)
  /\ \E S \in SUBSET Saving(p) : row' = RowsAfter(S)
  /\ files' = [j \in Jobs |-> IF \E w \in Executing(p) : wjob[w] = j
                             THEN {} ELSE files[j]]
  /\ ends' = ends + 1
  /\ UNCHANGED <<queue, pc, faults>>

HandlersEnd(p) ==
  pc' = [j \in Jobs |-> IF Front[j] = p /\ pc[j] \in InFlight THEN "cut" ELSE pc[j]]

\* The process exits after stop_check_queue.
Exit(p) ==
  /\ proc[p] = "stopping"
  /\ proc' = [proc EXCEPT ![p] = "down"]
  /\ HandlersEnd(p)
  /\ UNCHANGED <<queue, row, files, wpc, wjob, faults, ends>>

\* The process is killed: nothing of finally runs.
Crash(p) ==
  /\ ends < MaxEnds
  /\ proc[p] = "up"
  /\ proc' = [proc EXCEPT ![p] = "down"]
  /\ HandlersEnd(p)
  /\ WorkersEnd(p)
  /\ \E S \in SUBSET Saving(p) : row' = RowsAfter(S)
  /\ ends' = ends + 1
  /\ UNCHANGED <<queue, files, faults>>

\* lifespan: start_check_queue creates the worker tasks of the new process.
Start(p) ==
  /\ proc[p] = "down"
  /\ proc' = [proc EXCEPT ![p] = "up"]
  /\ wpc'  = [w \in Workers |-> IF w \in Of(p) THEN "idle" ELSE wpc[w]]
  /\ UNCHANGED <<queue, row, files, pc, wjob, faults, ends>>

\* SETEX with TTL_PROCESSING_SEC or TTL_TERMINAL_SEC: an hour after the last save,
\* long after the handler of the job ended, but not always after its execution.
Expire(j) ==
  /\ row[j] # "absent"
  /\ pc[j] \notin InFlight
  /\ row' = [row EXCEPT ![j] = "absent"]
  /\ UNCHANGED <<queue, files, pc, wpc, wjob, proc, faults, ends>>

Next == \/ \E j \in Jobs : Handler(j) \/ Expire(j)
        \/ \E w \in Workers : Worker(w)
        \/ \E p \in Procs : Stop(p) \/ Exit(p) \/ Crash(p) \/ Start(p)

Spec == Init /\ [][Next]_vars

\* The event loop resumes every ready task: no handler and no worker waits forever.
FairSpec == /\ Spec
            /\ \A j \in Jobs : WF_vars(Handler(j))
            /\ \A w \in Workers : WF_vars(Worker(w))
-----------------------------------------------------------------------------
(* Properties.                                                             *)

\* Every variable has its type, and a worker holds a job exactly while it executes one
\* (the locals of process_check_queue_item).
TypeOK ==
  /\ queue \in Seq(Jobs)
  /\ row \in [Jobs -> Rows]
  /\ files \in [Jobs -> SUBSET File]
  /\ pc \in [Jobs -> InFlight \cup Answered \cup {"new"}]
  /\ wpc \in [Workers -> WorkerAt]
  /\ wjob \in [Workers -> Jobs \cup {NoJob}]
  /\ \A w \in Workers : wpc[w] \in Holding <=> wjob[w] # NoJob
  /\ proc \in [Procs -> {"up", "stopping", "down"}]
  /\ faults \in Nat
  /\ ends \in Nat

\* A job is in one place: once in the Redis list or in the hands of one worker, of any
\* process, and only after its handler pushed it (LPUSH / BRPOP, check_queue.py).
OnePlace ==
  /\ \A a, b \in 1..Len(queue) : queue[a] = queue[b] => a = b
  /\ \A w \in Workers : wjob[w] # NoJob => ~ Queued(wjob[w])
  /\ \A v, w \in Workers : wjob[v] = wjob[w] /\ wjob[v] # NoJob => v = w
  /\ \A j \in Jobs : (Queued(j) \/ \E w \in Workers : wjob[w] = j) => pc[j] \in Answered

\* Nobody removes the temporary files of a job that still has to be executed, whatever
\* error its handler met and whichever process stopped or crashed.
InputsPresent ==
  /\ \A j \in Jobs : Queued(j) => Needs(j) \subseteq files[j]
  /\ \A w \in Workers : wpc[w] \in Holding => Needs(wjob[w]) \subseteq files[wjob[w]]

\* A client that reads "done" or "error" can stop polling: the job is neither queued
\* nor about to be computed, so the answer will not change to another execution's.
SettledIsOver ==
  \A j \in Jobs : row[j] \in Settled =>
    /\ ~ Queued(j)
    /\ \A w \in Workers : wjob[w] = j => wpc[w] = "saveError"
    /\ pc[j] \notin InFlight \ {"full"}

\* The abstract life of a job, see CheckLifecycle.
StageOf(j) ==
  CASE \E w \in Workers : wjob[w] = j -> "running"
    [] Queued(j) \/ pc[j] \in {"rowed", "checked", "full"} -> "open"
    [] pc[j] \in {"new", "admitted", "large", "saved"} -> "new"
    [] OTHER -> "closed"

Lifecycle == INSTANCE CheckLifecycle WITH stage <- [j \in Jobs |-> StageOf(j)]

\* Handlers, workers, faults, stops and crashes together keep what CheckLifecycle
\* promises of each job: one execution at most, no result without it, no way back
\* from a result to "processing".
ImplementsLifecycle == Lifecycle!Spec

\* Without faults and stops, a job whose request was accepted is executed: its row
\* leaves "processing" and its files are removed.
AcceptedIsServed ==
  \A j \in Jobs :
    pc[j] = "accepted" ~> (row[j] # "processing" /\ files[j] = {})
=============================================================================
