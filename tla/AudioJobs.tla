------------------------------ MODULE AudioJobs ------------------------------
(***************************************************************************)
(* Recordings transcribed by Gemini.                                       *)
(*                                                                         *)
(*   routers/audio.py           process and its background _audio_job_task *)
(*   services/gemini.py         process_audio, one attempt with one key    *)
(*   services/provider_keys.py  async_gemini_try_all, the failover         *)
(*                                                                         *)
(* Jobs of several processes share the pool of keys and the rows.  The     *)
(* commands on the pool are whole here: KeyPool takes them apart.  A step  *)
(* ends where the task awaits, and where another process may meet the pool.*)
(***************************************************************************)
EXTENDS Naturals, SequencesExt, FiniteSets, RedisLists

CONSTANTS
  Jobs,       \* the requests POST /api/process receives
  Keys,       \* the Gemini keys
  NoKey,      \* a job holds no key
  Home,       \* the process of each request
  Places,     \* _AUDIO_JOB_CONCURRENCY, of each process
  MaxFaults,  \* bound on Redis commands that raise
  MaxCrashes  \* bound on processes that end

ASSUME ConstantsAssumption ==
  /\ NoKey \notin Keys
  /\ IsFiniteSet(Jobs) /\ IsFiniteSet(Keys)
  /\ Jobs \subseteq DOMAIN Home
  /\ Places \in Nat \ {0}
  /\ {MaxFaults, MaxCrashes} \subseteq Nat

VARIABLES
  pool,    \* the Redis list of the active keys, the next one last
  row,     \* job_save
  file,    \* the temporary upload is on disk
  pc,      \* where the request or its background task stands
  key,     \* the key of the attempt
  seen,    \* iter_round_robin's seen
  left,    \* the rounds its loop still has
  faults, crashes

vars == <<pool, row, file, pc, key, seen, left, faults, crashes>>
loop == <<key, seen, left>>

Init == /\ pool \in SetToSeqs(Keys)
        /\ row  = [j \in Jobs |-> "absent"]
        /\ file = [j \in Jobs |-> FALSE]
        /\ pc   = [j \in Jobs |-> "new"]
        /\ key  = [j \in Jobs |-> NoKey]
        /\ seen = [j \in Jobs |-> {}]
        /\ left = [j \in Jobs |-> 0]
        /\ faults = 0 /\ crashes = 0

At(j, p) == pc[j] = p
Go(j, p) == pc' = [pc EXCEPT ![j] = p]
Row(j, r) == row' = [row EXCEPT ![j] = r]
Unlink(j) == file' = [file EXCEPT ![j] = FALSE]

Fault == faults < MaxFaults /\ faults' = faults + 1
NoFault == UNCHANGED faults
-----------------------------------------------------------------------------
(* POST /api/process.                                                      *)

\* The policy, the model or the lack of keys turns the request down.
Decline(j) ==
  /\ At(j, "new")
  /\ Go(j, "declined")
  /\ UNCHANGED <<pool, row, file, loop, faults, crashes>>

SaveFile(j) ==
  /\ At(j, "new")
  /\ pool # <<>>
  /\ file' = [file EXCEPT ![j] = TRUE]
  /\ Go(j, "filed")
  /\ UNCHANGED <<pool, row, loop, faults, crashes>>

\* job_save "processing", the background task and the answer; when job_save raises,
\* applied or not, the upload is removed.
SaveRowOrUnlink(j) ==
  /\ At(j, "filed")
  /\ \/ NoFault /\ Row(j, "processing") /\ Go(j, "waiting") /\ UNCHANGED file
     \/ Fault /\ Row(j, "processing") /\ Go(j, "failed") /\ Unlink(j)
     \/ Fault /\ UNCHANGED row /\ Go(j, "failed") /\ Unlink(j)
  /\ UNCHANGED <<pool, loop, crashes>>

\* Mutant: the except clause does not remove the upload.
SaveRowOnly(j) ==
  /\ At(j, "filed")
  /\ \/ NoFault /\ Row(j, "processing") /\ Go(j, "waiting")
     \/ Fault /\ UNCHANGED row /\ Go(j, "failed")
  /\ UNCHANGED <<pool, file, loop, crashes>>

SaveRow(j) == SaveRowOrUnlink(j)

Request(j) == Decline(j) \/ SaveFile(j) \/ SaveRow(j)
-----------------------------------------------------------------------------
(* _audio_job_task and async_gemini_try_all.                               *)

Inside == {j \in Jobs : pc[j] \in {"cycle", "attempt", "billing", "saving", "failing", "clearing"}}
InsideOf(h) == {j \in Inside : Home[j] = h}

\* The semaphore, has_any_gemini_keys, and LLEN at the start of the cycle.
EnterPlace(j) ==
  /\ At(j, "waiting")
  /\ Cardinality(InsideOf(Home[j])) < Places
  /\ IF pool = <<>> THEN Go(j, "failing") /\ UNCHANGED <<seen, left>>
     ELSE /\ Go(j, "cycle")
          /\ seen' = [seen EXCEPT ![j] = {}]
          /\ left' = [left EXCEPT ![j] = Len(pool)]
  /\ UNCHANGED <<pool, row, file, key, faults, crashes>>

\* Mutant: one place is never given.
EnterStrict(j) ==
  /\ Cardinality(InsideOf(Home[j])) + 1 < Places
  /\ EnterPlace(j)

\* Mutant: the semaphore is not asked.
EnterAnyway(j) ==
  /\ At(j, "waiting")
  /\ IF pool = <<>> THEN Go(j, "failing") /\ UNCHANGED <<seen, left>>
     ELSE /\ Go(j, "cycle")
          /\ seen' = [seen EXCEPT ![j] = {}]
          /\ left' = [left EXCEPT ![j] = Len(pool)]
  /\ UNCHANGED <<pool, row, file, key, faults, crashes>>

Enter(j) == EnterPlace(j)

\* RPOPLPUSH gives the next key of the cycle; without one, or at a key the cycle has
\* seen, it ends with gemini_failed.
Rotate(j) ==
  /\ At(j, "cycle")
  /\ IF left[j] = 0 \/ pool = <<>>
     THEN Go(j, "failing") /\ UNCHANGED <<pool, loop>>
     ELSE /\ pool' = RPopLPush(pool)
          /\ IF Last(pool) \in seen[j] THEN Go(j, "failing") /\ UNCHANGED loop
             ELSE /\ Go(j, "attempt")
                  /\ key'  = [key EXCEPT ![j] = Last(pool)]
                  /\ seen' = [seen EXCEPT ![j] = @ \cup {Last(pool)}]
                  /\ left' = [left EXCEPT ![j] = @ - 1]
  /\ UNCHANGED <<row, file, faults, crashes>>

\* A Redis command of the cycle raises.
RotateFails(j) ==
  /\ At(j, "cycle")
  /\ Fault
  /\ Go(j, "failing")
  /\ UNCHANGED <<pool, row, file, loop, crashes>>

\* process_audio, whose finally removes the upload: a result, a key that is invalid and
\* deleted, a quota for which the key leaves the list and parking raises (KeyPool), or
\* another error.  Without the upload it raises before it meets Gemini.
AttemptUnlinks(j) ==
  /\ At(j, "attempt")
  /\ Unlink(j)
  /\ key' = [key EXCEPT ![j] = NoKey]
  /\ \/ file[j] /\ Go(j, "billing") /\ UNCHANGED pool
     \/ file[j] /\ Go(j, "cycle") /\ pool' = LRem(pool, key[j])
     \/ file[j] /\ Go(j, "failing") /\ pool' = LRem(pool, key[j])
     \/ Go(j, "failing") /\ UNCHANGED pool
  /\ UNCHANGED <<row, seen, left, faults, crashes>>

\* Mutant: the task starts over after a key that was invalid.
AttemptRestarts(j) ==
  /\ At(j, "attempt")
  /\ Unlink(j)
  /\ key' = [key EXCEPT ![j] = NoKey]
  /\ pool' = LRem(pool, key[j])
  /\ Go(j, "waiting")
  /\ UNCHANGED <<row, seen, left, faults, crashes>>

Attempt(j) == AttemptUnlinks(j)

\* record_gemini_usage_event_sync, which never raises.
Bill(j) ==
  /\ At(j, "billing")
  /\ Go(j, "saving")
  /\ UNCHANGED <<pool, row, file, loop, faults, crashes>>

\* job_save "done"; when it raises, applied or not, the except clause follows.
SaveDone(j) ==
  /\ At(j, "saving")
  /\ \/ NoFault /\ Row(j, "done") /\ Go(j, "clearing")
     \/ Fault /\ Row(j, "done") /\ Go(j, "failing")
     \/ Fault /\ UNCHANGED row /\ Go(j, "failing")
  /\ UNCHANGED <<pool, file, loop, crashes>>

\* job_save "error"; the finally clause follows also when it raises.
SaveError(j) ==
  /\ At(j, "failing")
  /\ \/ NoFault /\ Row(j, "error")
     \/ Fault /\ Row(j, "error")
     \/ Fault /\ UNCHANGED row
  /\ Go(j, "clearing")
  /\ UNCHANGED <<pool, file, loop, crashes>>

\* The finally clause and the end of the semaphore.
Clear(j) ==
  /\ At(j, "clearing")
  /\ Unlink(j)
  /\ Go(j, "ended")
  /\ UNCHANGED <<pool, row, loop, faults, crashes>>

Task(j) == \/ Enter(j) \/ Rotate(j) \/ RotateFails(j) \/ Attempt(j)
           \/ Bill(j) \/ SaveDone(j) \/ SaveError(j) \/ Clear(j)
-----------------------------------------------------------------------------
\* The TTL of the row.
Expire(j) ==
  /\ pc[j] \notin {"new", "filed", "declined"}
  /\ row[j] # "absent"
  /\ Row(j, "absent")
  /\ UNCHANGED <<pool, file, pc, loop, faults, crashes>>

\* A process ends with its requests and tasks.
Crash ==
  /\ crashes < MaxCrashes
  /\ crashes' = crashes + 1
  /\ \E h \in Range(Home) :
       LET S == InsideOf(h) \cup {j \in Jobs : Home[j] = h /\ pc[j] \in {"filed", "waiting"}}
       IN  S # {} /\ pc' = [j \in Jobs |-> IF j \in S THEN "lost" ELSE pc[j]]
  /\ UNCHANGED <<pool, row, file, loop, faults>>

Next == Crash \/ \E j \in Jobs : Request(j) \/ Task(j) \/ Expire(j)

Spec == Init /\ [][Next]_vars

\* The event loop resumes requests and tasks; asyncio.Semaphore serves in turn.
FairSpec == Spec /\ \A j \in Jobs : WF_vars(Request(j)) /\ SF_vars(Task(j))
-----------------------------------------------------------------------------
(* Properties.                                                             *)

\* Every variable has its type; a job holds a key only during an attempt, and no more
\* jobs run than the semaphore has places.
TypeOK ==
  /\ pool \in Seq(Keys)
  /\ row  \in [Jobs -> {"absent", "processing", "done", "error"}]
  /\ file \in [Jobs -> BOOLEAN]
  /\ pc   \in [Jobs -> {"new", "declined", "filed", "failed", "waiting", "cycle", "attempt",
                        "billing", "saving", "failing", "clearing", "ended", "lost"}]
  /\ key  \in [Jobs -> Keys \cup {NoKey}]
  /\ seen \in [Jobs -> SUBSET Keys]
  /\ left \in [Jobs -> 0..Cardinality(Keys)]
  /\ \A j \in Jobs : key[j] # NoKey => At(j, "attempt") \/ At(j, "lost")
  /\ \A j \in Jobs : Cardinality(InsideOf(Home[j])) <= Places

\* No upload stays on disk behind a job that is over, whichever of its steps failed;
\* only the end of the process leaves one.
UploadReleased ==
  \A j \in Jobs : pc[j] \in {"declined", "failed", "ended"} => ~ file[j]

StageOf(j) ==
  CASE pc[j] \in {"new", "filed"} -> "new"
    [] At(j, "waiting") -> "open"
    [] j \in Inside /\ ~ At(j, "clearing") -> "running"
    [] OTHER -> "closed"

Lifecycle == INSTANCE CheckLifecycle WITH stage <- [j \in Jobs |-> StageOf(j)]

\* A recording keeps the promise of a check job: it is transcribed at most once, never
\* after its row was settled, and its row never goes back from a result.
ImplementsLifecycle == Lifecycle!Spec

\* A job whose request was answered settles, however many jobs want a place and however
\* the keys fail, unless a command failed or a process ended.
Settles ==
  \A j \in Jobs :
    At(j, "waiting") ~> (faults = 0 /\ crashes = 0 => row[j] \in {"done", "error"})
=============================================================================
