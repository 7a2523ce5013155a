-------------------------- MODULE MemoryQueue_proofs --------------------------
(***************************************************************************)
(* The safety properties of MemoryQueue and its refinement of              *)
(* CheckLifecycle, for every set of jobs, every number of workers and      *)
(* every depth of the queue.                                               *)
(***************************************************************************)
EXTENDS MemoryQueue, TLAPS

Item == Jobs \cup {Sentinel}
Waiting == {"new", "upload", "saved"}

\* What is queued or held is an accepted job with its files, in one place.
BacklogInv ==
  /\ Len(queue) <= MaxDepth
  /\ \A j \in Jobs : /\ Queued(j) \/ Held(j) => pc[j] = "accepted" /\ files[j]
                     /\ ~ (Queued(j) /\ Held(j))

\* A job is queued once and held once; sentinels are behind all jobs.
OrderInv ==
  /\ \A a, b \in 1..Len(queue) : queue[a] = queue[b] /\ queue[a] # Sentinel => a = b
  /\ \A a, b \in 1..Len(queue) : a <= b /\ queue[a] = Sentinel => queue[b] = Sentinel
  /\ \A v, w \in Workers : wjob[v] = wjob[w] /\ wjob[v] \in Jobs => v = w

\* Sentinels are put by stop_check_queue only, a worker ends when no job is left, and the
\* queue is given up when all have ended.
StopInv ==
  /\ mode = "up" => \A i \in 1..Len(queue) : queue[i] # Sentinel
  /\ (\E w \in Workers : wjob[w] = "ended") =>
       mode # "up" /\ \A i \in 1..Len(queue) : queue[i] = Sentinel
  /\ mode = "stopped" => queue = <<>> /\ \A w \in Workers : wjob[w] = "ended"

\* A job that waits for its handler has no row, and its files once they are saved; an
\* accepted one that is neither queued nor held was executed, and only such a job has a
\* cleanup waiting.
JobInv(j) ==
  /\ pc[j] \in Waiting => row[j] = "absent"
  /\ pc[j] = "saved" => files[j]
  /\ pc[j] = "accepted" /\ ~ Queued(j) /\ ~ Held(j) => row[j] # "processing" /\ ~ files[j]
  /\ timer[j] => pc[j] = "accepted" /\ ~ Queued(j) /\ ~ Held(j)

MInv == /\ TypeOK
        /\ BacklogInv
        /\ OrderInv
        /\ StopInv
        /\ \A j \in Jobs : JobInv(j)

\* put: the item is last, the others keep their places.
LEMMA PutItem ==
  ASSUME TypeOK, NEW e \in Item, queue' = Append(queue, e)
  PROVE  /\ queue' \in Seq(Item) /\ Len(queue) \in Nat
         /\ Len(queue') = Len(queue) + 1
         /\ \A i \in 1..Len(queue) : queue'[i] = queue[i]
         /\ queue'[Len(queue) + 1] = e
         /\ \A k : Queued(k)' <=> (Queued(k) \/ k = e)
  <1>1. queue \in Seq(Item) /\ Len(queue) \in Nat
    BY DEF TypeOK, Item
  <1>2. /\ queue' \in Seq(Item)
        /\ Len(queue') = Len(queue) + 1
        /\ \A i \in 1..Len(queue) : queue'[i] = queue[i]
        /\ queue'[Len(queue) + 1] = e
    BY <1>1
  <1>3. QED
    BY <1>1, <1>2 DEF Queued

\* get: the first item goes, the others move up.
LEMMA GetItem ==
  ASSUME TypeOK, queue # <<>>, queue' = Tail(queue)
  PROVE  /\ queue' \in Seq(Item) /\ Len(queue) \in Nat
         /\ Len(queue) = Len(queue') + 1
         /\ \A i \in 1..Len(queue') : i + 1 \in 1..Len(queue) /\ queue'[i] = queue[i + 1]
         /\ Head(queue) = queue[1] /\ 1 \in 1..Len(queue) /\ Head(queue) \in Item
         /\ \A k : Queued(k) <=> (Queued(k)' \/ k = Head(queue))
  <1>1. /\ queue \in Seq(Item) /\ Len(queue) \in Nat /\ Len(queue) > 0
        /\ Head(queue) = queue[1] /\ queue[1] \in Item
    BY DEF TypeOK, Item
  <1>2. /\ queue' \in Seq(Item)
        /\ Len(queue') = Len(queue) - 1
        /\ \A i \in 1..Len(queue') : queue'[i] = queue[i + 1]
    BY <1>1
  <1>3. ASSUME NEW k, Queued(k) PROVE Queued(k)' \/ k = Head(queue)
    <2>1. PICK i \in 1..Len(queue) : queue[i] = k
      BY <1>3 DEF Queued
    <2>2. CASE i = 1
      BY <1>1, <2>1, <2>2
    <2>3. CASE i # 1
      <3>1. i - 1 \in 1..Len(queue') /\ queue'[i - 1] = k
        BY <1>1, <1>2, <2>1, <2>3
      <3>2. QED
        BY <3>1 DEF Queued
    <2>4. QED
      BY <2>2, <2>3
  <1>4. ASSUME NEW k, Queued(k)' \/ k = Head(queue) PROVE Queued(k)
    <2>1. CASE k = Head(queue)
      BY <1>1, <2>1 DEF Queued
    <2>2. CASE Queued(k)'
      <3>1. PICK i \in 1..Len(queue') : queue'[i] = k
        BY <2>2 DEF Queued
      <3>2. i + 1 \in 1..Len(queue) /\ queue[i + 1] = k
        BY <1>1, <1>2, <3>1
      <3>3. QED
        BY <3>2 DEF Queued
    <2>3. QED
      BY <1>4, <2>1, <2>2
  <1>5. QED
    BY <1>1, <1>2, <1>3, <1>4

LEMMA InitMInv == Init => MInv
  BY ConstantsAssumption
  DEF Init, MInv, TypeOK, BacklogInv, OrderInv, StopInv, JobInv, Queued, Held, Waiting

LEMMA AdmitMInv == ASSUME MInv, NEW j \in Jobs, Admit(j) PROVE MInv'
  <1> USE DEF MInv, Admit
  <1>1. TypeOK' /\ BacklogInv'
    BY DEF TypeOK, BacklogInv, Queued, Held
  <1>2. OrderInv' /\ StopInv' /\ (\A k \in Jobs : JobInv(k))'
    BY DEF TypeOK, OrderInv, StopInv, JobInv, Queued, Held, Waiting
  <1>3. QED
    BY <1>1, <1>2

LEMMA UploadMInv == ASSUME MInv, NEW j \in Jobs, Upload(j) PROVE MInv'
  <1> USE DEF MInv, Upload
  <1>0. ~ Queued(j) /\ ~ Held(j) /\ Len(queue) <= MaxDepth
    BY DEF BacklogInv
  <1>1. TypeOK' /\ BacklogInv'
    <2>1. TypeOK'
      BY DEF TypeOK
    <2>2. \A k \in Jobs : (Queued(k)' <=> Queued(k)) /\ (Held(k)' <=> Held(k))
      BY DEF Queued, Held
    <2>3. \A k \in Jobs \ {j} : pc'[k] = pc[k] /\ files'[k] = files[k]
      BY DEF TypeOK
    <2>4. QED
      BY <1>0, <2>1, <2>2, <2>3 DEF BacklogInv
  <1>2. OrderInv' /\ StopInv' /\ (\A k \in Jobs : JobInv(k))'
    BY DEF TypeOK, OrderInv, StopInv, JobInv, Queued, Held, Waiting
  <1>3. QED
    BY <1>1, <1>2

LEMMA SubmitMInv == ASSUME MInv, NEW j \in Jobs, Submit(j) PROVE MInv'
  <1> USE DEF MInv
  <1>1. /\ pc[j] = "saved" /\ UNCHANGED <<timer, wjob, mode, sent>>
        /\ Enqueue(j) \/ Refuse(j) \/ Break(j)
    BY DEF Submit, SubmitChecked
  <1>2. ~ Queued(j) /\ ~ Held(j) /\ ~ timer[j] /\ j # Sentinel
    BY <1>1, ConstantsAssumption DEF BacklogInv, JobInv
  <1>3. CASE Enqueue(j)
    <2> DEFINE n == Len(queue)
    <2>1. /\ queue' \in Seq(Item) /\ n \in Nat /\ Len(queue') = n + 1
          /\ \A i \in 1..n : queue'[i] = queue[i]
          /\ queue'[n + 1] = j
          /\ \A k : Queued(k)' <=> (Queued(k) \/ k = j)
      BY <1>3, PutItem DEF Enqueue, Item
    <2>2. TypeOK'
      BY <1>1, <1>3, <2>1 DEF TypeOK, Enqueue, Item
    <2>3. BacklogInv'
      <3>1. \A k \in Jobs : (Queued(k)' <=> Queued(k) \/ k = j) /\ (Held(k)' <=> Held(k))
        BY <1>1, <2>1 DEF Held
      <3>2. pc' = [pc EXCEPT ![j] = "accepted"] /\ files' = files /\ n < MaxDepth
        BY <1>3 DEF Enqueue
      <3>3. files[j]
        BY <1>1 DEF JobInv
      <3>4. Len(queue') <= MaxDepth
        BY <2>1, <3>2, ConstantsAssumption
      <3>5. QED
        BY <1>2, <3>1, <3>2, <3>3, <3>4 DEF BacklogInv, TypeOK
    <2>4. \A i \in 1..n : queue[i] # j /\ queue[i] # Sentinel
      BY <1>2, <1>3 DEF Queued, StopInv, Enqueue
    <2>5. OrderInv' /\ StopInv'
      BY <1>1, <1>2, <1>3, <2>1, <2>4 DEF OrderInv, StopInv, Enqueue
    <2>6. (\A k \in Jobs : JobInv(k))'
      BY <1>1, <1>2, <1>3, <2>1 DEF JobInv, TypeOK, Enqueue, Held, Waiting
    <2>7. QED
      BY <2>2, <2>3, <2>5, <2>6
  <1>4. CASE Refuse(j) \/ Break(j)
    <2>1. queue' = queue
      BY <1>4 DEF Refuse, Break
    <2>2. TypeOK'
      BY <1>1, <1>4, <2>1 DEF TypeOK, Refuse, Break
    <2>3. BacklogInv'
      BY <1>1, <1>2, <1>4, <2>1 DEF BacklogInv, TypeOK, Refuse, Break, Queued, Held
    <2>4. OrderInv' /\ StopInv'
      BY <1>1, <2>1 DEF OrderInv, StopInv
    <2>5. \A k \in Jobs \ {j} : JobInv(k)'
      <3>1. \A k \in Jobs \ {j} : /\ pc'[k] = pc[k] /\ row'[k] = row[k] /\ files'[k] = files[k]
                                 /\ timer'[k] = timer[k]
        BY <1>1, <1>4 DEF TypeOK, Refuse, Break
      <3>2. \A k \in Jobs : (Queued(k)' <=> Queued(k)) /\ (Held(k)' <=> Held(k))
        BY <1>1, <2>1 DEF Queued, Held
      <3>3. QED
        BY <3>1, <3>2 DEF JobInv, Waiting
    <2>6. JobInv(j)'
      BY <1>1, <1>2, <1>4, <2>1 DEF JobInv, TypeOK, Refuse, Break, Queued, Held, Waiting
    <2>7. QED
      BY <2>2, <2>3, <2>4, <2>5, <2>6
  <1>5. QED
    BY <1>1, <1>3, <1>4

LEMMA TakeMInv == ASSUME MInv, NEW w \in Workers, Take(w) PROVE MInv'
  <1> USE DEF MInv
  <1>1. /\ wjob[w] = "idle" /\ queue # <<>> /\ queue' = Tail(queue)
        /\ UNCHANGED <<row, files, pc, timer, mode, sent>>
    BY DEF Take, TakeHead
  <1>2. PICK h : h = Head(queue)
    OBVIOUS
  <1>3. wjob' = [wjob EXCEPT ![w] = IF h = Sentinel THEN "ended" ELSE h]
    BY <1>2 DEF Take, TakeHead
  <1>4. /\ queue' \in Seq(Item) /\ Len(queue) \in Nat
        /\ Len(queue) = Len(queue') + 1
        /\ \A i \in 1..Len(queue') : i + 1 \in 1..Len(queue) /\ queue'[i] = queue[i + 1]
        /\ h = queue[1] /\ 1 \in 1..Len(queue) /\ h \in Item
        /\ \A k : Queued(k) <=> (Queued(k)' \/ k = h)
    BY <1>1, <1>2, GetItem
  <1>5. Len(queue') \in Nat
    BY <1>4
  <1>6. h \in Jobs => ~ Queued(h)' /\ pc[h] = "accepted" /\ files[h] /\ ~ Held(h)
    <2>1. ASSUME h \in Jobs, Queued(h)' PROVE FALSE
      <3>1. PICK i \in 1..Len(queue') : queue'[i] = h
        BY <2>1 DEF Queued
      <3>2. i + 1 \in 1..Len(queue) /\ queue[i + 1] = queue[1] /\ queue[1] # Sentinel /\ i + 1 # 1
        BY <1>4, <1>5, <2>1, <3>1, ConstantsAssumption
      <3>3. QED
        BY <3>2, <1>4 DEF OrderInv
    <2>2. QED
      BY <1>4, <2>1 DEF BacklogInv
  <1>7. TypeOK'
    BY <1>1, <1>3, <1>4 DEF TypeOK, Item
  <1>8. \A k \in Jobs : Held(k)' <=> (Held(k) \/ k = h)
    BY <1>1, <1>3, ConstantsAssumption DEF Held, TypeOK
  <1>9. BacklogInv'
    <2>1. Len(queue') <= MaxDepth
      BY <1>4, <1>5, ConstantsAssumption DEF BacklogInv
    <2>2. \A k \in Jobs : /\ Queued(k)' \/ Held(k)' => pc[k] = "accepted" /\ files[k]
                         /\ ~ (Queued(k)' /\ Held(k)')
      BY <1>4, <1>6, <1>8 DEF BacklogInv
    <2>3. QED
      BY <1>1, <2>1, <2>2 DEF BacklogInv
  <1>10. OrderInv'
    <2>1. \A a, b \in 1..Len(queue') : queue'[a] = queue'[b] /\ queue'[a] # Sentinel => a = b
      BY <1>4, <1>5 DEF OrderInv
    <2>2. \A a, b \in 1..Len(queue') : a <= b /\ queue'[a] = Sentinel => queue'[b] = Sentinel
      BY <1>4, <1>5 DEF OrderInv
    <2>3. \A u, v \in Workers : wjob'[u] = wjob'[v] /\ wjob'[u] \in Jobs => u = v
      BY <1>3, <1>4, <1>6, ConstantsAssumption DEF OrderInv, TypeOK, Held, Item
    <2>4. QED
      BY <2>1, <2>2, <2>3 DEF OrderInv
  <1>11. StopInv'
    <2>1. mode' = "up" => \A i \in 1..Len(queue') : queue'[i] # Sentinel
      BY <1>1, <1>4 DEF StopInv
    <2>2. ASSUME \E v \in Workers : wjob'[v] = "ended"
          PROVE  mode' # "up" /\ \A i \in 1..Len(queue') : queue'[i] = Sentinel
      <3>1. CASE h = Sentinel
        <4>1. \A i \in 1..Len(queue') : queue[i + 1] = Sentinel
          <5>1. ASSUME NEW i \in 1..Len(queue')
                PROVE  1 <= i + 1 /\ i + 1 \in 1..Len(queue) /\ queue[1] = Sentinel
            BY <1>4, <1>5, <3>1
          <5>2. QED
            BY <1>4, <5>1 DEF OrderInv
        <4>2. mode # "up"
          BY <1>4, <3>1 DEF StopInv
        <4>3. QED
          BY <1>1, <1>4, <4>1, <4>2
      <3>2. CASE h # Sentinel
        <4>1. \E v \in Workers : wjob[v] = "ended"
          BY <1>3, <1>4, <2>2, <3>2, ConstantsAssumption DEF TypeOK, Item
        <4>2. QED
          BY <1>1, <1>4, <4>1 DEF StopInv
      <3>3. QED
        BY <3>1, <3>2
    <2>3. mode' # "stopped"
      BY <1>1 DEF StopInv
    <2>4. QED
      BY <2>1, <2>2, <2>3 DEF StopInv
  <1>12. (\A k \in Jobs : JobInv(k))'
    BY <1>1, <1>4, <1>6, <1>8 DEF JobInv
  <1>13. QED
    BY <1>7, <1>9, <1>10, <1>11, <1>12

LEMMA FinishMInv == ASSUME MInv, NEW w \in Workers, Finish(w) PROVE MInv'
  <1> USE DEF MInv
  <1>1. PICK j \in Jobs : j = wjob[w]
    BY DEF Finish, FinishJob
  <1>2. /\ \E r \in {"done", "error"} : row' = [row EXCEPT ![j] = r]
        /\ files' = [files EXCEPT ![j] = FALSE]
        /\ timer' = [timer EXCEPT ![j] = TRUE]
        /\ wjob'  = [wjob EXCEPT ![w] = "idle"]
        /\ UNCHANGED <<queue, pc, mode, sent>>
    BY <1>1 DEF Finish, FinishJob
  <1>3. /\ pc[j] = "accepted" /\ ~ Queued(j)
        /\ \A v \in Workers : wjob[v] = j => v = w
    BY <1>1 DEF BacklogInv, OrderInv, Held
  <1>4. TypeOK'
    BY <1>1, <1>2 DEF TypeOK
  <1>5. \A k \in Jobs : Queued(k)' = Queued(k) /\ (Held(k)' <=> (Held(k) /\ k # j))
    BY <1>1, <1>2, <1>3, ConstantsAssumption DEF Queued, Held, TypeOK
  <1>6. BacklogInv'
    <2>1. \A k \in Jobs \ {j} : files'[k] = files[k]
      BY <1>2 DEF TypeOK
    <2>2. QED
      BY <1>2, <1>3, <1>5, <2>1 DEF BacklogInv
  <1>7. OrderInv' /\ StopInv'
    BY <1>1, <1>2, ConstantsAssumption DEF OrderInv, StopInv, TypeOK
  <1>8. (\A k \in Jobs : JobInv(k))'
    BY <1>2, <1>3, <1>5 DEF JobInv, TypeOK, Waiting
  <1>9. QED
    BY <1>4, <1>6, <1>7, <1>8

LEMMA ForgetMInv == ASSUME MInv, NEW j \in Jobs, Forget(j) PROVE MInv'
  <1> USE DEF MInv, Forget
  <1>1. TypeOK' /\ BacklogInv'
    BY DEF TypeOK, BacklogInv, Queued, Held
  <1>2. OrderInv' /\ StopInv' /\ (\A k \in Jobs : JobInv(k))'
    BY DEF TypeOK, OrderInv, StopInv, JobInv, Queued, Held
  <1>3. QED
    BY <1>1, <1>2

LEMMA BeginStopMInv == ASSUME MInv, BeginStop PROVE MInv'
  BY DEF MInv, BeginStop, TypeOK, BacklogInv, OrderInv, StopInv, JobInv, Queued, Held

LEMMA PutSentinelMInv == ASSUME MInv, PutSentinel PROVE MInv'
  <1> USE DEF MInv
  <1> DEFINE n == Len(queue)
  <1>1. /\ mode = "stopping" /\ n < MaxDepth /\ sent' \subseteq Workers
        /\ UNCHANGED <<row, files, pc, timer, wjob, mode>>
    BY DEF PutSentinel, TypeOK
  <1>2. /\ queue' \in Seq(Item) /\ n \in Nat /\ Len(queue') = n + 1
        /\ \A i \in 1..n : queue'[i] = queue[i]
        /\ queue'[n + 1] = Sentinel
        /\ \A k : Queued(k)' <=> (Queued(k) \/ k = Sentinel)
    BY PutItem DEF PutSentinel, Item
  <1>3. \A k \in Jobs : (Queued(k)' <=> Queued(k)) /\ (Held(k)' <=> Held(k))
    BY <1>1, <1>2, ConstantsAssumption DEF Held
  <1>4. TypeOK'
    BY <1>1, <1>2 DEF TypeOK, Item
  <1>5. BacklogInv'
    BY <1>1, <1>2, <1>3, ConstantsAssumption DEF BacklogInv
  <1>6. OrderInv'
    BY <1>1, <1>2 DEF OrderInv
  <1>7. StopInv'
    BY <1>1, <1>2 DEF StopInv
  <1>8. (\A k \in Jobs : JobInv(k))'
    BY <1>1, <1>3 DEF JobInv
  <1>9. QED
    BY <1>4, <1>5, <1>6, <1>7, <1>8

\* No job is left when all workers have ended, so that nothing is lost with the queue.
LEMMA NoneLeft ==
  ASSUME MInv, \A w \in Workers : wjob[w] = "ended", NEW j \in Jobs
  PROVE  ~ Queued(j) /\ ~ Held(j)
  BY ConstantsAssumption DEF MInv, StopInv, Queued, Held

LEMMA EndStopMInv == ASSUME MInv, EndStop PROVE MInv'
  <1> USE DEF MInv
  <1>1. /\ mode = "stopping" /\ mode' = "stopped" /\ queue' = <<>> /\ Len(queue') = 0
        /\ UNCHANGED <<row, files, pc, timer, wjob, sent>>
        /\ \A w \in Workers : wjob[w] = "ended"
    BY DEF EndStop
  <1>2. \A k \in Jobs : ~ Queued(k) /\ ~ Held(k) /\ ~ Queued(k)' /\ ~ Held(k)'
    BY <1>1, NoneLeft DEF Queued, Held
  <1>3. TypeOK'
    BY <1>1 DEF TypeOK
  <1>4. BacklogInv' /\ OrderInv' /\ StopInv' /\ (\A k \in Jobs : JobInv(k))'
    BY <1>1, <1>2, ConstantsAssumption DEF BacklogInv, OrderInv, StopInv, JobInv
  <1>5. QED
    BY <1>3, <1>4

LEMMA NextMInv == MInv /\ [Next]_vars => MInv'
  <1> SUFFICES ASSUME MInv, [Next]_vars PROVE MInv'
    OBVIOUS
  <1>1. ASSUME NEW j \in Jobs, Handler(j) \/ Forget(j) PROVE MInv'
    BY <1>1, AdmitMInv, UploadMInv, SubmitMInv, ForgetMInv DEF Handler
  <1>2. ASSUME NEW w \in Workers, Take(w) \/ Finish(w) PROVE MInv'
    BY <1>2, TakeMInv, FinishMInv
  <1>3. CASE BeginStop \/ Stop
    BY <1>3, BeginStopMInv, PutSentinelMInv, EndStopMInv DEF Stop
  <1>4. CASE UNCHANGED vars
    BY <1>4 DEF vars, MInv, TypeOK, BacklogInv, OrderInv, StopInv, JobInv, Queued, Held
  <1>5. QED
    BY <1>1, <1>2, <1>3, <1>4 DEF Next

LEMMA AlwaysMInv == Spec => []MInv
  BY InitMInv, NextMInv, PTL DEF Spec

\* The variables keep their types: no worker ever takes a sentinel for a job.
THEOREM MemoryTypeCorrect == Spec => []TypeOK
  <1>1. MInv => TypeOK
    BY DEF MInv
  <1>2. QED
    BY <1>1, AlwaysMInv, PTL

\* The queue never exceeds its depth, sentinels included; an accepted job is in it or with
\* a worker as long as its row says "processing" or its files are there, and what is there
\* is an accepted job with its files. The first half is JobInv's, the second BacklogInv.
THEOREM BacklogIsSound == Spec => []BacklogSound
  <1>1. MInv => BacklogSound
    BY DEF MInv, BacklogInv, JobInv, BacklogSound
  <1>2. QED
    BY <1>1, AlwaysMInv, PTL

\* When stop_check_queue has returned, every job that was accepted has been executed.
THEOREM StopLeavesNothing == Spec => []StopDrains
  <1>1. MInv => StopDrains
    BY NoneLeft DEF MInv, StopInv, JobInv, StopDrains
  <1>2. QED
    BY <1>1, AlwaysMInv, PTL
-----------------------------------------------------------------------------
(* The refinement of CheckLifecycle.                                       *)

Stages == [j \in Jobs |-> StageOf(j)]

LEMMA StageValues ==
  ASSUME MInv, NEW j \in Jobs
  PROVE  /\ Held(j) => StageOf(j) = "running"
         /\ Queued(j) => StageOf(j) = "open"
         /\ pc[j] \in Waiting => StageOf(j) = "new"
         /\ pc[j] \notin Waiting /\ ~ Queued(j) /\ ~ Held(j) => StageOf(j) = "closed"
  <1>1. /\ Queued(j) \/ Held(j) => pc[j] = "accepted"
        /\ ~ (Queued(j) /\ Held(j))
    BY DEF MInv, BacklogInv
  <1>2. CASE Held(j)
    BY <1>1, <1>2 DEF StageOf, Waiting
  <1>3. CASE ~ Held(j)
    BY <1>1, <1>3 DEF StageOf, Waiting
  <1>4. QED
    BY <1>2, <1>3

LEMMA NextStageValues ==
  ASSUME MInv', NEW j \in Jobs
  PROVE  /\ Held(j)' => StageOf(j)' = "running"
         /\ Queued(j)' => StageOf(j)' = "open"
         /\ pc'[j] \in Waiting => StageOf(j)' = "new"
         /\ pc'[j] \notin Waiting /\ ~ Queued(j)' /\ ~ Held(j)' => StageOf(j)' = "closed"
  <1>1. /\ Queued(j)' \/ Held(j)' => pc'[j] = "accepted"
        /\ ~ (Queued(j)' /\ Held(j)')
    BY DEF MInv, BacklogInv
  <1>2. CASE Held(j)'
    BY <1>1, <1>2 DEF StageOf, Waiting
  <1>3. CASE ~ Held(j)'
    BY <1>1, <1>3 DEF StageOf, Waiting
  <1>4. QED
    BY <1>2, <1>3

\* A job whose handler, queue entry and worker stay as they are keeps its stage.
LEMMA StageStays ==
  ASSUME MInv, MInv', NEW j \in Jobs, pc'[j] = pc[j],
         Queued(j)' <=> Queued(j), Held(j)' <=> Held(j)
  PROVE  StageOf(j)' = StageOf(j)
  BY StageValues, NextStageValues

LEMMA MapStutter ==
  ASSUME row' = row, \A j \in Jobs : StageOf(j)' = StageOf(j)
  PROVE  UNCHANGED Lifecycle!vars
  BY DEF Lifecycle!vars

\* A step that changes the stage of one job only.
LEMMA OneStage ==
  ASSUME NEW j \in Jobs, NEW s, StageOf(j)' = s,
         \A k \in Jobs \ {j} : StageOf(k)' = StageOf(k)
  PROVE  Stages' = [Stages EXCEPT ![j] = s]
  BY DEF Stages

LEMMA HandlerMaps ==
  ASSUME MInv, MInv', NEW j \in Jobs, Handler(j)
  PROVE  [Lifecycle!Next]_(Lifecycle!vars)
  <1>1. CASE Admit(j) \/ (Upload(j) /\ pc' = [pc EXCEPT ![j] = "saved"])
    <2>1. pc[j] \in Waiting /\ pc'[j] \in Waiting /\ UNCHANGED <<queue, row, wjob>>
      BY <1>1 DEF Admit, Upload, Waiting, MInv, TypeOK
    <2>2. \A k \in Jobs \ {j} : pc'[k] = pc[k]
      BY <1>1 DEF Admit, Upload, MInv, TypeOK
    <2>3. \A k \in Jobs : StageOf(k)' = StageOf(k)
      BY <2>1, <2>2, StageValues, NextStageValues, StageStays DEF Queued, Held
    <2>4. QED
      BY <2>1, <2>3, MapStutter
  <1>2. ASSUME pc[j] \in Waiting, NEW to \in {"declined", "refused", "failed"},
               pc' = [pc EXCEPT ![j] = to], UNCHANGED <<queue, wjob>>,
               NEW r \in {"absent", "processing", "error"}, row' = [row EXCEPT ![j] = r]
        PROVE  Lifecycle!Next
    <2>1. \A k \in Jobs \ {j} : StageOf(k)' = StageOf(k)
      BY <1>2, StageStays DEF Queued, Held, MInv, TypeOK
    <2>2. ~ Queued(j) /\ ~ Held(j) /\ pc'[j] \notin Waiting
      BY <1>2 DEF MInv, BacklogInv, TypeOK, Waiting
    <2>3. StageOf(j) = "new" /\ StageOf(j)' = "closed"
      BY <1>2, <2>2, StageValues, NextStageValues DEF Queued, Held
    <2>4. Lifecycle!Decline(j)
      BY <1>2, <2>1, <2>3, OneStage DEF Lifecycle!Decline, Stages
    <2>5. QED
      BY <2>4 DEF Lifecycle!Next
  <1>3. CASE Upload(j) /\ pc' = [pc EXCEPT ![j] = "declined"]
    <2>1. row[j] = "absent" /\ row' = [row EXCEPT ![j] = "absent"]
      BY <1>3 DEF Upload, MInv, JobInv, Waiting, TypeOK
    <2>2. QED
      BY <1>2, <1>3, <2>1 DEF Upload, Waiting
  <1>4. CASE Submit(j) /\ ~ Enqueue(j)
    <2>1. CASE Refuse(j)
      BY <1>2, <1>4, <2>1 DEF Submit, SubmitChecked, Refuse, Waiting
    <2>2. CASE Break(j)
      BY <1>2, <1>4, <2>2 DEF Submit, SubmitChecked, Break, Waiting
    <2>3. QED
      BY <1>4, <2>1, <2>2 DEF Submit, SubmitChecked
  <1>5. CASE Submit(j) /\ Enqueue(j)
    <2>1. /\ pc[j] \in Waiting /\ pc' = [pc EXCEPT ![j] = "accepted"]
          /\ row' = [row EXCEPT ![j] = "processing"] /\ wjob' = wjob
          /\ \A k \in Jobs : Queued(k)' <=> (Queued(k) \/ k = j)
      BY <1>5, PutItem DEF Submit, SubmitChecked, Enqueue, Waiting, MInv, Item
    <2>2. \A k \in Jobs \ {j} : StageOf(k)' = StageOf(k)
      BY <2>1, StageStays DEF Held, MInv, TypeOK
    <2>3. StageOf(j) = "new" /\ StageOf(j)' = "open"
      BY <2>1, StageValues, NextStageValues
    <2>4. Lifecycle!Open(j)
      BY <2>1, <2>2, <2>3, OneStage DEF Lifecycle!Open, Stages
    <2>5. QED
      BY <2>4 DEF Lifecycle!Next
  <1>6. QED
    BY <1>1, <1>3, <1>4, <1>5 DEF Handler, Upload

LEMMA TakeMaps ==
  ASSUME MInv, MInv', NEW w \in Workers, Take(w)
  PROVE  [Lifecycle!Next]_(Lifecycle!vars)
  <1>1. PICK h : h = Head(queue)
    OBVIOUS
  <1>2. /\ wjob[w] = "idle" /\ UNCHANGED <<row, pc>>
        /\ wjob' = [wjob EXCEPT ![w] = IF h = Sentinel THEN "ended" ELSE h]
        /\ h \in Item
        /\ \A k : Queued(k) <=> (Queued(k)' \/ k = h)
    BY <1>1, GetItem DEF Take, TakeHead, MInv
  <1>3. \A k \in Jobs : Held(k)' <=> (Held(k) \/ k = h)
    BY <1>2, ConstantsAssumption DEF Held, MInv, TypeOK
  <1>4. \A k \in Jobs \ {h} : StageOf(k)' = StageOf(k)
    BY <1>2, <1>3, StageStays
  <1>5. CASE h = Sentinel
    BY <1>2, <1>4, <1>5, MapStutter, ConstantsAssumption
  <1>6. CASE h \in Jobs
    <2>1. StageOf(h) = "open" /\ StageOf(h)' = "running"
      BY <1>2, <1>3, <1>6, StageValues, NextStageValues
    <2>2. Lifecycle!Take(h)
      BY <1>2, <1>4, <1>6, <2>1, OneStage DEF Lifecycle!Take, Stages
    <2>3. QED
      BY <1>6, <2>2 DEF Lifecycle!Next
  <1>7. QED
    BY <1>2, <1>5, <1>6 DEF Item

LEMMA FinishMaps ==
  ASSUME MInv, MInv', NEW w \in Workers, Finish(w)
  PROVE  Lifecycle!Next
  <1>1. PICK j \in Jobs : j = wjob[w]
    BY DEF Finish, FinishJob
  <1>2. PICK r \in {"done", "error"} : row' = [row EXCEPT ![j] = r]
    BY <1>1 DEF Finish, FinishJob
  <1>3. /\ UNCHANGED <<queue, pc>> /\ wjob' = [wjob EXCEPT ![w] = "idle"]
        /\ pc[j] = "accepted" /\ ~ Queued(j) /\ Held(j)
        /\ \A v \in Workers : wjob[v] = j => v = w
    BY <1>1 DEF Finish, FinishJob, MInv, BacklogInv, OrderInv, Held
  <1>4. \A k \in Jobs : (Queued(k)' <=> Queued(k)) /\ (Held(k)' <=> (Held(k) /\ k # j))
    BY <1>1, <1>3, ConstantsAssumption DEF Queued, Held, MInv, TypeOK
  <1>5. StageOf(j) = "running" /\ StageOf(j)' = "closed"
    BY <1>3, <1>4, StageValues, NextStageValues DEF Waiting
  <1>6. \A k \in Jobs \ {j} : StageOf(k)' = StageOf(k)
    BY <1>3, <1>4, StageStays
  <1>7. Lifecycle!Finish(j)
    BY <1>2, <1>5, <1>6, OneStage DEF Lifecycle!Finish, Lifecycle!Settled, Stages
  <1>8. QED
    BY <1>7 DEF Lifecycle!Next

LEMMA ForgetMaps ==
  ASSUME MInv, MInv', NEW j \in Jobs, Forget(j)
  PROVE  Lifecycle!Next
  <1>1. StageOf(j) = "closed"
    BY StageValues DEF Forget, MInv, JobInv, Waiting
  <1>2. \A k \in Jobs : StageOf(k)' = StageOf(k)
    BY StageStays DEF Forget, Queued, Held
  <1>3. Lifecycle!Expire(j)
    BY <1>1, <1>2 DEF Lifecycle!Expire, Forget
  <1>4. QED
    BY <1>3 DEF Lifecycle!Next

\* stop_check_queue touches no job.
LEMMA StopMaps ==
  ASSUME MInv, MInv', BeginStop \/ Stop
  PROVE  UNCHANGED Lifecycle!vars
  <1>1. UNCHANGED <<row, pc, wjob>>
    BY DEF BeginStop, Stop, PutSentinel, EndStop
  <1>2. \A k \in Jobs : Queued(k)' <=> Queued(k)
    <2>1. CASE BeginStop
      BY <2>1 DEF BeginStop, Queued
    <2>2. CASE PutSentinel
      BY <2>2, PutItem, ConstantsAssumption DEF PutSentinel, Item, MInv
    <2>3. CASE EndStop
      <3>1. queue' = <<>> /\ Len(queue') = 0 /\ \A w \in Workers : wjob[w] = "ended"
        BY <2>3 DEF EndStop
      <3>2. QED
        BY <3>1, NoneLeft DEF Queued
    <2>4. QED
      BY <2>1, <2>2, <2>3 DEF Stop
  <1>3. \A k \in Jobs : StageOf(k)' = StageOf(k)
    BY <1>1, <1>2, StageStays DEF Held
  <1>4. QED
    BY <1>1, <1>3, MapStutter

LEMMA InitMaps == Init => Lifecycle!Init
  <1> SUFFICES ASSUME Init PROVE Lifecycle!Init
    OBVIOUS
  <1>1. \A j \in Jobs : StageOf(j) = "new"
    BY InitMInv, StageValues DEF Init, Waiting
  <1>2. QED
    BY <1>1 DEF Init, Lifecycle!Init

LEMMA NextMaps == MInv /\ MInv' /\ [Next]_vars => [Lifecycle!Next]_(Lifecycle!vars)
  <1> SUFFICES ASSUME MInv, MInv', [Next]_vars PROVE [Lifecycle!Next]_(Lifecycle!vars)
    OBVIOUS
  <1>1. CASE UNCHANGED vars
    BY <1>1, StageStays, MapStutter DEF vars, Queued, Held
  <1>2. QED
    BY <1>1, HandlerMaps, TakeMaps, FinishMaps, ForgetMaps, StopMaps DEF Next

\* The queue in memory keeps the promise the shared queue keeps: what a client may observe of
\* a job does not depend on which of them serves it.
THEOREM MemoryKeepsLifecycle == Spec => ImplementsLifecycle
  BY InitMaps, NextMaps, AlwaysMInv, PTL DEF Spec, ImplementsLifecycle, Lifecycle!Spec
=============================================================================
