-------------------------- MODULE CheckJobs_proofs --------------------------
(***************************************************************************)
(* Type correctness and the safety invariants of CheckJobs, for every set  *)
(* of jobs, processes and workers, every placement of the workers, every   *)
(* depth of the queue and any number of faults, stops and crashes.         *)
(***************************************************************************)
EXTENDS CheckJobs, TLAPS

\* What a step may rely on beside the invariants the runs check: a job that was not yet
\* opened has no row, the files a handler saved are there until it ends, and a
\* process that is not up has no worker left.
Early(j) ==
  /\ pc[j] = "new" => row[j] = "absent"
  /\ pc[j] = "large" => Needs(j) \ {"small"} \subseteq files[j]
  /\ pc[j] \in {"saved", "rowed", "checked"} => Needs(j) \subseteq files[j]

WorkersFollow == \A w \in Workers : proc[Home[w]] # "up" => wpc[w] = "stopped"

IInv == /\ TypeOK
        /\ OnePlace
        /\ InputsPresent
        /\ SettledIsOver
        /\ \A j \in Jobs : Early(j)
        /\ WorkersFollow

\* The list after LPUSH holds the pushed job and what it held before.
LEMMA PushQueued ==
  ASSUME TypeOK, NEW j \in Jobs, queue' = Append(queue, j)
  PROVE  /\ queue' \in Seq(Jobs)
         /\ Len(queue') = Len(queue) + 1
         /\ \A i \in 1..Len(queue) : queue'[i] = queue[i]
         /\ queue'[Len(queue) + 1] = j
         /\ \A k : Queued(k)' <=> (Queued(k) \/ k = j)
  <1>1. queue \in Seq(Jobs) /\ Len(queue) \in Nat
    BY DEF TypeOK
  <1>2. /\ queue' \in Seq(Jobs)
        /\ Len(queue') = Len(queue) + 1
        /\ \A i \in 1..Len(queue) : queue'[i] = queue[i]
        /\ queue'[Len(queue) + 1] = j
    BY <1>1
  <1>3. QED
    BY <1>1, <1>2 DEF Queued

\* The list after BRPOP lost its head and nothing else.
LEMMA PopQueued ==
  ASSUME TypeOK, OnePlace, queue # <<>>, queue' = Tail(queue)
  PROVE  /\ queue' \in Seq(Jobs)
         /\ Head(queue) \in Jobs
         /\ Queued(Head(queue))
         /\ \A a, b \in 1..Len(queue') : queue'[a] = queue'[b] => a = b
         /\ \A k : Queued(k)' <=> (Queued(k) /\ k # Head(queue))
  <1>1. /\ queue \in Seq(Jobs) /\ Len(queue) \in Nat /\ Len(queue) > 0
        /\ Head(queue) = queue[1] /\ queue[1] \in Jobs
    BY DEF TypeOK
  <1>2. /\ queue' \in Seq(Jobs)
        /\ Len(queue') = Len(queue) - 1
        /\ \A i \in 1..Len(queue') : queue'[i] = queue[i + 1]
    BY <1>1
  <1>3. \A a, b \in 1..Len(queue) : queue[a] = queue[b] => a = b
    BY DEF OnePlace
  <1>4. Queued(Head(queue))
    BY <1>1 DEF Queued
  <1>5. \A a, b \in 1..Len(queue') : queue'[a] = queue'[b] => a = b
    <2> SUFFICES ASSUME NEW a \in 1..Len(queue'), NEW b \in 1..Len(queue'),
                        queue'[a] = queue'[b]
                 PROVE  a = b
      OBVIOUS
    <2>1. /\ a + 1 \in 1..Len(queue) /\ b + 1 \in 1..Len(queue)
          /\ queue[a + 1] = queue[b + 1]
      BY <1>1, <1>2
    <2>2. QED
      BY <2>1, <1>3, <1>1, <1>2
  <1>6. ASSUME NEW k
        PROVE  Queued(k)' <=> (Queued(k) /\ k # Head(queue))
    <2>1. ASSUME Queued(k)'
          PROVE  Queued(k) /\ k # Head(queue)
      <3>1. PICK i \in 1..Len(queue') : queue'[i] = k
        BY <2>1 DEF Queued
      <3>2. i + 1 \in 1..Len(queue) /\ queue[i + 1] = k /\ i + 1 # 1 /\ 1 \in 1..Len(queue)
        BY <3>1, <1>1, <1>2
      <3>3. QED
        BY <3>2, <1>1, <1>3 DEF Queued
    <2>2. ASSUME Queued(k), k # Head(queue)
          PROVE  Queued(k)'
      <3>1. PICK i \in 1..Len(queue) : queue[i] = k
        BY <2>2 DEF Queued
      <3>2. i - 1 \in 1..Len(queue') /\ queue'[i - 1] = k
        BY <3>1, <2>2, <1>1, <1>2
      <3>3. QED
        BY <3>2 DEF Queued
    <2>3. QED
      BY <2>1, <2>2
  <1>7. QED
    BY <1>1, <1>2, <1>4, <1>5, <1>6

\* The saves that reach Redis while a process ends only touch rows of jobs that one of
\* its workers was about to settle.
LEMMA RowsAfterTypes ==
  ASSUME TypeOK, NEW p \in Procs, NEW S \in SUBSET Saving(p)
  PROVE  /\ RowsAfter(S) \in [Jobs -> Rows]
         /\ \A j \in Jobs : \/ RowsAfter(S)[j] = row[j]
                            \/ \E w \in S : wjob[w] = j
  <1>1. ASSUME NEW j \in Jobs
        PROVE  /\ RowsAfter(S)[j] \in Rows
               /\ \/ RowsAfter(S)[j] = row[j]
                  \/ \E w \in S : wjob[w] = j
    BY <1>1 DEF RowsAfter, TypeOK, Rows
  <1>2. QED
    BY <1>1 DEF RowsAfter

LEMMA InitIInv == Init => IInv
  BY ConstantsAssumption
  DEF Init, IInv, TypeOK, OnePlace, InputsPresent, SettledIsOver, Early, WorkersFollow,
      Queued, Rows, Settled, File, InFlight, Answered, Holding, WorkerAt, Needs

LEMMA AdmitIInv == ASSUME IInv, NEW j \in Jobs, Admit(j) PROVE IInv'
  <1> USE DEF IInv, Admit, Goes, Fault
  <1>1. TypeOK'
    BY DEF TypeOK, Rows, File, InFlight, Answered, Needs
  <1>2. OnePlace'
    BY DEF OnePlace, TypeOK, Queued, InFlight, Answered
  <1>3. InputsPresent'
    BY DEF InputsPresent, OnePlace, TypeOK, Queued, InFlight, Answered, Holding, Needs, File
  <1>4. SettledIsOver'
    BY DEF SettledIsOver, OnePlace, TypeOK, Queued, InFlight, Answered, Settled, Early
  <1>5. (\A k \in Jobs : Early(k))'
    BY DEF Early, SettledIsOver, TypeOK, Settled, Needs, File, InFlight
  <1>6. WorkersFollow'
    BY DEF WorkersFollow
  <1>7. QED
    BY <1>1, <1>2, <1>3, <1>4, <1>5, <1>6

LEMMA SaveLargeIInv == ASSUME IInv, NEW j \in Jobs, SaveLarge(j) PROVE IInv'
  <1> USE DEF IInv, SaveLarge, Goes
  <1>1. TypeOK'
    BY DEF TypeOK, Rows, File, InFlight, Answered, Needs
  <1>2. OnePlace'
    BY DEF OnePlace, TypeOK, Queued, InFlight, Answered
  <1>3. InputsPresent'
    BY DEF InputsPresent, OnePlace, TypeOK, Queued, InFlight, Answered, Holding, Needs, File
  <1>4. SettledIsOver'
    BY DEF SettledIsOver, OnePlace, TypeOK, Queued, InFlight, Answered, Settled, Early
  <1>5. (\A k \in Jobs : Early(k))'
    BY DEF Early, SettledIsOver, TypeOK, Settled, Needs, File, InFlight
  <1>6. WorkersFollow'
    BY DEF WorkersFollow
  <1>7. QED
    BY <1>1, <1>2, <1>3, <1>4, <1>5, <1>6

LEMMA SaveSmallIInv == ASSUME IInv, NEW j \in Jobs, SaveSmall(j) PROVE IInv'
  <1> USE DEF IInv, SaveSmall, Goes
  <1>1. TypeOK'
    BY DEF TypeOK, Rows, File, InFlight, Answered, Needs
  <1>2. OnePlace'
    BY DEF OnePlace, TypeOK, Queued, InFlight, Answered
  <1>3. InputsPresent'
    BY DEF InputsPresent, OnePlace, TypeOK, Queued, InFlight, Answered, Holding, Needs, File
  <1>4. SettledIsOver'
    BY DEF SettledIsOver, OnePlace, TypeOK, Queued, InFlight, Answered, Settled, Early
  <1>5. (\A k \in Jobs : Early(k))'
    BY DEF Early, SettledIsOver, TypeOK, Settled, Needs, File, InFlight
  <1>6. WorkersFollow'
    BY DEF WorkersFollow
  <1>7. QED
    BY <1>1, <1>2, <1>3, <1>4, <1>5, <1>6

LEMMA SaveRowIInv == ASSUME IInv, NEW j \in Jobs, SaveRow(j) PROVE IInv'
  <1> USE DEF IInv, SaveRow, Goes, Fault
  <1>1. TypeOK'
    BY DEF TypeOK, Rows, File, InFlight, Answered, Needs
  <1>2. OnePlace'
    BY DEF OnePlace, TypeOK, Queued, InFlight, Answered
  <1>3. InputsPresent'
    BY DEF InputsPresent, OnePlace, TypeOK, Queued, InFlight, Answered, Holding, Needs, File
  <1>4. SettledIsOver'
    BY DEF SettledIsOver, OnePlace, TypeOK, Queued, InFlight, Answered, Settled, Early
  <1>5. (\A k \in Jobs : Early(k))'
    BY DEF Early, SettledIsOver, TypeOK, Settled, Needs, File, InFlight
  <1>6. WorkersFollow'
    BY DEF WorkersFollow
  <1>7. QED
    BY <1>1, <1>2, <1>3, <1>4, <1>5, <1>6

LEMMA CheckDepthIInv == ASSUME IInv, NEW j \in Jobs, CheckDepth(j) PROVE IInv'
  <1> USE DEF IInv, CheckDepth, Goes, Fault
  <1>1. TypeOK'
    BY DEF TypeOK, Rows, File, InFlight, Answered, Needs
  <1>2. OnePlace'
    BY DEF OnePlace, TypeOK, Queued, InFlight, Answered
  <1>3. InputsPresent'
    BY DEF InputsPresent, OnePlace, TypeOK, Queued, InFlight, Answered, Holding, Needs, File
  <1>4. SettledIsOver'
    BY DEF SettledIsOver, OnePlace, TypeOK, Queued, InFlight, Answered, Settled, Early
  <1>5. (\A k \in Jobs : Early(k))'
    BY DEF Early, SettledIsOver, TypeOK, Settled, Needs, File, InFlight
  <1>6. WorkersFollow'
    BY DEF WorkersFollow
  <1>7. QED
    BY <1>1, <1>2, <1>3, <1>4, <1>5, <1>6

LEMMA RefuseIInv == ASSUME IInv, NEW j \in Jobs, Refuse(j) PROVE IInv'
  <1>1. TypeOK'
    <2>1. TypeOK
      BY DEF IInv
    <2>2. row' \in [Jobs -> Rows]
      BY <2>1 DEF Refuse, TypeOK, Rows
    <2>3. files' \in [Jobs -> SUBSET File] /\ faults' \in Nat
      BY <2>1 DEF Refuse, Fault, TypeOK
    <2>4. pc' \in [Jobs -> InFlight \cup Answered \cup {"new"}]
      BY <2>1 DEF Refuse, Goes, TypeOK, Answered
    <2>5. QED
      BY <2>1, <2>2, <2>3, <2>4 DEF Refuse, TypeOK
  <1> USE DEF IInv, Refuse, Goes, Fault
  <1>2. OnePlace'
    BY DEF OnePlace, TypeOK, Queued, InFlight, Answered
  <1>3. InputsPresent'
    BY DEF InputsPresent, OnePlace, TypeOK, Queued, InFlight, Answered, Holding, Needs, File
  <1>4. SettledIsOver'
    BY DEF SettledIsOver, OnePlace, TypeOK, Queued, InFlight, Answered, Settled, Early
  <1>5. (\A k \in Jobs : Early(k))'
    BY DEF Early, SettledIsOver, TypeOK, Settled, Needs, File, InFlight
  <1>6. WorkersFollow'
    BY DEF WorkersFollow
  <1>7. QED
    BY <1>1, <1>2, <1>3, <1>4, <1>5, <1>6

LEMMA PushIInv == ASSUME IInv, NEW j \in Jobs, Push(j) PROVE IInv'
  <1> USE DEF IInv, Goes, Fault
  <1>1. /\ pc[j] = "checked"
        /\ \E to \in Answered : pc' = [pc EXCEPT ![j] = to]
        /\ UNCHANGED <<row, files, wpc, wjob, proc, ends>>
        /\ faults' \in Nat
        /\ queue' = Append(queue, j) \/ queue' = queue
    BY DEF Push, PushUnchecked, TypeOK, Answered
  <1>2. ~ Queued(j) /\ \A w \in Workers : wjob[w] # j
    BY <1>1 DEF OnePlace, InFlight, Answered
  <1>3. CASE queue' = queue
    <2>1. TypeOK'
      BY <1>1, <1>3 DEF TypeOK
    <2>2. OnePlace' /\ InputsPresent' /\ SettledIsOver'
      BY <1>1, <1>2, <1>3 DEF OnePlace, InputsPresent, SettledIsOver, TypeOK, Queued,
           InFlight, Answered
    <2>3. (\A k \in Jobs : Early(k))' /\ WorkersFollow'
      BY <1>1 DEF Early, WorkersFollow, TypeOK, Answered
    <2>4. QED
      BY <2>1, <2>2, <2>3
  <1>4. CASE queue' = Append(queue, j)
    <2> DEFINE n == Len(queue)
    <2>1. /\ queue' \in Seq(Jobs)
          /\ Len(queue') = n + 1
          /\ \A i \in 1..n : queue'[i] = queue[i]
          /\ queue'[n + 1] = j
      BY <1>4, PushQueued
    <2>2. \A k : Queued(k)' <=> (Queued(k) \/ k = j)
      BY <1>4, PushQueued
    <2>3. TypeOK'
      BY <1>1, <2>1 DEF TypeOK
    <2>4. \A a, b \in 1..Len(queue') : queue'[a] = queue'[b] => a = b
      <3>1. n \in Nat /\ \A a \in 1..n : queue[a] # j
        BY <1>2 DEF TypeOK, Queued
      <3>2. QED
        BY <2>1, <3>1 DEF OnePlace
    <2>5. OnePlace'
      BY <1>1, <1>2, <2>2, <2>4 DEF OnePlace, TypeOK, Answered
    <2>6. InputsPresent'
      BY <1>1, <2>2 DEF InputsPresent, Early, Needs
    <2>7. SettledIsOver'
      BY <1>1, <2>2 DEF SettledIsOver, TypeOK, InFlight, Answered
    <2>8. (\A k \in Jobs : Early(k))' /\ WorkersFollow'
      BY <1>1 DEF Early, WorkersFollow, TypeOK, Answered
    <2>9. QED
      BY <2>3, <2>5, <2>6, <2>7, <2>8
  <1>5. QED
    BY <1>1, <1>3, <1>4

LEMMA PopIInv == ASSUME IInv, NEW w \in Workers, Pop(w) PROVE IInv'
  <1> USE DEF IInv, Fault
  <1> DEFINE h == Head(queue)
  <1>1. /\ wpc[w] = "idle"
        /\ UNCHANGED <<row, files, pc, proc, ends>>
        /\ faults' \in Nat
        /\ \/ wpc' = [wpc EXCEPT ![w] = "handed"] /\ wjob' = [wjob EXCEPT ![w] = h]
           \/ UNCHANGED <<wpc, wjob>>
    BY DEF Pop, PopOnce, TypeOK
  <1>2. /\ queue' \in Seq(Jobs)
        /\ h \in Jobs
        /\ Queued(h)
        /\ \A a, b \in 1..Len(queue') : queue'[a] = queue'[b] => a = b
        /\ \A k : Queued(k)' <=> (Queued(k) /\ k # h)
    BY PopQueued DEF Pop, PopOnce
  <1>3. /\ \A v \in Workers : wjob[v] # h
        /\ pc[h] \in Answered
        /\ row[h] \notin Settled
        /\ Needs(h) \subseteq files[h]
    BY <1>2, ConstantsAssumption DEF OnePlace, SettledIsOver, InputsPresent
  <1>4. TypeOK'
    BY <1>1, <1>2, ConstantsAssumption DEF TypeOK, WorkerAt, Holding
  <1>5. OnePlace'
    BY <1>1, <1>2, <1>3 DEF OnePlace, TypeOK
  <1>6. InputsPresent'
    BY <1>1, <1>2, <1>3 DEF InputsPresent, TypeOK, Needs
  <1>7. SettledIsOver'
    BY <1>1, <1>2, <1>3 DEF SettledIsOver, TypeOK
  <1>8. (\A k \in Jobs : Early(k))' /\ WorkersFollow'
    BY <1>1 DEF Early, WorkersFollow, TypeOK, Pop, PopOnce
  <1>9. QED
    BY <1>4, <1>5, <1>6, <1>7, <1>8

LEMMA LoadIInv == ASSUME IInv, NEW w \in Workers, Load(w) PROVE IInv'
  <1> USE DEF IInv, Load, LoadFiles
  <1>1. wjob[w] \in Jobs /\ ~ Queued(wjob[w]) /\ pc[wjob[w]] \in Answered
    BY DEF TypeOK, OnePlace, Holding
  <1>2. TypeOK'
    BY <1>1, ConstantsAssumption DEF TypeOK, WorkerAt, Holding, Rows
  <1>3. OnePlace'
    BY <1>1, ConstantsAssumption DEF OnePlace, TypeOK, Queued
  <1>4. InputsPresent'
    BY <1>1, ConstantsAssumption DEF InputsPresent, OnePlace, TypeOK, Queued, Holding, Needs
  <1>5. SettledIsOver'
    BY <1>1, ConstantsAssumption
    DEF SettledIsOver, OnePlace, TypeOK, Queued, InFlight, Answered, Settled, Holding
  <1>6. (\A k \in Jobs : Early(k))'
    BY <1>1 DEF Early, TypeOK, Answered, Settled
  <1>7. WorkersFollow'
    BY DEF WorkersFollow, TypeOK
  <1>8. QED
    BY <1>2, <1>3, <1>4, <1>5, <1>6, <1>7

LEMMA ComputeIInv == ASSUME IInv, NEW w \in Workers, Compute(w) PROVE IInv'
  <1> USE DEF IInv, Compute
  <1>1. wjob[w] \in Jobs /\ ~ Queued(wjob[w]) /\ pc[wjob[w]] \in Answered
    BY DEF TypeOK, OnePlace, Holding
  <1>2. TypeOK'
    BY <1>1, ConstantsAssumption DEF TypeOK, WorkerAt, Holding, Rows
  <1>3. OnePlace'
    BY <1>1, ConstantsAssumption DEF OnePlace, TypeOK, Queued
  <1>4. InputsPresent'
    BY <1>1, ConstantsAssumption DEF InputsPresent, OnePlace, TypeOK, Queued, Holding, Needs
  <1>5. SettledIsOver'
    BY <1>1, ConstantsAssumption
    DEF SettledIsOver, OnePlace, TypeOK, Queued, InFlight, Answered, Settled, Holding
  <1>6. (\A k \in Jobs : Early(k))'
    BY <1>1 DEF Early, TypeOK, Answered, Settled
  <1>7. WorkersFollow'
    BY DEF WorkersFollow, TypeOK
  <1>8. QED
    BY <1>2, <1>3, <1>4, <1>5, <1>6, <1>7

LEMMA SaveDoneIInv == ASSUME IInv, NEW w \in Workers, SaveDone(w) PROVE IInv'
  <1> USE DEF IInv, SaveDone, Release, Fault
  <1>1. wjob[w] \in Jobs /\ ~ Queued(wjob[w]) /\ pc[wjob[w]] \in Answered
    BY DEF TypeOK, OnePlace, Holding
  <1>2. TypeOK'
    <2>1. row' \in [Jobs -> Rows] /\ files' \in [Jobs -> SUBSET File] /\ faults' \in Nat
      BY <1>1 DEF TypeOK, Rows
    <2>2. /\ wpc' \in [Workers -> WorkerAt]
          /\ wjob' \in [Workers -> Jobs \cup {NoJob}]
      BY DEF TypeOK, WorkerAt, Holding
    <2>3. \A v \in Workers : wpc'[v] \in Holding <=> wjob'[v] # NoJob
      BY <1>1, ConstantsAssumption DEF TypeOK, Holding
    <2>4. QED
      BY <2>1, <2>2, <2>3 DEF TypeOK
  <1>3. OnePlace'
    <2>1. /\ queue' = queue /\ pc' = pc
          /\ \A v \in Workers : wjob'[v] = wjob[v] \/ wjob'[v] = NoJob
      BY DEF TypeOK
    <2>2. OnePlace
      OBVIOUS
    <2> HIDE DEF IInv, SaveDone
    <2>3. QED
      BY <2>1, <2>2, ConstantsAssumption DEF OnePlace, Queued
  <1>4. InputsPresent'
    BY <1>1, ConstantsAssumption DEF InputsPresent, OnePlace, TypeOK, Queued, Holding, Needs
  <1>5. SettledIsOver'
    BY <1>1, ConstantsAssumption
    DEF SettledIsOver, OnePlace, TypeOK, Queued, InFlight, Answered, Settled, Holding
  <1>6. (\A k \in Jobs : Early(k))'
    BY <1>1 DEF Early, TypeOK, Answered, Settled
  <1>7. WorkersFollow'
    BY DEF WorkersFollow, TypeOK
  <1>8. QED
    BY <1>2, <1>3, <1>4, <1>5, <1>6, <1>7

LEMMA SaveErrorIInv == ASSUME IInv, NEW w \in Workers, SaveError(w) PROVE IInv'
  <1> USE DEF IInv, SaveError, SaveErrorThenPoll, Release, Fault
  <1>1. wjob[w] \in Jobs /\ ~ Queued(wjob[w]) /\ pc[wjob[w]] \in Answered
    BY DEF TypeOK, OnePlace, Holding
  <1>2. TypeOK'
    BY <1>1, ConstantsAssumption DEF TypeOK, WorkerAt, Holding, Rows
  <1>3. OnePlace'
    BY <1>1, ConstantsAssumption DEF OnePlace, TypeOK, Queued
  <1>4. InputsPresent'
    <2>1. /\ queue' = queue
          /\ files' = [files EXCEPT ![wjob[w]] = {}]
          /\ wpc' = [wpc EXCEPT ![w] = "idle"]
          /\ wjob' = [wjob EXCEPT ![w] = NoJob]
      OBVIOUS
    <2>2. \A k \in Jobs : Queued(k) => files'[k] = files[k]
      BY <1>1, <2>1 DEF TypeOK
    <2>3. \A v \in Workers : wpc'[v] \in Holding =>
             /\ wpc[v] \in Holding
             /\ wjob'[v] = wjob[v]
             /\ files'[wjob[v]] = files[wjob[v]]
      BY <1>1, <2>1 DEF TypeOK, OnePlace, Holding
    <2>4. InputsPresent /\ (\A k : Queued(k)' <=> Queued(k))
      BY <2>1 DEF Queued
    <2>5. ASSUME NEW v \in Workers, wpc'[v] \in Holding
          PROVE  Needs(wjob'[v]) \subseteq files'[wjob'[v]]
      <3>1. wpc[v] \in Holding /\ wjob'[v] = wjob[v] /\ files'[wjob[v]] = files[wjob[v]]
        BY <2>3, <2>5
      <3>2. Needs(wjob[v]) \subseteq files[wjob[v]]
        BY <2>4, <3>1 DEF InputsPresent
      <3>3. QED
        BY ONLY <3>1, <3>2
    <2>6. QED
      BY ONLY <2>2, <2>4, <2>5 DEF InputsPresent, Needs
  <1>5. SettledIsOver'
    BY <1>1, ConstantsAssumption
    DEF SettledIsOver, OnePlace, TypeOK, Queued, InFlight, Answered, Settled, Holding
  <1>6. (\A k \in Jobs : Early(k))'
    BY <1>1 DEF Early, TypeOK, Answered, Settled
  <1>7. WorkersFollow'
    BY DEF WorkersFollow, TypeOK
  <1>8. QED
    BY <1>2, <1>3, <1>4, <1>5, <1>6, <1>7

\* What the end of a process does to its workers, with the rows and files it leaves.
LEMMA EndKeeps ==
  ASSUME IInv, NEW p \in Procs, WorkersEnd(p), UNCHANGED queue,
         NEW S \in SUBSET Saving(p), row' = RowsAfter(S),
         pc' \in [Jobs -> InFlight \cup Answered \cup {"new"}],
         \A j \in Jobs : pc'[j] = pc[j] \/ pc'[j] = "cut",
         files' \in [Jobs -> SUBSET File],
         \A j \in Jobs : \/ files'[j] = files[j]
                         \/ \E w \in Of(p) : wjob[w] = j /\ wpc[w] \in Holding
  PROVE  OnePlace' /\ InputsPresent' /\ SettledIsOver' /\ (\A j \in Jobs : Early(j))'
  <1> USE DEF IInv, WorkersEnd
  <1>1. /\ wjob' = [w \in Workers |-> IF w \in Of(p) THEN NoJob ELSE wjob[w]]
        /\ wpc'  = [w \in Workers |-> IF w \in Of(p) THEN "stopped" ELSE wpc[w]]
        /\ \A j : Queued(j)' <=> Queued(j)
    BY DEF Queued
  <1>2. \A j \in Jobs : row'[j] = row[j] \/ \E w \in Of(p) : wjob[w] = j /\ wpc[w] \in Holding
    BY RowsAfterTypes DEF Saving, Holding
  <1>3. \A j \in Jobs : (\E w \in Of(p) : wjob[w] = j /\ wpc[w] \in Holding) =>
           /\ ~ Queued(j)
           /\ pc[j] \in Answered
           /\ \A v \in Workers : wjob'[v] # j
    BY <1>1, ConstantsAssumption DEF OnePlace, TypeOK, Of
  <1>4. OnePlace'
    BY <1>1, ConstantsAssumption DEF OnePlace, TypeOK, Answered
  <1>5. InputsPresent'
    <2>1. \A v \in Workers : wpc'[v] \in Holding =>
            wpc[v] \in Holding /\ wjob'[v] = wjob[v] /\ wjob[v] \in Jobs
      BY <1>1 DEF Holding, TypeOK
    <2>2. QED
      BY <1>1, <1>3, <2>1 DEF InputsPresent, Needs
  <1>6. SettledIsOver'
    <2>1. \A v \in Workers, j \in Jobs : wjob'[v] = j => wjob[v] = j /\ wpc'[v] = wpc[v]
      BY <1>1, ConstantsAssumption
    <2>2. ASSUME NEW j \in Jobs, row'[j] \in Settled
          PROVE  /\ ~ Queued(j)
                 /\ pc'[j] \notin InFlight \ {"full"}
                 /\ \A v \in Workers : wjob'[v] = j => wpc'[v] = "saveError"
      <3>1. CASE row'[j] = row[j]
        BY <2>1, <2>2, <3>1 DEF SettledIsOver, InFlight
      <3>2. CASE row'[j] # row[j]
        BY <1>2, <1>3, <3>2 DEF InFlight, Answered
      <3>3. QED
        BY <3>1, <3>2
    <2>3. QED
      BY <1>1, <2>2 DEF SettledIsOver
  <1>7. (\A j \in Jobs : Early(j))'
    <2>1. ASSUME NEW j \in Jobs PROVE Early(j)'
      <3>1. CASE \E w \in Of(p) : wjob[w] = j /\ wpc[w] \in Holding
        BY <1>3, <3>1 DEF Early, Answered
      <3>2. CASE row'[j] = row[j] /\ files'[j] = files[j]
        BY <3>2 DEF Early, Needs
      <3>3. QED
        BY <1>2, <3>1, <3>2
    <2>2. QED
      BY <2>1
  <1>8. QED
    BY <1>4, <1>5, <1>6, <1>7

LEMMA StopIInv == ASSUME IInv, NEW p \in Procs, Stop(p) PROVE IInv'
  <1> USE DEF IInv
  <1>1. PICK S \in SUBSET Saving(p) : row' = RowsAfter(S)
    BY DEF Stop
  <1>2. TypeOK'
    BY <1>1, RowsAfterTypes, ConstantsAssumption
    DEF TypeOK, Stop, WorkersEnd, WorkerAt, Holding, File
  <1>3. OnePlace' /\ InputsPresent' /\ SettledIsOver' /\ (\A j \in Jobs : Early(j))'
    <2>1. \A j \in Jobs : \/ files'[j] = files[j]
                         \/ \E w \in Of(p) : wjob[w] = j /\ wpc[w] \in Holding
      BY DEF Stop, Executing
    <2>2. QED
      BY <1>1, <1>2, <2>1, EndKeeps DEF Stop, TypeOK
  <1>4. WorkersFollow'
    BY ConstantsAssumption DEF WorkersFollow, Stop, WorkersEnd, Of, TypeOK
  <1>5. QED
    BY <1>2, <1>3, <1>4

LEMMA CrashIInv == ASSUME IInv, NEW p \in Procs, Crash(p) PROVE IInv'
  <1> USE DEF IInv
  <1>1. PICK S \in SUBSET Saving(p) : row' = RowsAfter(S)
    BY DEF Crash
  <1>2. TypeOK'
    BY <1>1, RowsAfterTypes, ConstantsAssumption
    DEF TypeOK, Crash, HandlersEnd, WorkersEnd, WorkerAt, Holding, Answered
  <1>3. OnePlace' /\ InputsPresent' /\ SettledIsOver' /\ (\A j \in Jobs : Early(j))'
    <2>1. \A j \in Jobs : pc'[j] = pc[j] \/ pc'[j] = "cut"
      BY DEF Crash, HandlersEnd
    <2>2. QED
      BY <1>1, <1>2, <2>1, EndKeeps DEF Crash, TypeOK
  <1>4. WorkersFollow'
    BY ConstantsAssumption DEF WorkersFollow, Crash, WorkersEnd, Of, TypeOK
  <1>5. QED
    BY <1>2, <1>3, <1>4

LEMMA ExitIInv == ASSUME IInv, NEW p \in Procs, Exit(p) PROVE IInv'
  <1> USE DEF IInv, Exit, HandlersEnd
  <1>1. TypeOK'
    BY DEF TypeOK, Answered
  <1>2. OnePlace'
    BY DEF OnePlace, TypeOK, Queued, Answered
  <1>3. InputsPresent'
    BY DEF InputsPresent, Queued, Needs
  <1>4. SettledIsOver'
    BY DEF SettledIsOver, Queued, InFlight
  <1>5. (\A j \in Jobs : Early(j))' /\ WorkersFollow'
    BY ConstantsAssumption DEF Early, WorkersFollow, Needs, TypeOK
  <1>6. QED
    BY <1>1, <1>2, <1>3, <1>4, <1>5

LEMMA StartIInv == ASSUME IInv, NEW p \in Procs, Start(p) PROVE IInv'
  <1> USE DEF IInv, Start, Of
  <1>1. \A w \in Workers : Home[w] = p => wpc[w] = "stopped" /\ wjob[w] = NoJob
    BY DEF WorkersFollow, TypeOK, Holding
  <1>2. TypeOK'
    BY <1>1 DEF TypeOK, WorkerAt, Holding
  <1>3. OnePlace'
    BY DEF OnePlace, Queued
  <1>4. InputsPresent'
    BY <1>1 DEF InputsPresent, Queued, Needs, Holding
  <1>5. SettledIsOver'
    BY <1>1, ConstantsAssumption DEF SettledIsOver, Queued
  <1>6. (\A j \in Jobs : Early(j))' /\ WorkersFollow'
    BY ConstantsAssumption DEF Early, WorkersFollow, TypeOK, Needs
  <1>7. QED
    BY <1>2, <1>3, <1>4, <1>5, <1>6

LEMMA ExpireIInv == ASSUME IInv, NEW j \in Jobs, Expire(j) PROVE IInv'
  <1> USE DEF IInv, Expire
  <1>1. TypeOK'
    BY DEF TypeOK, Rows
  <1>2. OnePlace' /\ InputsPresent'
    BY DEF OnePlace, InputsPresent, Queued, Needs
  <1>3. SettledIsOver'
    BY DEF SettledIsOver, TypeOK, Queued, Settled
  <1>4. (\A k \in Jobs : Early(k))' /\ WorkersFollow'
    BY DEF Early, WorkersFollow, TypeOK, Settled, Needs
  <1>5. QED
    BY <1>1, <1>2, <1>3, <1>4

LEMMA StutterIInv == ASSUME IInv, UNCHANGED vars PROVE IInv'
  BY DEF vars, IInv, TypeOK, OnePlace, InputsPresent, SettledIsOver, Early, WorkersFollow,
         Queued, Needs

LEMMA NextIInv == IInv /\ [Next]_vars => IInv'
  <1> SUFFICES ASSUME IInv, [Next]_vars PROVE IInv'
    OBVIOUS
  <1>1. ASSUME NEW j \in Jobs, Handler(j) PROVE IInv'
    BY <1>1, AdmitIInv, SaveLargeIInv, SaveSmallIInv, SaveRowIInv, CheckDepthIInv,
       PushIInv, RefuseIInv DEF Handler
  <1>2. ASSUME NEW w \in Workers, Worker(w) PROVE IInv'
    BY <1>2, PopIInv, LoadIInv, ComputeIInv, SaveDoneIInv, SaveErrorIInv DEF Worker
  <1>3. ASSUME NEW p \in Procs, Stop(p) \/ Exit(p) \/ Crash(p) \/ Start(p) PROVE IInv'
    BY <1>3, StopIInv, ExitIInv, CrashIInv, StartIInv
  <1>4. ASSUME NEW j \in Jobs, Expire(j) PROVE IInv'
    BY <1>4, ExpireIInv
  <1>5. CASE UNCHANGED vars
    BY <1>5, StutterIInv
  <1>6. QED
    BY <1>1, <1>2, <1>3, <1>4, <1>5 DEF Next

LEMMA AlwaysIInv == Spec => []IInv
  BY InitIInv, NextIInv, PTL DEF Spec

\* The variables of the pipeline keep their types, and a worker holds a job exactly while
\* it executes one.
THEOREM TypeCorrect == Spec => []TypeOK
  <1>1. IInv => TypeOK
    BY DEF IInv
  <1>2. QED
    BY <1>1, AlwaysIInv, PTL

\* BRPOP hands a job to one worker of one process only: a job is never in the list and in
\* execution, never twice in either, and in neither before its handler pushed it.
THEOREM JobsInOnePlace == Spec => []OnePlace
  <1>1. IInv => OnePlace
    BY DEF IInv
  <1>2. QED
    BY <1>1, AlwaysIInv, PTL

\* The input files of a job stay on disk until the worker that executes it is done.
THEOREM InputsStay == Spec => []InputsPresent
  <1>1. IInv => InputsPresent
    BY DEF IInv
  <1>2. QED
    BY <1>1, AlwaysIInv, PTL

\* A row that shows "done" or "error" belongs to a job nobody will execute any more.
THEOREM SettledStaysOver == Spec => []SettledIsOver
  <1>1. IInv => SettledIsOver
    BY DEF IInv
  <1>2. QED
    BY <1>1, AlwaysIInv, PTL
-----------------------------------------------------------------------------
(* The refinement of CheckLifecycle: one lemma per abstract action says what the      *)
(* stages and rows must do, one per group of actions shows that they do it.           *)

Stages == [j \in Jobs |-> StageOf(j)]

\* Where the conditions of StageOf hold they exclude each other.
LEMMA StageValues ==
  ASSUME IInv, NEW j \in Jobs
  PROVE  /\ (\E w \in Workers : wjob[w] = j) => StageOf(j) = "running"
         /\ (Queued(j) \/ pc[j] \in {"rowed", "checked", "full"}) => StageOf(j) = "open"
         /\ pc[j] \in {"new", "admitted", "large", "saved"} => StageOf(j) = "new"
         /\ pc[j] \in Answered /\ ~ Queued(j) /\ (\A w \in Workers : wjob[w] # j)
              => StageOf(j) = "closed"
  <1>1. /\ (Queued(j) \/ \E w \in Workers : wjob[w] = j) => pc[j] \in Answered
        /\ \A w \in Workers : wjob[w] = j => ~ Queued(j)
    BY ConstantsAssumption DEF IInv, OnePlace
  <1>2. CASE \E w \in Workers : wjob[w] = j
    BY <1>1, <1>2 DEF StageOf, Answered
  <1>3. CASE ~ (\E w \in Workers : wjob[w] = j) /\ Queued(j)
    BY <1>1, <1>3 DEF StageOf, Answered
  <1>4. CASE ~ (\E w \in Workers : wjob[w] = j) /\ ~ Queued(j)
    BY <1>1, <1>4 DEF StageOf, Answered
  <1>5. QED
    BY <1>2, <1>3, <1>4

\* The same of the next state.
LEMMA NextStageValues ==
  ASSUME IInv', NEW j \in Jobs
  PROVE  /\ (\E w \in Workers : wjob'[w] = j) => StageOf(j)' = "running"
         /\ (Queued(j)' \/ pc'[j] \in {"rowed", "checked", "full"}) => StageOf(j)' = "open"
         /\ pc'[j] \in {"new", "admitted", "large", "saved"} => StageOf(j)' = "new"
         /\ pc'[j] \in Answered /\ ~ Queued(j)' /\ (\A w \in Workers : wjob'[w] # j)
              => StageOf(j)' = "closed"
  <1>1. /\ (Queued(j)' \/ \E w \in Workers : wjob'[w] = j) => pc'[j] \in Answered
        /\ \A w \in Workers : wjob'[w] = j => ~ Queued(j)'
    BY ConstantsAssumption DEF IInv, OnePlace
  <1>2. CASE \E w \in Workers : wjob'[w] = j
    BY <1>1, <1>2 DEF StageOf, Answered
  <1>3. CASE ~ (\E w \in Workers : wjob'[w] = j) /\ Queued(j)'
    BY <1>1, <1>3 DEF StageOf, Answered
  <1>4. CASE ~ (\E w \in Workers : wjob'[w] = j) /\ ~ Queued(j)'
    BY <1>1, <1>4 DEF StageOf, Answered
  <1>5. QED
    BY <1>2, <1>3, <1>4

\* The stage of a job depends on its handler, on whether it is queued and on who holds it.
LEMMA StageStays ==
  ASSUME NEW j \in Jobs, pc'[j] = pc[j], Queued(j)' = Queued(j),
         (\E w \in Workers : wjob'[w] = j) <=> (\E w \in Workers : wjob[w] = j)
  PROVE  StageOf(j)' = StageOf(j)
  BY DEF StageOf

LEMMA MapStutter ==
  ASSUME row' = row, \A j \in Jobs : StageOf(j)' = StageOf(j)
  PROVE  UNCHANGED Lifecycle!vars
  BY DEF Lifecycle!vars

LEMMA MapDecline ==
  ASSUME NEW j \in Jobs, StageOf(j) = "new", StageOf(j)' = "closed",
         \A k \in Jobs \ {j} : StageOf(k)' = StageOf(k),
         NEW r \in {"absent", "processing", "error"}, row' = [row EXCEPT ![j] = r]
  PROVE  Lifecycle!Next
  <1>1. Stages' = [Stages EXCEPT ![j] = "closed"]
    BY DEF Stages
  <1>2. Lifecycle!Decline(j)
    BY <1>1 DEF Lifecycle!Decline, Stages
  <1>3. QED
    BY <1>2 DEF Lifecycle!Next

LEMMA MapOpen ==
  ASSUME NEW j \in Jobs, StageOf(j) = "new", StageOf(j)' = "open",
         \A k \in Jobs \ {j} : StageOf(k)' = StageOf(k),
         row' = [row EXCEPT ![j] = "processing"]
  PROVE  Lifecycle!Next
  <1>1. Stages' = [Stages EXCEPT ![j] = "open"]
    BY DEF Stages
  <1>2. Lifecycle!Open(j)
    BY <1>1 DEF Lifecycle!Open, Stages
  <1>3. QED
    BY <1>2 DEF Lifecycle!Next

LEMMA MapRefuse ==
  ASSUME NEW j \in Jobs, StageOf(j) = "open", StageOf(j)' = "closed",
         \A k \in Jobs \ {j} : StageOf(k)' = StageOf(k),
         NEW r \in {row[j], "error"}, row' = [row EXCEPT ![j] = r]
  PROVE  Lifecycle!Next
  <1>1. Stages' = [Stages EXCEPT ![j] = "closed"]
    BY DEF Stages
  <1>2. Lifecycle!Refuse(j)
    BY <1>1 DEF Lifecycle!Refuse, Stages
  <1>3. QED
    BY <1>2 DEF Lifecycle!Next

LEMMA MapTake ==
  ASSUME NEW j \in Jobs, StageOf(j) = "open", StageOf(j)' = "running",
         \A k \in Jobs \ {j} : StageOf(k)' = StageOf(k), row' = row
  PROVE  Lifecycle!Next
  <1>1. Stages' = [Stages EXCEPT ![j] = "running"]
    BY DEF Stages
  <1>2. Lifecycle!Take(j)
    BY <1>1 DEF Lifecycle!Take, Stages
  <1>3. QED
    BY <1>2 DEF Lifecycle!Next

LEMMA MapWrite ==
  ASSUME NEW j \in Jobs, StageOf(j) = "running", \A k \in Jobs : StageOf(k)' = StageOf(k),
         row' = [row EXCEPT ![j] = "done"]
  PROVE  Lifecycle!Next
  <1>1. Lifecycle!Write(j)
    BY DEF Lifecycle!Write
  <1>2. QED
    BY <1>1 DEF Lifecycle!Next

LEMMA MapFinish ==
  ASSUME NEW j \in Jobs, StageOf(j) = "running", StageOf(j)' = "closed",
         \A k \in Jobs \ {j} : StageOf(k)' = StageOf(k),
         NEW r \in Settled \cup {row[j]}, row' = [row EXCEPT ![j] = r]
  PROVE  Lifecycle!Next
  <1>1. Stages' = [Stages EXCEPT ![j] = "closed"]
    BY DEF Stages
  <1>2. Lifecycle!Finish(j)
    BY <1>1 DEF Lifecycle!Finish, Lifecycle!Settled, Settled, Stages
  <1>3. QED
    BY <1>2 DEF Lifecycle!Next

LEMMA MapExpire ==
  ASSUME NEW j \in Jobs, StageOf(j) # "new", \A k \in Jobs : StageOf(k)' = StageOf(k),
         row' = [row EXCEPT ![j] = "absent"]
  PROVE  Lifecycle!Next
  <1>1. Lifecycle!Expire(j)
    BY DEF Lifecycle!Expire
  <1>2. QED
    BY <1>1 DEF Lifecycle!Next

\* The jobs of S end with their process; rows change only of those being executed.
LEMMA MapGiveUp ==
  ASSUME NEW S \in SUBSET Jobs,
         \A j \in S : StageOf(j) \in {"new", "open", "running"} /\ StageOf(j)' = "closed",
         \A j \in Jobs \ S : StageOf(j)' = StageOf(j),
         row \in [Jobs -> Rows], row' \in [Jobs -> Rows],
         \A j \in Jobs : \/ row'[j] = row[j]
                         \/ j \in S /\ StageOf(j) = "running" /\ row'[j] \in Settled
  PROVE  Lifecycle!Next
  <1> DEFINE W == {j \in S : StageOf(j) = "running" /\ row'[j] # row[j]}
             r == [j \in W |-> row'[j]]
  <1>1. Stages' = [j \in Jobs |-> IF j \in S THEN "closed" ELSE Stages[j]]
    BY DEF Stages
  <1>2. W \in SUBSET {j \in S : Stages[j] = "running"}
    BY DEF Stages
  <1>3. r \in [W -> Settled]
    OBVIOUS
  <1>4. row' = [j \in Jobs |-> IF j \in W THEN r[j] ELSE row[j]]
    OBVIOUS
  <1>5. Lifecycle!GiveUp(S)
    <2>1. \A j \in S : Stages[j] \in {"new", "open", "running"}
      BY DEF Stages
    <2>2. QED
      BY <1>1, <1>2, <1>3, <1>4, <2>1
      DEF Lifecycle!GiveUp, Lifecycle!Settled, Settled, Stages
  <1>6. QED
    BY <1>5 DEF Lifecycle!Next

\* Another job, or a handler of j that goes from one stage to the same.
LEMMA HandlerStages ==
  ASSUME IInv, IInv', NEW j \in Jobs, UNCHANGED <<queue, wjob>>,
         NEW to, pc' = [pc EXCEPT ![j] = to]
  PROVE  /\ \A k \in Jobs \ {j} : StageOf(k)' = StageOf(k)
         /\ \A k \in Jobs : Queued(k)' = Queued(k)
  BY StageStays DEF IInv, TypeOK, Queued

\* What a handler may see before its job is pushed.
LEMMA BeforePush ==
  ASSUME IInv, NEW j \in Jobs, pc[j] \in InFlight \cup {"new"}
  PROVE  /\ ~ Queued(j) /\ (\A w \in Workers : wjob[w] # j)
         /\ pc[j] \in {"new", "admitted", "large", "saved"} => row[j] \in {"absent", "processing"}
  <1>1. ~ Queued(j) /\ (\A w \in Workers : wjob[w] # j)
    BY DEF IInv, OnePlace, InFlight, Answered
  <1>2. pc[j] \in {"new", "admitted", "large", "saved"} => row[j] \notin Settled
    BY DEF IInv, SettledIsOver, Early, InFlight, Settled
  <1>3. QED
    BY <1>1, <1>2 DEF IInv, TypeOK, Rows, Settled

LEMMA HandlerMaps ==
  ASSUME IInv, IInv', NEW j \in Jobs, Handler(j)
  PROVE  [Lifecycle!Next]_(Lifecycle!vars)
  <1>0. row = [row EXCEPT ![j] = row[j]] /\ DOMAIN pc = Jobs
    BY DEF IInv, TypeOK
  <1>1. CASE Admit(j)
    <2>1. StageOf(j) = "new" /\ StageOf(j)' = "new"
      BY <1>1, <1>0, StageValues, NextStageValues DEF Admit, Goes
    <2>2. \A k \in Jobs : StageOf(k)' = StageOf(k)
      BY <1>1, <2>1, HandlerStages DEF Admit, Goes
    <2>3. QED
      BY <1>1, <2>2, MapStutter DEF Admit
  <1>2. CASE SaveLarge(j)
    <2>1. PICK to \in {"large", "refused"} : pc' = [pc EXCEPT ![j] = to]
      BY <1>2 DEF SaveLarge, Goes
    <2>2. pc[j] = "admitted" /\ UNCHANGED <<queue, row, wjob>>
      BY <1>2 DEF SaveLarge, Goes
    <2>3. CASE to = "large"
      <3>1. StageOf(j) = "new" /\ StageOf(j)' = "new"
        BY <1>0, <2>1, <2>2, <2>3, StageValues, NextStageValues
      <3>2. \A k \in Jobs : StageOf(k)' = StageOf(k)
        BY <2>1, <2>2, <3>1, HandlerStages
      <3>3. QED
        BY <2>2, <3>2, MapStutter
    <2>4. CASE to = "refused"
      <3>1. StageOf(j) = "new" /\ StageOf(j)' = "closed"
        BY <1>0, <2>1, <2>2, <2>4, StageValues, NextStageValues, HandlerStages, BeforePush DEF InFlight, Answered
      <3>2. QED
        BY <1>0, <2>1, <2>2, <3>1, HandlerStages, BeforePush, MapDecline DEF InFlight
    <2>5. QED
      BY <2>3, <2>4
  <1>3. CASE SaveSmall(j)
    <2>1. PICK to \in {"saved", "refused", "failed"} : pc' = [pc EXCEPT ![j] = to]
      BY <1>3 DEF SaveSmall, Goes
    <2>2. pc[j] = "large" /\ UNCHANGED <<queue, row, wjob>>
      BY <1>3 DEF SaveSmall, Goes
    <2>3. CASE to = "saved"
      <3>1. StageOf(j) = "new" /\ StageOf(j)' = "new"
        BY <1>0, <2>1, <2>2, <2>3, StageValues, NextStageValues
      <3>2. \A k \in Jobs : StageOf(k)' = StageOf(k)
        BY <2>1, <2>2, <3>1, HandlerStages
      <3>3. QED
        BY <2>2, <3>2, MapStutter
    <2>4. CASE to \in {"refused", "failed"}
      <3>1. StageOf(j) = "new" /\ StageOf(j)' = "closed"
        BY <1>0, <2>1, <2>2, <2>4, StageValues, NextStageValues, HandlerStages, BeforePush DEF InFlight, Answered
      <3>2. QED
        BY <1>0, <2>1, <2>2, <3>1, HandlerStages, BeforePush, MapDecline DEF InFlight
    <2>5. QED
      BY <2>3, <2>4
  <1>4. CASE SaveRow(j)
    <2>1. pc[j] = "saved" /\ UNCHANGED <<queue, wjob>>
      BY <1>4 DEF SaveRow, Goes
    <2>2. CASE pc' = [pc EXCEPT ![j] = "rowed"] /\ row' = [row EXCEPT ![j] = "processing"]
      <3>1. StageOf(j) = "new" /\ StageOf(j)' = "open"
        BY <1>0, <2>1, <2>2, StageValues, NextStageValues
      <3>2. QED
        BY <2>1, <2>2, <3>1, HandlerStages, MapOpen
    <2>3. CASE /\ pc' = [pc EXCEPT ![j] = "failed"]
               /\ \E r \in {row[j], "processing"} : row' = [row EXCEPT ![j] = r]
      <3>1. StageOf(j) = "new" /\ StageOf(j)' = "closed"
        BY <1>0, <2>1, <2>3, StageValues, NextStageValues, HandlerStages, BeforePush DEF InFlight, Answered
      <3>2. PICK r \in {"absent", "processing"} : row' = [row EXCEPT ![j] = r]
        BY <2>1, <2>3, BeforePush DEF InFlight
      <3>3. QED
        BY <2>1, <2>3, <3>1, <3>2, HandlerStages, MapDecline
    <2>4. QED
      BY <1>4, <2>2, <2>3 DEF SaveRow, Goes
  <1>5. CASE CheckDepth(j)
    <2>1. PICK to \in {"checked", "full", "failed"} : pc' = [pc EXCEPT ![j] = to]
      BY <1>5 DEF CheckDepth, Goes
    <2>2. pc[j] = "rowed" /\ UNCHANGED <<queue, row, wjob>>
      BY <1>5 DEF CheckDepth, Goes
    <2>3. CASE to \in {"checked", "full"}
      <3>1. StageOf(j) = "open" /\ StageOf(j)' = "open"
        BY <1>0, <2>1, <2>2, <2>3, StageValues, NextStageValues
      <3>2. \A k \in Jobs : StageOf(k)' = StageOf(k)
        BY <2>1, <2>2, <3>1, HandlerStages
      <3>3. QED
        BY <2>2, <3>2, MapStutter
    <2>4. CASE to = "failed"
      <3>1. StageOf(j) = "open" /\ StageOf(j)' = "closed"
        BY <1>0, <2>1, <2>2, <2>4, StageValues, NextStageValues, HandlerStages, BeforePush DEF InFlight, Answered
      <3>2. QED
        BY <1>0, <2>1, <2>2, <3>1, HandlerStages, MapRefuse
    <2>5. QED
      BY <2>3, <2>4
  <1>6. CASE Push(j)
    <2>1. PICK to \in {"accepted", "failed"} : pc' = [pc EXCEPT ![j] = to]
      BY <1>6 DEF Push, PushUnchecked, Goes
    <2>2. pc[j] = "checked" /\ UNCHANGED <<row, wjob>>
      BY <1>6 DEF Push, PushUnchecked, Goes
    <2>3. CASE queue' = Append(queue, j)
      <3>1. \A k \in Jobs : Queued(k)' <=> (Queued(k) \/ k = j)
        BY <2>3, PushQueued DEF IInv
      <3>2. StageOf(j) = "open" /\ StageOf(j)' = "open"
        BY <2>2, <3>1, StageValues, NextStageValues
      <3>3. \A k \in Jobs \ {j} : StageOf(k)' = StageOf(k)
        <4>1. \A k \in Jobs \ {j} : Queued(k)' = Queued(k)
          BY <3>1 DEF Queued
        <4>2. QED
          BY <1>0, <2>1, <2>2, <4>1, StageStays
      <3>4. QED
        BY <2>2, <3>2, <3>3, MapStutter
    <2>4. CASE queue' = queue
      <3>1. to = "failed"
        <4>1. Len(queue) \in Nat /\ Len(Append(queue, j)) = Len(queue) + 1
          BY DEF IInv, TypeOK
        <4>2. queue # Append(queue, j)
          BY <4>1
        <4>3. QED
          BY <1>0, <1>6, <2>1, <2>4, <4>2 DEF Push, PushUnchecked, Goes
      <3>2. StageOf(j) = "open" /\ StageOf(j)' = "closed"
        BY <1>0, <2>1, <2>2, <2>4, <3>1, StageValues, NextStageValues, HandlerStages, BeforePush
        DEF InFlight, Answered
      <3>3. QED
        BY <1>0, <2>1, <2>2, <2>4, <3>2, HandlerStages, MapRefuse
    <2>5. QED
      BY <1>6, <2>3, <2>4 DEF Push, PushUnchecked
  <1>7. CASE Refuse(j)
    <2>1. PICK to \in {"refused", "failed"} : pc' = [pc EXCEPT ![j] = to]
      BY <1>7 DEF Refuse, Goes
    <2>2. pc[j] = "full" /\ UNCHANGED <<queue, wjob>>
      BY <1>7 DEF Refuse, Goes
    <2>3. StageOf(j) = "open" /\ StageOf(j)' = "closed"
      BY <1>0, <2>1, <2>2, StageValues, NextStageValues, HandlerStages, BeforePush DEF InFlight, Answered
    <2>4. PICK r \in {row[j], "error"} : row' = [row EXCEPT ![j] = r]
      BY <1>7 DEF Refuse
    <2>5. QED
      BY <2>1, <2>2, <2>3, <2>4, HandlerStages, MapRefuse
  <1>8. QED
    BY <1>1, <1>2, <1>3, <1>4, <1>5, <1>6, <1>7 DEF Handler

\* A worker that lets its job go closes it, unless it is queued.
LEMMA WorkerMaps ==
  ASSUME IInv, IInv', NEW w \in Workers, Worker(w)
  PROVE  [Lifecycle!Next]_(Lifecycle!vars)
  <1>1. CASE Pop(w)
    <2>0. PICK h : h = Head(queue)
      OBVIOUS
    <2>1. /\ wpc[w] = "idle" /\ UNCHANGED <<row, pc>>
          /\ wjob[w] = NoJob
      BY <1>1 DEF Pop, PopOnce, IInv, TypeOK, Holding
    <2>2. /\ h \in Jobs /\ Queued(h)
          /\ \A k : Queued(k)' <=> (Queued(k) /\ k # h)
      BY <1>1, <2>0, PopQueued DEF Pop, PopOnce, IInv
    <2>3. pc[h] \in Answered /\ StageOf(h) = "open" /\ \A v \in Workers : wjob[v] # h
      BY <2>2, StageValues, NextStageValues, ConstantsAssumption DEF IInv, OnePlace
    <2>4. \A k \in Jobs \ {h} : Queued(k)' = Queued(k)
      BY <2>2 DEF Queued
    <2>5. CASE wjob' = [wjob EXCEPT ![w] = h]
      <3>1. wjob'[w] = h /\ \A v \in Workers \ {w} : wjob'[v] = wjob[v]
        BY <2>5 DEF IInv, TypeOK
      <3>2. StageOf(h)' = "running"
        BY <2>2, <3>1, StageValues, NextStageValues
      <3>3. \A k \in Jobs \ {h} : StageOf(k)' = StageOf(k)
        BY <2>1, <2>4, <3>1, StageStays, ConstantsAssumption
      <3>4. QED
        BY <2>1, <2>2, <2>3, <3>2, <3>3, MapTake
    <2>6. CASE wjob' = wjob
      <3>1. StageOf(h)' = "closed"
        BY <2>1, <2>2, <2>3, <2>6, StageValues, NextStageValues
      <3>2. \A k \in Jobs \ {h} : StageOf(k)' = StageOf(k)
        BY <2>1, <2>4, <2>6, StageStays
      <3>3. row' = [row EXCEPT ![h] = row[h]]
        BY <2>1, <2>2 DEF IInv, TypeOK
      <3>4. QED
        BY <2>2, <2>3, <3>1, <3>2, <3>3, MapRefuse
    <2>7. QED
      BY <1>1, <2>0, <2>5, <2>6 DEF Pop, PopOnce
  <1>2. CASE Load(w) \/ Compute(w)
    <2>1. UNCHANGED <<queue, row, pc, wjob>>
      BY <1>2 DEF Load, LoadFiles, Compute
    <2>2. \A k \in Jobs : Queued(k)' = Queued(k)
      BY <2>1 DEF Queued
    <2>3. \A k \in Jobs : StageOf(k)' = StageOf(k)
      BY <2>1, <2>2, StageStays
    <2>4. QED
      BY <2>1, <2>3, MapStutter
  <1>3. CASE SaveDone(w) \/ SaveError(w)
    <2>0. PICK j : j = wjob[w]
      OBVIOUS
    <2>1. UNCHANGED <<queue, pc>> /\ wpc[w] \in Holding
      BY <1>3 DEF SaveDone, SaveError, SaveErrorThenPoll, Holding
    <2>2. /\ j \in Jobs /\ ~ Queued(j) /\ pc[j] \in Answered /\ StageOf(j) = "running"
          /\ \A v \in Workers : wjob[v] = j => v = w
      BY <2>0, <2>1, StageValues, ConstantsAssumption DEF IInv, TypeOK, OnePlace
    <2>3. \A k \in Jobs : Queued(k)' = Queued(k)
      BY <2>1 DEF Queued
    <2>4. PICK r \in Settled \cup {row[j]} : row' = [row EXCEPT ![j] = r]
      BY <1>3, <2>0 DEF SaveDone, SaveError, SaveErrorThenPoll, Settled
    <2>5. CASE wjob' = [wjob EXCEPT ![w] = NoJob]
      <3>1. \A v \in Workers : wjob'[v] = IF v = w THEN NoJob ELSE wjob[v]
        BY <2>5 DEF IInv, TypeOK
      <3>2. StageOf(j)' = "closed"
        BY <2>1, <2>2, <2>3, <3>1, StageValues, NextStageValues, ConstantsAssumption
      <3>3. \A k \in Jobs \ {j} : StageOf(k)' = StageOf(k)
        <4>1. ASSUME NEW k \in Jobs \ {j}
              PROVE  (\E v \in Workers : wjob'[v] = k) <=> (\E v \in Workers : wjob[v] = k)
          BY <2>0, <3>1, ConstantsAssumption
        <4>2. QED
          BY <2>1, <2>3, <4>1, StageStays
      <3>4. QED
        BY <2>2, <2>4, <3>2, <3>3, MapFinish
    <2>6. CASE wjob' = wjob /\ \E s \in {row[j], "done"} : row' = [row EXCEPT ![j] = s]
      <3>1. \A k \in Jobs : StageOf(k)' = StageOf(k)
        BY <2>1, <2>3, <2>6, StageStays
      <3>2. CASE row' = [row EXCEPT ![j] = row[j]]
        <4>1. row' = row
          BY <3>2, <2>2 DEF IInv, TypeOK
        <4>2. QED
          BY <4>1, <3>1, MapStutter
      <3>3. CASE row' = [row EXCEPT ![j] = "done"]
        BY <2>2, <3>1, <3>3, MapWrite
      <3>4. QED
        BY <2>6, <3>2, <3>3
    <2>7. QED
      BY <1>3, <2>0, <2>5, <2>6 DEF SaveDone, SaveError, SaveErrorThenPoll, Release
  <1>4. QED
    BY <1>1, <1>2, <1>3 DEF Worker

\* The jobs a process takes with it.
Lost(p) == {j \in Jobs : \E w \in Of(p) : wjob[w] = j}
Unanswered(p) == {j \in Jobs : Front[j] = p /\ pc[j] \in InFlight}

LEMMA EndMaps ==
  ASSUME IInv, IInv', NEW p \in Procs, WorkersEnd(p), UNCHANGED queue,
         NEW S \in SUBSET Saving(p), row' = RowsAfter(S), pc' = pc \/ HandlersEnd(p)
  PROVE  Lifecycle!Next
  <1>1. /\ \A w \in Workers : wjob'[w] = IF w \in Of(p) THEN NoJob ELSE wjob[w]
        /\ \A j \in Jobs : Queued(j)' = Queued(j)
    BY DEF WorkersEnd, Queued
  <1>2. PICK U \in SUBSET Unanswered(p) :
          \A j \in Jobs : pc'[j] = IF j \in U THEN "cut" ELSE pc[j]
    <2>1. CASE pc' = pc
      <3>1. {} \in SUBSET Unanswered(p)
        OBVIOUS
      <3>2. QED
        BY <2>1, <3>1
    <2>2. CASE HandlersEnd(p)
      <3>1. \A j \in Jobs : pc'[j] = IF j \in Unanswered(p) THEN "cut" ELSE pc[j]
        BY <2>2 DEF HandlersEnd, Unanswered
      <3>2. QED
        BY <3>1
    <2>3. QED
      BY <2>1, <2>2
  <1>3. \A j \in U : /\ StageOf(j) \in {"new", "open"}
                     /\ ~ Queued(j)
                     /\ \A w \in Workers : wjob[w] # j
    BY StageValues, BeforePush DEF Unanswered, InFlight
  <1>4. \A j \in Lost(p) : /\ StageOf(j) = "running"
                           /\ ~ Queued(j)
                           /\ pc[j] \in Answered
                           /\ \A w \in Workers : wjob'[w] # j
    BY <1>1, StageValues, ConstantsAssumption DEF IInv, OnePlace, Lost, Of
  <1>5. PICK G \in SUBSET Jobs : G = U \cup Lost(p)
    BY DEF Lost, Unanswered
  <1>6. \A j \in G : StageOf(j) \in {"new", "open", "running"} /\ StageOf(j)' = "closed"
    <2>1. ASSUME NEW j \in U PROVE StageOf(j)' = "closed"
      <3>1. pc'[j] \in Answered /\ ~ Queued(j)' /\ (\A w \in Workers : wjob'[w] # j)
        BY <1>1, <1>2, <1>3, ConstantsAssumption DEF Answered, Unanswered
      <3>2. QED
        BY <3>1, NextStageValues DEF Unanswered
    <2>2. ASSUME NEW j \in Lost(p) PROVE StageOf(j)' = "closed"
      <3>1. pc'[j] \in Answered /\ ~ Queued(j)'
        BY <1>1, <1>2, <1>4 DEF Answered, Lost
      <3>2. QED
        BY <1>4, <3>1, NextStageValues DEF Lost
    <2>3. QED
      BY <1>3, <1>4, <1>5, <2>1, <2>2
  <1>7. ASSUME NEW j \in Jobs \ G PROVE StageOf(j)' = StageOf(j)
    <2>1. (\E w \in Workers : wjob'[w] = j) <=> (\E w \in Workers : wjob[w] = j)
      BY <1>1, <1>5, ConstantsAssumption DEF Lost
    <2>2. QED
      BY <1>1, <1>2, <1>5, <2>1, StageStays
  <1>8. ASSUME NEW j \in Jobs, row'[j] # row[j]
        PROVE  j \in G /\ StageOf(j) = "running" /\ row'[j] \in Settled
    <2>1. PICK w \in S : wjob[w] = j
      BY <1>8, RowsAfterTypes DEF IInv
    <2>2. j \in Lost(p)
      BY <2>1 DEF Lost, Saving
    <2>3. RowsAfter(S)[j] \in Settled
      BY <2>1 DEF RowsAfter, Settled
    <2>4. QED
      BY <1>4, <1>5, <2>2, <2>3
  <1>9. row \in [Jobs -> Rows] /\ row' \in [Jobs -> Rows]
    BY DEF IInv, TypeOK
  <1>10. /\ \A j \in Jobs \ G : StageOf(j)' = StageOf(j)
         /\ \A j \in Jobs : \/ row'[j] = row[j]
                            \/ j \in G /\ StageOf(j) = "running" /\ row'[j] \in Settled
    BY <1>7, <1>8
  <1> HIDE DEF Lost, Unanswered
  <1>11. QED
    BY <1>6, <1>9, <1>10, MapGiveUp

LEMMA ProcessMaps ==
  ASSUME IInv, IInv', NEW p \in Procs, Stop(p) \/ Exit(p) \/ Crash(p) \/ Start(p)
  PROVE  [Lifecycle!Next]_(Lifecycle!vars)
  <1>1. CASE Stop(p) \/ Crash(p)
    <2>1. PICK S \in SUBSET Saving(p) : row' = RowsAfter(S)
      BY <1>1 DEF Stop, Crash
    <2>2. QED
      BY <1>1, <2>1, EndMaps DEF Stop, Crash
  <1>2. CASE Exit(p)
    <2>1. UNCHANGED <<queue, row, wjob>> /\ \A j \in Jobs : Queued(j)' = Queued(j)
      BY <1>2 DEF Exit, Queued
    <2>2. PICK U \in SUBSET Jobs : U = Unanswered(p)
      BY DEF Unanswered
    <2>3. \A j \in Jobs : pc'[j] = IF j \in U THEN "cut" ELSE pc[j]
      BY <1>2, <2>2 DEF Exit, HandlersEnd, Unanswered
    <2>4. \A j \in U : StageOf(j) \in {"new", "open", "running"} /\ StageOf(j)' = "closed"
      BY <2>1, <2>2, <2>3, StageValues, NextStageValues, BeforePush
      DEF Unanswered, InFlight, Answered
    <2>5. \A j \in Jobs \ U : StageOf(j)' = StageOf(j)
      BY <2>1, <2>3, StageStays
    <2>6. row \in [Jobs -> Rows]
      BY DEF IInv, TypeOK
    <2>7. /\ row \in [Jobs -> Rows] /\ row' \in [Jobs -> Rows]
          /\ \A j \in Jobs : \/ row'[j] = row[j]
                             \/ j \in U /\ StageOf(j) = "running" /\ row'[j] \in Settled
      BY <2>1, <2>6
    <2>8. Lifecycle!Next
      BY <2>4, <2>5, <2>7, MapGiveUp
    <2>9. QED
      BY <2>8
  <1>3. CASE Start(p)
    <2>1. UNCHANGED <<queue, row, pc, wjob>> /\ \A j \in Jobs : Queued(j)' = Queued(j)
      BY <1>3 DEF Start, Queued
    <2>2. QED
      BY <2>1, StageStays, MapStutter
  <1>4. QED
    BY <1>1, <1>2, <1>3

LEMMA ExpireMaps ==
  ASSUME IInv, IInv', NEW j \in Jobs, Expire(j)
  PROVE  [Lifecycle!Next]_(Lifecycle!vars)
  <1>1. UNCHANGED <<queue, pc, wjob>> /\ \A k \in Jobs : Queued(k)' = Queued(k)
    BY DEF Expire, Queued
  <1>2. \A k \in Jobs : StageOf(k)' = StageOf(k)
    BY <1>1, StageStays
  <1>3. pc[j] \in Answered
    BY DEF Expire, IInv, TypeOK, Early
  <1>4. StageOf(j) # "new"
    BY <1>3, StageValues
  <1>5. QED
    BY <1>2, <1>4, MapExpire DEF Expire

LEMMA InitMaps == Init => Lifecycle!Init
  <1> SUFFICES ASSUME Init PROVE Lifecycle!Init
    OBVIOUS
  <1>1. IInv
    BY InitIInv
  <1>2. \A j \in Jobs : StageOf(j) = "new"
    BY <1>1, StageValues DEF Init
  <1>3. QED
    BY <1>2 DEF Init, Lifecycle!Init

LEMMA NextMaps == IInv /\ IInv' /\ [Next]_vars => [Lifecycle!Next]_(Lifecycle!vars)
  <1> SUFFICES ASSUME IInv, IInv', [Next]_vars PROVE [Lifecycle!Next]_(Lifecycle!vars)
    OBVIOUS
  <1>1. ASSUME UNCHANGED vars PROVE UNCHANGED Lifecycle!vars
    BY <1>1, StageStays, MapStutter DEF vars, Queued
  <1>2. QED
    BY <1>1, HandlerMaps, WorkerMaps, ProcessMaps, ExpireMaps DEF Next

\* However handlers, workers, failing commands, stops and crashes interleave, what a client
\* may observe of a job is a life CheckLifecycle allows: a step of the pipeline is one of its
\* actions or changes neither row nor stage.
THEOREM PipelineKeepsLifecycle == Spec => ImplementsLifecycle
  BY InitMaps, NextMaps, AlwaysIInv, PTL DEF Spec, ImplementsLifecycle, Lifecycle!Spec
=============================================================================
