-------------------------- MODULE AudioJobs_proofs --------------------------
(***************************************************************************)
(* What recordings keep for any number of jobs, keys, processes, places    *)
(* and failures: their types, the semaphore among them, the removal of the *)
(* uploads, and the lifecycle of a check job.                              *)
(***************************************************************************)
EXTENDS AudioJobs, FiniteSetTheorems, WellFoundedInduction, TLAPS

Working == {"cycle", "attempt", "billing", "saving", "failing", "clearing"}

\* Before its upload was stored and after it was removed.
Clean == {"new", "declined", "failed", "ended"}

\* Whatever became of a job, its upload and its row are what its steps so far have made them.
JobInv ==
  /\ pc = [j \in Jobs |-> pc[j]] /\ row = [j \in Jobs |-> row[j]] /\ file = [j \in Jobs |-> file[j]]
  /\ \A j \in Jobs : pc[j] \in {"new", "filed"} => row[j] = "absent"
  /\ \A j \in Jobs : pc[j] \in Clean => ~ file[j]

\* One job moves; its new row and upload.
LEMMA OneJobMoves ==
  ASSUME JobInv, NEW j \in Jobs, NEW p, NEW r, NEW f \in BOOLEAN,
         pc' = [pc EXCEPT ![j] = p], row' = [row EXCEPT ![j] = r], file' = [file EXCEPT ![j] = f],
         p \in {"new", "filed"} => r = "absent",
         p \in Clean => ~ f
  PROVE  JobInv'
<1>1. /\ \A k \in Jobs : pc'[k] = IF k = j THEN p ELSE pc[k]
      /\ \A k \in Jobs : row'[k] = IF k = j THEN r ELSE row[k]
  BY DEF JobInv
<1>2. \A k \in Jobs : file'[k] = IF k = j THEN f ELSE file[k]
  BY DEF JobInv
<1>3. pc' = [k \in Jobs |-> pc'[k]] /\ row' = [k \in Jobs |-> row'[k]]
  BY DEF JobInv
<1>4. file' = [k \in Jobs |-> file'[k]]
  BY DEF JobInv
<1>5. \A k \in Jobs : pc'[k] \in {"new", "filed"} => row'[k] = "absent"
  BY <1>1 DEF JobInv
<1>6. \A k \in Jobs : pc'[k] \in Clean => ~ file'[k]
  <2>1. ASSUME NEW k \in Jobs, pc'[k] \in Clean PROVE ~ file'[k]
    <3>1. CASE k = j
      <4>1. file'[k] = f /\ p \in Clean
        BY <1>1, <1>2, <2>1, <3>1
      <4>2. QED BY <4>1
    <3>2. CASE k # j
      <4>1. file'[k] = file[k] /\ pc[k] \in Clean
        BY <1>1, <1>2, <2>1, <3>2
      <4>2. QED BY <4>1 DEF JobInv
    <3> QED BY <3>1, <3>2
  <2> QED BY <2>1
<1> QED BY <1>3, <1>4, <1>5, <1>6 DEF JobInv

\* What a step of a request or a task does to its own job: p, r and f.
JobStep(j, p, r) == pc' = [pc EXCEPT ![j] = p] /\ row' = [row EXCEPT ![j] = r]

LEMMA SameRow == ASSUME JobInv, NEW j \in Jobs PROVE row = [row EXCEPT ![j] = row[j]]
  BY DEF JobInv

LEMMA JobKeepsFile ==
  ASSUME JobInv, NEW j \in Jobs, NEW p, NEW r, JobStep(j, p, r), file' = file,
         p \in {"new", "filed"} => r = "absent",
         p \in Clean => pc[j] \in Clean
  PROVE  JobInv'
<1>1. pc' = [pc EXCEPT ![j] = p] /\ row' = [row EXCEPT ![j] = r]
  BY DEF JobStep
<1>2. /\ \A k \in Jobs : pc'[k] = IF k = j THEN p ELSE pc[k]
      /\ \A k \in Jobs : row'[k] = IF k = j THEN r ELSE row[k]
      /\ pc' = [k \in Jobs |-> pc'[k]] /\ row' = [k \in Jobs |-> row'[k]]
  BY <1>1 DEF JobInv
<1>3. \A k \in Jobs : pc'[k] \in {"new", "filed"} => row'[k] = "absent"
  BY <1>2 DEF JobInv
<1>4. \A k \in Jobs : pc'[k] \in Clean => pc[k] \in Clean
  BY <1>2
<1>5. \A k \in Jobs : pc'[k] \in Clean => ~ file'[k]
  BY <1>4 DEF JobInv
<1> QED BY <1>2, <1>3, <1>5 DEF JobInv

LEMMA JobUnlinks ==
  ASSUME JobInv, NEW j \in Jobs, NEW p, NEW r, JobStep(j, p, r), Unlink(j),
         p \notin {"new", "filed"}
  PROVE  JobInv'
<1>1. file' = [file EXCEPT ![j] = FALSE]
  BY DEF Unlink
<1> QED BY <1>1, OneJobMoves DEF JobStep, Clean

LEMMA StepKeepsJobs ==
  ASSUME JobInv, NEW j \in Jobs, Request(j) \/ Task(j) \/ Expire(j) PROVE JobInv'
<1> USE DEF At, Go, Row, JobStep, Clean
<1>1. row = [row EXCEPT ![j] = row[j]] /\ (pc[j] \in {"new", "filed"} => row[j] = "absent")
  BY SameRow DEF JobInv
<1>2. CASE Decline(j)
  BY <1>1, <1>2, JobKeepsFile DEF Decline
<1>3. CASE SaveFile(j)
  <2>1. /\ pc' = [pc EXCEPT ![j] = "filed"] /\ row' = [row EXCEPT ![j] = "absent"]
        /\ file' = [file EXCEPT ![j] = TRUE]
    BY <1>1, <1>3 DEF SaveFile
  <2> QED BY <2>1, OneJobMoves
<1>4. CASE SaveRow(j)
  <2>1. CASE Row(j, "processing") /\ Go(j, "waiting") /\ UNCHANGED file
    BY <2>1, JobKeepsFile
  <2>2. CASE Go(j, "failed") /\ Unlink(j) /\ \E r : Row(j, r)
    <3>1. PICK r : JobStep(j, "failed", r)
      BY <2>2
    <3> QED BY <2>2, <3>1, JobUnlinks
  <2> QED BY <1>1, <1>4, <2>1, <2>2 DEF SaveRow, SaveRowOrUnlink
<1>5. CASE Enter(j) \/ Rotate(j) \/ RotateFails(j) \/ Bill(j)
  <2>1. PICK p \in Working : Go(j, p) /\ UNCHANGED <<row, file>>
    BY <1>5 DEF Enter, EnterPlace, Rotate, RotateFails, Bill, Working
  <2>2. JobStep(j, p, row[j])
    BY <1>1, <2>1
  <2> QED BY <2>1, <2>2, JobKeepsFile DEF Working
<1>6. CASE SaveDone(j) \/ SaveError(j)
  <2>1. \E p \in Working : Go(j, p) /\ UNCHANGED file /\ \E r : row' = [row EXCEPT ![j] = r]
    BY <1>1, <1>6 DEF SaveDone, SaveError, Working
  <2> QED BY <2>1, JobKeepsFile DEF Working
<1>7. CASE Attempt(j) \/ Clear(j)
  <2>1. /\ \E p \in {"billing", "cycle", "failing", "ended"} : Go(j, p)
        /\ UNCHANGED row /\ Unlink(j)
    BY <1>7 DEF Attempt, AttemptUnlinks, Clear
  <2> QED BY <1>1, <2>1, JobUnlinks
<1>8. CASE Expire(j)
  <2>1. /\ pc' = [pc EXCEPT ![j] = pc[j]] /\ row' = [row EXCEPT ![j] = "absent"]
        /\ UNCHANGED file
    BY <1>8 DEF Expire, JobInv
  <2> QED BY <2>1, JobKeepsFile
<1> QED BY <1>2, <1>3, <1>4, <1>5, <1>6, <1>7, <1>8 DEF Request, Task

LEMMA CrashKeepsJobs == ASSUME JobInv, Crash PROVE JobInv'
<1>1. PICK S : pc' = [j \in Jobs |-> IF j \in S THEN "lost" ELSE pc[j]]
  BY DEF Crash
<1>2. UNCHANGED <<row, file>>
  BY DEF Crash
<1> QED BY <1>1, <1>2 DEF JobInv, Clean

LEMMA AlwaysJobInv == Spec => []JobInv
<1>1. Init => JobInv
  BY DEF Init, JobInv
<1>2. JobInv /\ [Next]_vars => JobInv'
  <2> SUFFICES ASSUME JobInv, [Next]_vars PROVE JobInv'
    OBVIOUS
  <2>1. CASE UNCHANGED vars
    BY <2>1 DEF vars, JobInv
  <2> QED BY <2>1, StepKeepsJobs, CrashKeepsJobs DEF Next
<1> QED BY <1>1, <1>2, PTL DEF Spec

(* No upload stays on disk behind a recording that is over, for any number  *)
(* of jobs, keys, processes and failing commands (audio.py:88-133, 251-300; *)
(* gemini.py).                                                              *)
THEOREM UploadsAreReleased == Spec => []UploadReleased
<1>1. JobInv => UploadReleased
  BY DEF JobInv, UploadReleased, Clean
<1> QED BY AlwaysJobInv, <1>1, PTL
-----------------------------------------------------------------------------
(* The refinement of CheckLifecycle: the stage of a recording is where it   *)
(* stands.                                                                  *)
StageAt(p) == IF p \in {"new", "filed"} THEN "new"
              ELSE IF p = "waiting" THEN "open"
              ELSE IF p \in Working \ {"clearing"} THEN "running" ELSE "closed"

Stages == [j \in Jobs |-> StageOf(j)]

LEMMA StageValues == \A j \in Jobs : StageOf(j) = StageAt(pc[j])
  BY DEF StageOf, StageAt, Inside, At, Working

LEMMA NextStageValues == \A j \in Jobs : StageOf(j)' = StageAt(pc'[j])
  BY DEF StageOf, StageAt, Inside, At, Working

\* A step that takes one job from one stage to another.
LEMMA OneStage ==
  ASSUME JobInv, NEW j \in Jobs, NEW p, Go(j, p)
  PROVE  /\ Stages' = [Stages EXCEPT ![j] = StageAt(p)]
         /\ Stages[j] = StageAt(pc[j])
         /\ StageAt(p) = StageAt(pc[j]) => Stages' = Stages
<1>1. \A k \in Jobs : pc'[k] = IF k = j THEN p ELSE pc[k]
  BY DEF Go, JobInv
<1>2. \A k \in Jobs : Stages[k] = StageAt(pc[k]) /\ Stages'[k] = StageAt(pc'[k])
  BY StageValues, NextStageValues DEF Stages
<1> HIDE DEF StageAt
<1> QED BY <1>1, <1>2 DEF Stages

LEMMA LifecycleInit == Init => Lifecycle!Init
  BY StageValues DEF Init, Lifecycle!Init, StageAt, Stages

LEMMA StepMaps ==
  ASSUME JobInv, NEW j \in Jobs, Request(j) \/ Task(j) \/ Expire(j)
  PROVE  [Lifecycle!Next]_(Lifecycle!vars)
<1> USE DEF At, Go, Row
<1>1. row = [row EXCEPT ![j] = row[j]] /\ (pc[j] \in {"new", "filed"} => row[j] = "absent")
  BY SameRow DEF JobInv
<1>2. Stages = [k \in Jobs |-> StageOf(k)]
  BY DEF Stages
\* The row stays, and the stage.
<1>3. ASSUME row' = row, Stages' = Stages PROVE [Lifecycle!Next]_(Lifecycle!vars)
  BY <1>3 DEF Lifecycle!vars, Stages
<1>4. ASSUME NEW p, Go(j, p), StageAt(pc[j]) = StageAt(p), row' = row
      PROVE  [Lifecycle!Next]_(Lifecycle!vars)
  BY <1>3, <1>4, OneStage
<1>5. ASSUME NEW p, Go(j, p), StageAt(pc[j]) = "new", StageAt(p) = "closed",
             NEW r \in {"absent", "processing", "error"}, Row(j, r)
      PROVE  Lifecycle!Decline(j)
  BY <1>5, OneStage DEF Lifecycle!Decline, Stages
<1>6. ASSUME NEW p, Go(j, p), StageAt(pc[j]) = "running", StageAt(p) = "closed",
             NEW r \in {"done", "error", row[j]}, Row(j, r)
      PROVE  Lifecycle!Finish(j)
  BY <1>6, OneStage DEF Lifecycle!Finish, Lifecycle!Settled, Stages
<1>7. CASE Request(j)
  <2>1. CASE Decline(j)
    BY <1>1, <1>5, <2>1 DEF Decline, StageAt, Working, Lifecycle!Next
  <2>2. CASE SaveFile(j)
    BY <1>4, <2>2 DEF SaveFile, StageAt
  <2>3. CASE SaveRow(j)
    <3>1. CASE Row(j, "processing") /\ Go(j, "waiting")
      <4>1. StageAt(pc[j]) = "new" /\ StageAt("waiting") = "open"
        BY <2>3 DEF SaveRow, SaveRowOrUnlink, StageAt
      <4>2. Lifecycle!Open(j)
        BY <3>1, <4>1, OneStage DEF Lifecycle!Open, Stages
      <4> QED BY <4>2 DEF Lifecycle!Next
    <3>2. CASE Go(j, "failed") /\ (Row(j, "processing") \/ UNCHANGED row)
      <4>1. StageAt(pc[j]) = "new" /\ StageAt("failed") = "closed" /\ row[j] = "absent"
        BY <1>1, <2>3 DEF SaveRow, SaveRowOrUnlink, StageAt, Working
      <4>2. \E r \in {"absent", "processing", "error"} : Row(j, r)
        BY <1>1, <3>2, <4>1
      <4>3. Lifecycle!Decline(j)
        BY <1>5, <3>2, <4>1, <4>2
      <4> QED BY <4>3 DEF Lifecycle!Next
    <3> QED BY <2>3, <3>1, <3>2 DEF SaveRow, SaveRowOrUnlink
  <2> QED BY <1>7, <2>1, <2>2, <2>3 DEF Request
<1>8. CASE Enter(j)
  <2>1. PICK p \in {"failing", "cycle"} : Go(j, p)
    BY <1>8 DEF Enter, EnterPlace
  <2>2. /\ StageAt(pc[j]) = "open" /\ StageAt(p) = "running" /\ row' = row
    BY <1>8, <2>1 DEF Enter, EnterPlace, StageAt, Working
  <2>3. Lifecycle!Take(j)
    BY <2>1, <2>2, OneStage DEF Lifecycle!Take, Stages
  <2> QED BY <2>3 DEF Lifecycle!Next
<1>9. CASE Rotate(j) \/ RotateFails(j) \/ Attempt(j) \/ Bill(j) \/ Clear(j)
  <2>1. PICK p : Go(j, p) /\ row' = row /\ StageAt(pc[j]) = StageAt(p)
    <3>1. CASE Clear(j)
      <4>1. Go(j, "ended") /\ row' = row /\ pc[j] = "clearing"
        BY <3>1 DEF Clear
      <4>2. StageAt("clearing") = "closed" /\ StageAt("ended") = "closed"
        BY DEF StageAt, Working
      <4> QED BY <4>1, <4>2
    <3>2. CASE Rotate(j) \/ RotateFails(j) \/ Attempt(j) \/ Bill(j)
      <4>1. PICK p \in {"cycle", "attempt", "billing", "saving", "failing"} : Go(j, p)
        BY <3>2 DEF Rotate, RotateFails, Attempt, AttemptUnlinks, Bill
      <4>2. row' = row /\ pc[j] \in {"cycle", "attempt", "billing"}
        BY <3>2 DEF Rotate, RotateFails, Attempt, AttemptUnlinks, Bill
      <4> QED BY <4>1, <4>2 DEF StageAt, Working
    <3> QED BY <1>9, <3>1, <3>2
  <2> QED BY <1>4, <2>1
<1>10. CASE SaveDone(j)
  <2>1. StageAt(pc[j]) = "running" /\ StageAt("clearing") = "closed" /\ StageAt("failing") = "running"
    BY <1>10 DEF SaveDone, StageAt, Working
  <2>2. CASE Row(j, "done") /\ Go(j, "clearing")
    BY <1>6, <2>1, <2>2 DEF Lifecycle!Next
  <2>3. CASE Row(j, "done") /\ Go(j, "failing")
    <3>1. Lifecycle!Write(j)
      BY <2>1, <2>3, OneStage DEF Lifecycle!Write, Stages
    <3> QED BY <3>1 DEF Lifecycle!Next
  <2>4. CASE UNCHANGED row /\ Go(j, "failing")
    BY <1>4, <2>1, <2>4
  <2> QED BY <1>10, <2>2, <2>3, <2>4 DEF SaveDone
<1>11. CASE SaveError(j)
  <2>1. StageAt(pc[j]) = "running" /\ StageAt("clearing") = "closed" /\ Go(j, "clearing")
    BY <1>11 DEF SaveError, StageAt, Working
  <2>2. \E r \in {"done", "error", row[j]} : Row(j, r)
    BY <1>1, <1>11 DEF SaveError
  <2>3. Lifecycle!Finish(j)
    BY <1>6, <2>1, <2>2
  <2> QED BY <2>3 DEF Lifecycle!Next
<1>12. CASE Expire(j)
  <2>1. /\ Stages' = Stages /\ Stages[j] # "new" /\ row' = [row EXCEPT ![j] = "absent"]
    <3>1. UNCHANGED pc /\ StageAt(pc[j]) # "new"
      BY <1>12 DEF Expire, StageAt, Working
    <3>2. Stages' = Stages
      BY <3>1, StageValues, NextStageValues DEF Stages
    <3> QED BY <1>12, <3>1, <3>2, StageValues DEF Expire, Stages
  <2>2. Lifecycle!Expire(j)
    BY <2>1 DEF Lifecycle!Expire, Stages
  <2> QED BY <2>2 DEF Lifecycle!Next
<1> QED BY <1>7, <1>8, <1>9, <1>10, <1>11, <1>12 DEF Task

LEMMA CrashMaps == ASSUME JobInv, Crash PROVE Lifecycle!Next
<1>1. PICK h \in Range(Home) :
        pc' = [j \in Jobs |-> IF j \in InsideOf(h) \cup {k \in Jobs : Home[k] = h /\ pc[k] \in {"filed", "waiting"}}
                              THEN "lost" ELSE pc[j]]
  BY DEF Crash
<1> DEFINE S == InsideOf(h) \cup {k \in Jobs : Home[k] = h /\ pc[k] \in {"filed", "waiting"}}
<1>2. /\ S \in SUBSET Jobs
      /\ pc' = [j \in Jobs |-> IF j \in S THEN "lost" ELSE pc[j]]
      /\ \A j \in S : pc[j] \in Working \cup {"filed", "waiting"}
  <2>1. S \in SUBSET Jobs /\ \A j \in S : pc[j] \in Working \cup {"filed", "waiting"}
    BY DEF InsideOf, Inside, Working
  <2> QED BY <1>1, <2>1
<1> HIDE DEF S
<1> DEFINE T == {j \in S : pc[j] # "clearing"}
<1>3. T \in SUBSET Jobs /\ \A j \in T : StageOf(j) \in {"new", "open", "running"}
  BY <1>2, StageValues DEF StageAt, Working
<1>4. \A j \in Jobs : StageOf(j)' = IF j \in T THEN "closed" ELSE StageOf(j)
  <2>1. ASSUME NEW j \in Jobs PROVE StageAt(pc'[j]) = IF j \in T THEN "closed" ELSE StageAt(pc[j])
    <3>1. CASE j \in T
      BY <1>2, <3>1 DEF StageAt, Working
    <3>2. CASE j \in S /\ pc[j] = "clearing"
      BY <1>2, <3>2 DEF StageAt, Working
    <3>3. CASE j \notin S
      BY <1>2, <3>3
    <3> QED BY <3>1, <3>2, <3>3
  <2> QED BY <2>1, StageValues, NextStageValues
<1> HIDE DEF T
<1>5. Stages' = [j \in Jobs |-> IF j \in T THEN "closed" ELSE Stages[j]]
  BY <1>4 DEF Stages
<1>6. \A j \in T : Stages[j] \in {"new", "open", "running"}
  BY <1>3 DEF Stages
<1>7. row' = row /\ row = [j \in Jobs |-> row[j]]
  BY DEF Crash, JobInv
<1> DEFINE W == {}
           r == [j \in W |-> "done"]
<1>8. /\ W \in SUBSET {j \in T : Stages[j] = "running"} /\ r \in [W -> Lifecycle!Settled]
      /\ row' = [j \in Jobs |-> IF j \in W THEN r[j] ELSE row[j]]
  BY <1>7 DEF Lifecycle!Settled
<1>9. Lifecycle!GiveUp(T)
  BY <1>5, <1>6, <1>8 DEF Lifecycle!GiveUp, Stages
<1> QED BY <1>3, <1>9 DEF Lifecycle!Next

LEMMA NextMaps == JobInv /\ [Next]_vars => [Lifecycle!Next]_(Lifecycle!vars)
<1> SUFFICES ASSUME JobInv, [Next]_vars PROVE [Lifecycle!Next]_(Lifecycle!vars)
  OBVIOUS
<1>1. CASE UNCHANGED vars
  <2>1. row' = row /\ \A j \in Jobs : StageOf(j)' = StageOf(j)
    BY <1>1, StageValues, NextStageValues DEF vars
  <2> QED BY <2>1 DEF Lifecycle!vars
<1> QED BY <1>1, StepMaps, CrashMaps DEF Next

(* A recording keeps the promise of a check job (CheckLifecycle), for any   *)
(* number of jobs, keys, processes and failing commands: it is transcribed  *)
(* at most once, never after its row was settled, and its row does not go   *)
(* back to "processing" (audio.py:88-133, 251-300).                         *)
THEOREM RecordingKeepsLifecycle == Spec => ImplementsLifecycle
  BY LifecycleInit, NextMaps, AlwaysJobInv, PTL DEF Spec, ImplementsLifecycle, Lifecycle!Spec

-----------------------------------------------------------------------------
(* The list of the keys: a command keeps its elements among the keys, and  *)
(* none makes it longer.                                                    *)

(* What holds of 0, and of n + 1 when it holds of n, holds up to N. *)
LEMMA UpTo ==
  ASSUME NEW N \in Nat, NEW T, 0 \in T, \A n \in 0..N : n < N /\ n \in T => n + 1 \in T
  PROVE  0..N \subseteq T
  <1> DEFINE R == OpToRel(<, Nat)
             U == (0..N) \ T
  <1>1. IsWellFoundedOn(R, Nat)
    BY NatLessThanWellFounded
  <1>2. \A a, b \in Nat : <<a, b>> \in R <=> a < b
    BY DEF OpToRel
  <1>3. U \subseteq Nat
    OBVIOUS
  <1>4. CASE U # {}
    <2>1. PICK t \in U : \A u \in U : ~ (<<u, t>> \in R)
      <3> HIDE DEF R, U
      <3>1. QED
        BY <1>1, <1>3, <1>4, WFMin
    <2>2. t \in 0..N /\ t \notin T /\ t # 0
      OBVIOUS
    <2>3. t - 1 \in 0..N /\ t - 1 < N /\ (t - 1) + 1 = t
      BY <2>2
    <2>4. t - 1 \notin T
      BY <2>2, <2>3
    <2>5. t - 1 \in U /\ t - 1 < t /\ t - 1 \in Nat /\ t \in Nat
      BY <2>2, <2>3, <2>4
    <2>6. QED
      BY <1>2, <2>1, <2>5
  <1>5. CASE U = {}
    BY <1>5
  <1>6. QED
    BY <1>4, <1>5

\* What LREM does with the first n elements.
Body(s, x, f, n) == IF n = 0 THEN <<>>
                    ELSE IF s[n] = x THEN f[n - 1]
                    ELSE Append(f[n - 1], s[n])

LEMMA KeptExists ==
  ASSUME NEW K, NEW s \in Seq(K), NEW x
  PROVE  \E f : f = [n \in 0..Len(s) |-> Body(s, x, f, n)]
  <1> DEFINE Solves(f, m) == f = [n \in 0..m |-> Body(s, x, f, n)]
             T == {m \in 0..Len(s) : \E f : Solves(f, m)}
  <1>1. Len(s) \in Nat
    OBVIOUS
  <1>2. 0 \in T
    <2> DEFINE f == [n \in 0..0 |-> <<>>]
    <2>1. Solves(f, 0)
      BY DEF Body
    <2>2. QED
      BY <1>1, <2>1
  <1>3. ASSUME NEW m \in 0..Len(s), m < Len(s), m \in T PROVE m + 1 \in T
    <2>1. PICK f : Solves(f, m)
      BY <1>3
    <2> DEFINE g == [n \in 0..(m + 1) |-> IF n <= m THEN f[n] ELSE Body(s, x, f, m + 1)]
    <2>2. \A n \in 0..m : g[n] = f[n] /\ f[n] = Body(s, x, f, n)
      BY <2>1
    <2>3. \A n \in 0..(m + 1) : Body(s, x, g, n) = Body(s, x, f, n)
      <3>1. ASSUME NEW n \in 0..(m + 1), n # 0 PROVE g[n - 1] = f[n - 1]
        BY <2>2, <3>1
      <3>2. QED
        BY <3>1 DEF Body
    <2>4. \A n \in 0..(m + 1) : g[n] = Body(s, x, g, n)
      <3>1. ASSUME NEW n \in 0..(m + 1) PROVE g[n] = Body(s, x, g, n)
        <4>1. CASE n <= m
          <5>1. n \in 0..m
            BY <4>1
          <5>2. QED
            BY <2>2, <2>3, <5>1
        <4>2. CASE ~ (n <= m)
          <5>1. n = m + 1 /\ g[n] = Body(s, x, f, m + 1)
            BY <4>2
          <5>2. QED
            BY <2>3, <5>1
        <4>3. QED
          BY <4>1, <4>2
      <3>2. QED
        BY <3>1
    <2>5. Solves(g, m + 1)
      <3>1. g = [n \in 0..(m + 1) |-> g[n]]
        OBVIOUS
      <3> HIDE DEF g
      <3>2. [n \in 0..(m + 1) |-> g[n]] = [n \in 0..(m + 1) |-> Body(s, x, g, n)]
        BY <2>4
      <3>3. QED
        BY <3>1, <3>2
    <2> HIDE DEF Solves, g
    <2>6. m + 1 \in 0..Len(s)
      BY <1>1, <1>3
    <2>7. QED
      BY <2>5, <2>6
  <1>4. Len(s) \in T
    <2> HIDE DEF T
    <2>1. \A m \in 0..Len(s) : m < Len(s) /\ m \in T => m + 1 \in T
      BY <1>3
    <2>2. 0..Len(s) \subseteq T
      BY <1>1, <1>2, <2>1, UpTo
    <2>3. QED
      BY <1>1, <2>2
  <1>5. QED
    BY <1>4

\* LREM.
LEMMA RemoveFromList ==
  ASSUME NEW K, NEW s \in Seq(K), NEW x
  PROVE  LRem(s, x) \in Seq(K) /\ Len(LRem(s, x)) <= Len(s)
  <1>1. PICK f : f = [n \in 0..Len(s) |-> Body(s, x, f, n)] /\ LRem(s, x) = f[Len(s)]
    <2>1. PICK g : g = [n \in 0..Len(s) |-> Body(s, x, g, n)]
      BY KeptExists
    <2>2. g = [n \in 0..Len(s) |-> IF n = 0 THEN <<>> ELSE IF s[n] = x THEN g[n - 1]
                                   ELSE Append(g[n - 1], s[n])]
      BY <2>1 DEF Body
    <2>3. \E f : /\ LRem(s, x) = f[Len(s)]
                 /\ f = [n \in 0..Len(s) |-> IF n = 0 THEN <<>> ELSE IF s[n] = x THEN f[n - 1]
                                            ELSE Append(f[n - 1], s[n])]
      BY <2>2 DEF LRem
    <2>4. QED
      BY <2>3 DEF Body
  <1> DEFINE T == {n \in 0..Len(s) : f[n] \in Seq(K) /\ Len(f[n]) <= n}
  <1>2. Len(s) \in Nat
    OBVIOUS
  <1>3. \A n \in 0..Len(s) : f[n] = Body(s, x, f, n)
    BY <1>1
  <1>4. 0 \in T
    <2>1. f[0] = <<>>
      BY <1>2, <1>3 DEF Body
    <2>2. <<>> \in Seq(K) /\ Len(<<>>) <= 0
      OBVIOUS
    <2>3. f[0] \in Seq(K) /\ Len(f[0]) <= 0
      BY <2>1, <2>2
    <2>4. QED
      BY <1>2, <2>3
  <1>5. ASSUME NEW n \in 0..Len(s), n < Len(s), n \in T PROVE n + 1 \in T
    <2>1. f[n] \in Seq(K) /\ Len(f[n]) <= n /\ n + 1 \in 0..Len(s) /\ s[n + 1] \in K
      BY <1>2, <1>5
    <2>2. f[n + 1] = IF s[n + 1] = x THEN f[n] ELSE Append(f[n], s[n + 1])
      <3>1. n + 1 # 0 /\ (n + 1) - 1 = n
        OBVIOUS
      <3>2. QED
        BY <1>3, <2>1, <3>1 DEF Body
    <2>3. f[n + 1] \in Seq(K) /\ Len(f[n + 1]) <= n + 1
      BY <2>1, <2>2
    <2>4. QED
      BY <2>1, <2>3
  <1>6. Len(s) \in T
    <2> HIDE DEF T
    <2>1. \A n \in 0..Len(s) : n < Len(s) /\ n \in T => n + 1 \in T
      BY <1>5
    <2>2. 0..Len(s) \subseteq T
      BY <1>2, <1>4, <2>1, UpTo
    <2>3. QED
      BY <1>2, <2>2
  <1>7. QED
    BY <1>1, <1>6

\* RPOPLPUSH.
LEMMA RotateList ==
  ASSUME NEW K, NEW s \in Seq(K), s # <<>>
  PROVE  Last(s) \in K /\ RPopLPush(s) \in Seq(K) /\ Len(RPopLPush(s)) = Len(s)
  <1> DEFINE m == Len(s) - 1
             u == SubSeq(s, 1, m)
  <1>1. Len(s) \in Nat \ {0}
    OBVIOUS
  <1>2. Last(s) \in K
    BY <1>1 DEF Last
  <1>3. u \in Seq(K) /\ Len(u) = m /\ u = Front(s)
    <2>1. m \in Nat /\ m <= Len(s)
      BY <1>1
    <2>2. u = Front(s)
      BY DEF Front
    <2> HIDE DEF m
    <2>3. QED
      BY <2>1, <2>2
  <1> HIDE DEF u
  <1>4. \A t \in Seq(K), x \in K : Cons(x, t) \in Seq(K) /\ Len(Cons(x, t)) = Len(t) + 1
    BY DEF Cons
  <1>5. Cons(Last(s), u) \in Seq(K) /\ Len(Cons(Last(s), u)) = Len(u) + 1
    BY <1>2, <1>3, <1>4
  <1>6. RPopLPush(s) = Cons(Last(s), u)
    BY <1>3 DEF RPopLPush, LPush
  <1>7. QED
    BY <1>1, <1>2, <1>3, <1>5, <1>6
-----------------------------------------------------------------------------
(* The types.                                                              *)

Pcs == {"new", "declined", "filed", "failed", "waiting", "cycle", "attempt",
        "billing", "saving", "failing", "clearing", "ended", "lost"}

\* The list is never longer than there are keys, and so is no cycle.
PoolTyped == /\ pool \in Seq(Keys) /\ Len(pool) <= Cardinality(Keys)
             /\ seen \in [Jobs -> SUBSET Keys]
             /\ left \in [Jobs -> 0..Cardinality(Keys)]

JobsTyped == /\ row  \in [Jobs -> {"absent", "processing", "done", "error"}]
             /\ file \in [Jobs -> BOOLEAN]
             /\ pc   \in [Jobs -> Pcs]
             /\ key  \in [Jobs -> Keys \cup {NoKey}]
             /\ \A j \in Jobs : key[j] # NoKey => pc[j] \in {"attempt", "lost"}

PlacesInv == \A j \in Jobs : Cardinality(InsideOf(Home[j])) <= Places

AInv == PoolTyped /\ JobsTyped /\ PlacesInv

LEMMA KeysCounted == Cardinality(Keys) \in Nat
  BY ConstantsAssumption, FS_CardinalityType

LEMMA InsideFinite == ASSUME NEW h PROVE IsFiniteSet(InsideOf(h)) /\ Cardinality(InsideOf(h)) \in Nat
  <1>1. InsideOf(h) \in SUBSET Jobs
    BY DEF InsideOf, Inside
  <1>2. QED
    BY <1>1, ConstantsAssumption, FS_Subset, FS_CardinalityType

LEMMA InitAInv == Init => AInv
  <1> SUFFICES ASSUME Init PROVE AInv
    OBVIOUS
  <1>1. PoolTyped
    <2>1. pool \in [1..Cardinality(Keys) -> Keys]
      BY DEF Init, SetToSeqs
    <2>2. QED
      BY <2>1, KeysCounted DEF Init, PoolTyped
  <1>2. JobsTyped
    BY DEF Init, JobsTyped, Pcs
  <1>3. PlacesInv
    <2>1. \A h : InsideOf(h) = {}
      BY DEF Init, InsideOf, Inside
    <2>2. QED
      BY <2>1, FS_EmptySet, ConstantsAssumption DEF PlacesInv
  <1>4. QED
    BY <1>1, <1>2, <1>3 DEF AInv

\* A place is taken by no step but Enter.
LEMMA PlacesStay ==
  ASSUME PlacesInv, \A k \in Jobs : pc'[k] \in Working => pc[k] \in Working
  PROVE  PlacesInv'
  <1>1. \A h : InsideOf(h)' \in SUBSET InsideOf(h)
    BY DEF InsideOf, Inside, Working
  <1>2. ASSUME NEW j \in Jobs PROVE Cardinality(InsideOf(Home[j])') <= Places
    <2> DEFINE A == InsideOf(Home[j])
               B == InsideOf(Home[j])'
    <2>1. IsFiniteSet(A) /\ Cardinality(A) \in Nat /\ Cardinality(A) <= Places
      BY InsideFinite DEF PlacesInv
    <2>2. B \in SUBSET A
      BY <1>1
    <2> HIDE DEF A, B
    <2>3. Cardinality(B) <= Cardinality(A) /\ Cardinality(B) \in Nat
      BY <2>1, <2>2, FS_Subset, FS_CardinalityType
    <2>4. Cardinality(B) <= Places
      BY <2>1, <2>3, ConstantsAssumption
    <2>5. QED
      BY <2>4 DEF B
  <1>3. QED
    BY <1>2 DEF PlacesInv

\* One job moves, and keeps outside or inside.
LEMMA OneJobTyped ==
  ASSUME AInv, NEW j \in Jobs, NEW p \in Pcs, Go(j, p)
  PROVE  /\ pc' \in [Jobs -> Pcs] /\ pc'[j] = p
         /\ \A k \in Jobs \ {j} : pc'[k] = pc[k]
         /\ p \notin Working \/ pc[j] \in Working => PlacesInv'
  <1>1. pc' \in [Jobs -> Pcs] /\ pc'[j] = p /\ \A k \in Jobs \ {j} : pc'[k] = pc[k]
    BY DEF AInv, JobsTyped, Go
  <1>2. p \notin Working \/ pc[j] \in Working => \A k \in Jobs : pc'[k] \in Working => pc[k] \in Working
    BY <1>1
  <1>3. QED
    BY <1>1, <1>2, PlacesStay DEF AInv

LEMMA RequestTyped == ASSUME AInv, NEW j \in Jobs, Request(j) PROVE AInv'
  <1>1. PICK p \in {"declined", "filed", "waiting", "failed"} : Go(j, p)
    BY DEF Request, Decline, SaveFile, SaveRow, SaveRowOrUnlink
  <1>2. /\ pc' \in [Jobs -> Pcs] /\ pc'[j] = p
        /\ \A k \in Jobs \ {j} : pc'[k] = pc[k]
        /\ PlacesInv'
    <2>1. p \in Pcs /\ p \notin Working
      BY DEF Pcs, Working
    <2>2. QED
      BY <1>1, <2>1, OneJobTyped
  <1>3. pc[j] \in {"new", "filed"} /\ UNCHANGED <<pool, key, seen, left>>
    BY DEF Request, Decline, SaveFile, SaveRow, SaveRowOrUnlink, At, loop
  <1>4. row' \in [Jobs -> {"absent", "processing", "done", "error"}] /\ file' \in [Jobs -> BOOLEAN]
    BY DEF AInv, JobsTyped, Request, Decline, SaveFile, SaveRow, SaveRowOrUnlink, Row, Unlink
  <1>5. key[j] = NoKey
    BY <1>3 DEF AInv, JobsTyped
  <1>6. QED
    BY <1>2, <1>3, <1>4, <1>5 DEF AInv, JobsTyped, PoolTyped

LEMMA EnterTyped == ASSUME AInv, NEW j \in Jobs, Enter(j) PROVE AInv'
  <1>1. PICK p \in {"failing", "cycle"} :
          /\ Go(j, p)
          /\ \/ UNCHANGED <<seen, left>>
             \/ seen' = [seen EXCEPT ![j] = {}] /\ left' = [left EXCEPT ![j] = Len(pool)]
    BY DEF Enter, EnterPlace
  <1>2. /\ pc[j] = "waiting" /\ Cardinality(InsideOf(Home[j])) < Places
        /\ UNCHANGED <<pool, row, file, key>>
    BY DEF Enter, EnterPlace, At
  <1>3. /\ pc' \in [Jobs -> Pcs] /\ pc'[j] = p /\ p \in Working
        /\ \A k \in Jobs \ {j} : pc'[k] = pc[k]
    BY <1>1, OneJobTyped DEF Pcs, Working
  <1>4. PoolTyped'
    BY <1>1, <1>2, KeysCounted DEF AInv, PoolTyped
  <1>5. JobsTyped'
    BY <1>2, <1>3 DEF AInv, JobsTyped
  <1>6. ASSUME NEW k \in Jobs PROVE Cardinality(InsideOf(Home[k])') <= Places
    <2> DEFINE A == InsideOf(Home[k])
               B == InsideOf(Home[k])'
    <2>1. B = IF Home[k] = Home[j] THEN A \cup {j} ELSE A
      BY <1>2, <1>3 DEF InsideOf, Inside, Working
    <2>2. IsFiniteSet(A) /\ Cardinality(A) \in Nat /\ Cardinality(A) <= Places
      BY InsideFinite DEF AInv, PlacesInv
    <2>3. Home[k] = Home[j] => Cardinality(A) < Places
      BY <1>2
    <2>4. Cardinality(A \cup {j}) \in {Cardinality(A), Cardinality(A) + 1}
      BY <2>2, FS_AddElement
    <2> HIDE DEF A, B
    <2>5. Cardinality(B) <= Places
      BY <2>1, <2>2, <2>3, <2>4, ConstantsAssumption
    <2>6. QED
      BY <2>5 DEF B
  <1>7. QED
    BY <1>4, <1>5, <1>6 DEF AInv, PlacesInv

\* A job that works goes on with its cycle, or leaves it.
LEMMA WorkTyped ==
  ASSUME AInv, NEW j \in Jobs, pc[j] \in Working, NEW p \in Pcs, Go(j, p), PoolTyped',
         row' \in [Jobs -> {"absent", "processing", "done", "error"}], file' \in [Jobs -> BOOLEAN],
         NEW k \in Keys \cup {NoKey}, key' = [key EXCEPT ![j] = k], k # NoKey => p = "attempt"
  PROVE  AInv'
  <1>1. /\ pc' \in [Jobs -> Pcs] /\ pc'[j] = p
        /\ \A i \in Jobs \ {j} : pc'[i] = pc[i]
        /\ PlacesInv'
    BY OneJobTyped
  <1>2. key' \in [Jobs -> Keys \cup {NoKey}] /\ \A i \in Jobs : key'[i] = IF i = j THEN k ELSE key[i]
    BY DEF AInv, JobsTyped
  <1>3. QED
    BY <1>1, <1>2 DEF AInv, JobsTyped

LEMMA RotateTyped == ASSUME AInv, NEW j \in Jobs, Rotate(j) PROVE AInv'
  <1>1. /\ pc[j] = "cycle" /\ pc[j] \in Working /\ UNCHANGED <<row, file>>
        /\ key[j] = NoKey /\ key = [key EXCEPT ![j] = NoKey]
    BY DEF Rotate, At, Working, AInv, JobsTyped
  <1>2. CASE left[j] = 0 \/ pool = <<>>
    <2>1. Go(j, "failing") /\ UNCHANGED <<pool, key, seen, left>>
      BY <1>2 DEF Rotate, loop
    <2>2. PoolTyped' /\ "failing" \in Pcs
      BY <2>1 DEF AInv, PoolTyped, Pcs
    <2>3. QED
      BY <1>1, <2>1, <2>2, WorkTyped DEF AInv, JobsTyped
  <1>3. CASE ~ (left[j] = 0 \/ pool = <<>>)
    <2>1. pool' = RPopLPush(pool)
      BY <1>3 DEF Rotate
    <2>2. Last(pool) \in Keys /\ pool' \in Seq(Keys) /\ Len(pool') = Len(pool)
      BY <1>3, <2>1, RotateList DEF AInv, PoolTyped
    <2>3. CASE Last(pool) \in seen[j]
      <3>1. Go(j, "failing") /\ UNCHANGED <<key, seen, left>>
        BY <1>3, <2>3 DEF Rotate, loop
      <3>2. PoolTyped' /\ "failing" \in Pcs
        BY <2>2, <3>1 DEF AInv, PoolTyped, Pcs
      <3>3. QED
        BY <1>1, <3>1, <3>2, WorkTyped DEF AInv, JobsTyped
    <2>4. CASE Last(pool) \notin seen[j]
      <3>1. /\ Go(j, "attempt") /\ key' = [key EXCEPT ![j] = Last(pool)]
            /\ seen' = [seen EXCEPT ![j] = @ \cup {Last(pool)}]
            /\ left' = [left EXCEPT ![j] = @ - 1]
        BY <1>3, <2>4 DEF Rotate
      <3>2. left[j] - 1 \in 0..Cardinality(Keys)
        BY <1>3, KeysCounted DEF AInv, PoolTyped
      <3>3. left' \in [Jobs -> 0..Cardinality(Keys)] /\ seen' \in [Jobs -> SUBSET Keys]
        BY <2>2, <3>1, <3>2 DEF AInv, PoolTyped
      <3>4. PoolTyped' /\ "attempt" \in Pcs
        BY <2>2, <3>3 DEF AInv, PoolTyped, Pcs
      <3>5. QED
        BY <1>1, <2>2, <3>1, <3>4, WorkTyped DEF AInv, JobsTyped
    <2>5. QED
      BY <2>3, <2>4
  <1>4. QED
    BY <1>2, <1>3

LEMMA AttemptTyped == ASSUME AInv, NEW j \in Jobs, Attempt(j) PROVE AInv'
  <1>1. PICK p \in {"billing", "cycle", "failing"} :
          Go(j, p) /\ pool' \in {pool, LRem(pool, key[j])}
    BY DEF Attempt, AttemptUnlinks
  <1>2. /\ pc[j] = "attempt" /\ key' = [key EXCEPT ![j] = NoKey] /\ Unlink(j)
        /\ UNCHANGED <<row, seen, left>>
    BY DEF Attempt, AttemptUnlinks, At
  <1>3. LRem(pool, key[j]) \in Seq(Keys) /\ Len(LRem(pool, key[j])) <= Len(pool)
    BY RemoveFromList DEF AInv, PoolTyped
  <1>4. pool' \in Seq(Keys) /\ Len(pool') <= Cardinality(Keys)
    BY <1>1, <1>3, KeysCounted DEF AInv, PoolTyped
  <1>5. PoolTyped' /\ p \in Pcs /\ pc[j] \in Working
    BY <1>2, <1>4 DEF AInv, PoolTyped, Pcs, Working
  <1>6. QED
    BY <1>1, <1>2, <1>5, WorkTyped DEF AInv, JobsTyped, Unlink

LEMMA EndTyped ==
  ASSUME AInv, NEW j \in Jobs, RotateFails(j) \/ Bill(j) \/ SaveDone(j) \/ SaveError(j) \/ Clear(j)
  PROVE  AInv'
  <1>1. PICK p \in {"failing", "saving", "clearing", "ended"} : Go(j, p)
    BY DEF RotateFails, Bill, SaveDone, SaveError, Clear
  <1>2. /\ pc[j] \in {"cycle", "billing", "saving", "failing", "clearing"}
        /\ UNCHANGED <<pool, key, seen, left>>
    BY DEF RotateFails, Bill, SaveDone, SaveError, Clear, At, loop
  <1>3. row' \in [Jobs -> {"absent", "processing", "done", "error"}] /\ file' \in [Jobs -> BOOLEAN]
    BY DEF RotateFails, Bill, SaveDone, SaveError, Clear, Row, Unlink, AInv, JobsTyped
  <1>4. PoolTyped' /\ p \in Pcs /\ pc[j] \in Working
    BY <1>2 DEF AInv, PoolTyped, Pcs, Working
  <1>5. key[j] = NoKey /\ key' = [key EXCEPT ![j] = NoKey]
    BY <1>2 DEF AInv, JobsTyped
  <1>6. QED
    BY <1>1, <1>3, <1>4, <1>5, WorkTyped

LEMMA AlwaysAInv == Spec => []AInv
  <1>1. AInv /\ [Next]_vars => AInv'
    <2> SUFFICES ASSUME AInv, [Next]_vars PROVE AInv'
      OBVIOUS
    <2>1. CASE UNCHANGED vars
      BY <2>1, PlacesStay DEF vars, AInv, PoolTyped, JobsTyped
    <2>2. CASE Crash
      <3>1. PICK S : pc' = [j \in Jobs |-> IF j \in S THEN "lost" ELSE pc[j]]
        BY <2>2 DEF Crash
      <3>2. UNCHANGED <<pool, row, file, key, seen, left>>
        BY <2>2 DEF Crash, loop
      <3>3. /\ pc' \in [Jobs -> Pcs] /\ \A j \in Jobs : pc'[j] \in {pc[j], "lost"}
        BY <3>1 DEF AInv, JobsTyped, Pcs
      <3>4. PlacesInv'
        BY <3>3, PlacesStay DEF AInv, Working
      <3>5. QED
        BY <3>2, <3>3, <3>4 DEF AInv, PoolTyped, JobsTyped
    <2>3. ASSUME NEW j \in Jobs, Expire(j) PROVE AInv'
      <3>1. UNCHANGED <<pool, file, pc, key, seen, left>> /\ row' = [row EXCEPT ![j] = "absent"]
        BY <2>3 DEF Expire, Row, loop
      <3>2. PlacesInv'
        BY <3>1, PlacesStay DEF AInv
      <3>3. QED
        BY <3>1, <3>2 DEF AInv, PoolTyped, JobsTyped
    <2>4. QED
      BY <2>1, <2>2, <2>3, RequestTyped, EnterTyped, RotateTyped, AttemptTyped, EndTyped
         DEF Next, Task
  <1>2. QED
    BY <1>1, InitAInv, PTL DEF Spec

\* The types, among them that a recording holds a key only while it is tried, and that no
\* process works on more recordings than its semaphore has places.
THEOREM AudioTypeCorrect == Spec => []TypeOK
  <1>1. AInv => TypeOK
    BY DEF AInv, PoolTyped, JobsTyped, PlacesInv, TypeOK, Pcs, At
  <1>2. QED
    BY <1>1, AlwaysAInv, PTL
=============================================================================
