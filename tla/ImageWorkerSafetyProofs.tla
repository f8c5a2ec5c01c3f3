-------------------------- MODULE ImageWorkerSafetyProofs --------------------------
(***************************************************************************)
(* What else holds of the image worker, for any jobs, Contents and         *)
(* work-horses: a job is claimed within its attempts, a completion never   *)
(* collides with an image that is there, and, if no process dies between   *)
(* two steps, what is left over is what the sweep of a worker start and    *)
(* the image rows account for.  And what the promise of JobLifecycle means *)
(* to a reader of jobs and images.                                         *)
(*                                                                         *)
(* A work-horse that holds no job is idle; the invariants say what RQ, the *)
(* row locks and storage may hold for one at each of its other places.     *)
(***************************************************************************)
EXTENDS ImageWorkerProofs, FiniteSetTheorems

\* The step takes the work-horse on within its execution.
Proceeds(h) ==
    /\ UNCHANGED rqVars
    /\ run' = [run EXCEPT ![h] = run'[h]]
    /\ run'[h].job = run[h].job
    /\ run'[h].pc \notin {"idle", "claim"}

\* The step is not the first of an execution: it moves on, or ends, one.
Continues(h) ==
    /\ run[h].pc # "idle" /\ run[h].job \in Job
    /\ UNCHANGED <<attempts, deleted>>
    /\ Return(h) \/ Raise(h) \/ Proceeds(h)
    /\ \A j \in Job : status'[j] = "PENDING" => status[j] = "PENDING"
    /\ run[h].pc = "claim" => "crash" \in Faults \/ "exception" \in Faults

LEMMA GotoProceeds ==
  ASSUME Typed, NEW h \in Horse, NEW where \in Where \ {"idle", "claim"}, Goto(h, where)
  PROVE  Proceeds(h)
<1>1. run \in [Horse -> Registers]
  BY DEF Typed, TypeOK
<1>. QED  BY <1>1 DEF Goto, Proceeds, Registers

LEMMA HandleProceeds ==
  ASSUME Typed, NEW h \in Horse, Handle(h)
  PROVE  Raise(h) \/ Proceeds(h)
<1>1. "fail_raise" \in Where \ {"idle", "claim"}
  BY DEF Where
<1>. QED  BY <1>1, GotoProceeds DEF Handle

LEMMA HandleCompletionErrorProceeds ==
  ASSUME Typed, NEW h \in Horse, NEW where \in {"cleanup", "undo"}, HandleCompletionError(h, where)
  PROVE  Raise(h) \/ Proceeds(h)
<1>1. where \in Where \ {"idle", "claim"}
  BY DEF Where
<1>. QED  BY <1>1, GotoProceeds, HandleProceeds DEF HandleCompletionError

LEMMA StepContinues ==
  ASSUME Typed, NEW h \in Horse, Step(h) \/ Fault(h)
  PROVE  (\E j \in Job : Dequeue(h, j)) \/ ClaimPendingById(h) \/ Continues(h)
<1>. SUFFICES ASSUME ~ClaimPendingById(h), ~ \E j \in Job : Dequeue(h, j) PROVE Continues(h)
  OBVIOUS
<1>. USE GotoProceeds, HandleProceeds, HandleCompletionErrorProceeds
<1>0. /\ run \in [Horse -> Registers] /\ status \in [Job -> Status]
      /\ {"lookup", "reserve", "recover", "complete", "fail_return", "fail_raise"}
            \subseteq Where \ {"idle", "claim"}
      /\ run[h].pc # "idle" => run[h].job \in Job
  BY DEF Typed, TypeOK, RegistersOK, Where
<1>1. CASE Generate(h) \/ GetImageByGenerationId(h) \/ RecoverExistingUpload(h)
  BY <1>0, <1>1 DEF Generate, GetImageByGenerationId, RecoverExistingUpload, Continues, columns
<1>2. CASE ReserveImageVersion(h) \/ NumberImage(h)
  <2>1. CASE Handle(h)
    BY <1>0, <1>2, <2>1 DEF ReserveImageVersion, NumberImage, Continues, columns
  <2>2. CASE ~Handle(h)
    <3>1. Proceeds(h)
      BY <1>0, <1>2, <2>2 DEF ReserveImageVersion, NumberImage, Proceeds, Registers
    <3>. QED  BY <1>0, <1>2, <3>1 DEF ReserveImageVersion, NumberImage, Continues, columns
  <2>. QED  BY <2>1, <2>2
<1>3. CASE Upload(h)
  <2>1. CASE Goto(h, "recover")
    BY <1>0, <1>3, <2>1 DEF Upload, Continues, columns
  <2>2. CASE ~Goto(h, "recover")
    <3>1. Proceeds(h)
      BY <1>0, <1>3, <2>2 DEF Upload, Proceeds, Registers
    <3>. QED  BY <1>0, <1>3, <3>1 DEF Upload, Continues, columns
  <2>. QED  BY <2>1, <2>2
<1>4. CASE FailUpload(h)
  BY <1>0, <1>4 DEF FailUpload, Continues, columns
<1>5. CASE CompleteJob(h)
  BY <1>0, <1>5 DEF CompleteJob, CommitCompletion, AtCompletion, Continues
<1>6. CASE RejectCompletion(h) \/ FailCommit(h)
  BY <1>0, <1>6 DEF RejectCompletion, FailCommit, AtCompletion, Continues, columns
<1>7. CASE DeleteObject(h) \/ FailDelete(h) \/ RejectImage(h)
  BY <1>0, <1>7 DEF DeleteObject, FailDelete, RejectImage, Continues, columns
<1>8. CASE FailJob(h)
  BY <1>0, <1>8 DEF FailJob, Continues
<1>9. CASE Interrupt(h) \/ Crash(h)
  BY <1>0, <1>9 DEF Interrupt, Crash, Continues, columns
<1>. QED  BY <1>1, <1>2, <1>3, <1>4, <1>5, <1>6, <1>7, <1>8, <1>9 DEF Step, Fault

-----------------------------------------------------------------------------
(* Attempts.  What is left of a job's budget is with the work-horses about  *)
(* to claim it, in its queue entry, or in the retries RQ still grants.      *)

AtClaim(j) == {h \in Horse : run[h].pc = "claim" /\ run[h].job = j}
Due(j) == IF entry[j] \in {"queued", "scheduled"} THEN 1 ELSE 0

\* RQ records the outcome of an execution that it counts as started only.
RunnerStarted == \A j \in Job : runner[j] # None => entry[j] = "started"

Budgeted(j) ==
    /\ IsFiniteSet(AtClaim(j))
    /\ attempts[j] + Cardinality(AtClaim(j)) + Due(j) + retries[j] <= MaxAttempts

Budget == RunnerStarted /\ \A j \in Job : Budgeted(j)

\* RQ grants nothing it did not have left.
Grants == RunnerStarted' /\ \A j \in Job : Due(j)' + retries'[j] <= Due(j) + retries[j]

LEMMA RqRetryGrants ==
  ASSUME Typed, RunnerStarted, NEW j \in Job, entry[j] = "started", RqRetry(j)
  PROVE  Grants
<1>1. /\ entry \in [Job -> {"queued", "started", "scheduled", "finished", "failed"}]
      /\ retries \in [Job -> Nat] /\ runner \in [Job -> Horse \union {None}]
  BY DEF Typed, TypeOK
<1>2. RunnerStarted'
  BY <1>1 DEF RqRetry, RunnerStarted
<1>3. \A k \in Job \ {j} : Due(k)' + retries'[k] <= Due(k) + retries[k]
  BY <1>1 DEF RqRetry, Due
<1>4. Due(j)' + retries'[j] <= Due(j) + retries[j]
  BY <1>1 DEF RqRetry, Due
<1>. QED  BY <1>2, <1>3, <1>4 DEF Grants

LEMMA SameGrants ==
  ASSUME Typed, RunnerStarted, UNCHANGED rqVars
  PROVE  Grants
  BY DEF Typed, TypeOK, RunnerStarted, Grants, Due, rqVars

LEMMA EndGrants ==
  ASSUME Typed, RunnerStarted, NEW h \in Horse, run[h].job \in Job, Return(h) \/ Raise(h)
  PROVE  Grants
<1>1. /\ entry \in [Job -> {"queued", "started", "scheduled", "finished", "failed"}]
      /\ retries \in [Job -> Nat] /\ runner \in [Job -> Horse \union {None}]
  BY DEF Typed, TypeOK
<1>2. runner[run[h].job] = h => entry[run[h].job] = "started"
  BY JobsAndHorses DEF RunnerStarted
<1>3. CASE Return(h)
  BY <1>1, <1>2, <1>3 DEF Return, Grants, RunnerStarted, Due
<1>4. CASE Raise(h)
  BY <1>2, <1>4, RqRetryGrants, SameGrants DEF Raise
<1>. QED  BY <1>3, <1>4

LEMMA FewerClaims ==
  ASSUME NEW S, NEW T \in SUBSET S, IsFiniteSet(S)
  PROVE  IsFiniteSet(T) /\ Cardinality(T) \in Nat /\ Cardinality(S) \in Nat
         /\ Cardinality(T) <= Cardinality(S)
  BY FS_Subset, FS_CardinalityType

\* A step that lets no work-horse come to a claim and claims no job.
LEMMA BudgetKept ==
  ASSUME Typed, Budget, Grants, UNCHANGED attempts,
         \A j \in Job : AtClaim(j)' \subseteq AtClaim(j),
         retries' \in [Job -> Nat]
  PROVE  Budget'
<1>1. ASSUME NEW j \in Job PROVE Budgeted(j)'
  <2>1. /\ IsFiniteSet(AtClaim(j)') /\ Cardinality(AtClaim(j)') \in Nat
        /\ Cardinality(AtClaim(j)) \in Nat /\ Cardinality(AtClaim(j)') <= Cardinality(AtClaim(j))
    BY FewerClaims DEF Budget, Budgeted
  <2>2. attempts[j] \in Nat /\ retries[j] \in Nat /\ Due(j) \in {0, 1} /\ Due(j)' \in {0, 1}
        /\ retries'[j] \in Nat
    BY DEF Typed, TypeOK, Due
  <2>3. Due(j)' + retries'[j] <= Due(j) + retries[j]
    BY DEF Grants
  <2>4. attempts[j] + Cardinality(AtClaim(j)) + Due(j) + retries[j] <= MaxAttempts
    BY DEF Budget, Budgeted
  <2>5. attempts[j] + Cardinality(AtClaim(j)') + Due(j)' + retries'[j] <= MaxAttempts
    BY <2>1, <2>2, <2>3, <2>4, AttemptsAssumption
  <2>. QED  BY <2>1, <2>5 DEF Budgeted
<1>. QED  BY <1>1 DEF Budget, Grants

LEMMA InitBudget == Init => Budget
<1>. SUFFICES ASSUME Init PROVE Budget
  OBVIOUS
<1>1. \A j \in Job : AtClaim(j) = {}
  BY DEF Init, AtClaim, IdleRun
<1>2. ASSUME NEW j \in Job PROVE Budgeted(j)
  <2>1. attempts[j] = 0 /\ Due(j) = 1 /\ retries[j] = MaxAttempts - 1
    BY DEF Init, Due, RetryMax
  <2>2. IsFiniteSet(AtClaim(j)) /\ Cardinality(AtClaim(j)) = 0
    BY <1>1, FS_EmptySet
  <2>. QED  BY <2>1, <2>2, AttemptsAssumption DEF Budgeted
<1>. QED  BY <1>2 DEF Init, Budget, RunnerStarted

\* The entry leaves the queue, and its work-horse comes to the claim.
LEMMA DequeueBudget ==
  ASSUME Typed, Budget, NEW h \in Horse, NEW j \in Job, Dequeue(h, j)
  PROVE  Budget'
<1>1. /\ run' = [run EXCEPT ![h] = [IdleRun EXCEPT !.pc = "claim", !.job = j]]
      /\ run \in [Horse -> Registers] /\ UNCHANGED <<attempts, retries>>
      /\ entry[j] = "queued" /\ entry' = [entry EXCEPT ![j] = "started"]
      /\ runner' = [runner EXCEPT ![j] = h] /\ run[h].pc = "idle"
      /\ entry \in [Job -> {"queued", "started", "scheduled", "finished", "failed"}]
      /\ retries \in [Job -> Nat] /\ runner \in [Job -> Horse \union {None}]
      /\ attempts \in [Job -> Nat]
  BY DEF Dequeue, Typed, TypeOK, columns
<1>2. RunnerStarted'
  BY <1>1 DEF Budget, RunnerStarted
<1>3. /\ AtClaim(j)' = AtClaim(j) \union {h} /\ h \notin AtClaim(j)
      /\ \A k \in Job \ {j} : AtClaim(k)' = AtClaim(k)
  BY <1>1 DEF AtClaim, IdleRun
<1>4. \A k \in Job \ {j} : Budgeted(k)'
  BY <1>1, <1>3 DEF Budget, Budgeted, Due
<1>5. Budgeted(j)'
  <2>1. Due(j) = 1 /\ Due(j)' = 0
    BY <1>1 DEF Due
  <2>2. /\ IsFiniteSet(AtClaim(j)') /\ Cardinality(AtClaim(j)) \in Nat
        /\ Cardinality(AtClaim(j)') = Cardinality(AtClaim(j)) + 1
    BY <1>3, FS_AddElement, FS_CardinalityType DEF Budget, Budgeted
  <2>3. attempts[j] + Cardinality(AtClaim(j)) + 1 + retries[j] <= MaxAttempts
    BY <2>1 DEF Budget, Budgeted
  <2>. QED  BY <1>1, <2>1, <2>2, <2>3, AttemptsAssumption DEF Budgeted
<1>. QED  BY <1>2, <1>4, <1>5 DEF Budget

\* The attempt is counted, and its work-horse leaves the claim.
LEMMA ClaimBudget ==
  ASSUME Typed, Budget, NEW h \in Horse, ClaimPendingById(h)
  PROVE  Budget'
<1>0. PICK j \in Job : j = run[h].job
  BY DEF ClaimPendingById, Typed, RegistersOK
<1>1. /\ run \in [Horse -> Registers] /\ attempts \in [Job -> Nat]
      /\ h \in AtClaim(j) /\ RqOK /\ RunOK /\ RunnerStarted /\ run[h].pc = "claim"
      /\ retries \in [Job -> Nat]
  BY <1>0, TypedParts DEF ClaimPendingById, Typed, TypeOK, RegistersOK, AtClaim, Budget
<1>2. Grants /\ retries' \in [Job -> Nat]
  <2>1. CASE Return(h) \/ Raise(h)
    BY <1>0, <1>1, <2>1, EndGrants, ReturnType, RaiseType DEF RqOK
  <2>2. CASE UNCHANGED rqVars
    BY <1>1, <2>2, SameGrants DEF rqVars
  <2>. QED  BY <2>1, <2>2 DEF ClaimPendingById
<1>3. AtClaim(j)' = AtClaim(j) \ {h} /\ \A k \in Job \ {j} : AtClaim(k)' = AtClaim(k)
  <2>1. /\ run'[h].pc # "claim"
        /\ \A g \in Horse \ {h} : run'[g] = run[g]
    BY <1>1 DEF ClaimPendingById, Return, Raise, IdleRun, Registers
  <2>. QED  BY <1>0, <1>1, <2>1 DEF AtClaim
<1>4. CASE UNCHANGED columns
  BY <1>2, <1>3, <1>4, BudgetKept DEF columns
<1>5. CASE Claim(j)
  <2>1. attempts' = [attempts EXCEPT ![j] = @ + 1]
    BY <1>5 DEF Claim
  <2>2. ASSUME NEW k \in Job PROVE Budgeted(k)'
    <3>1. /\ IsFiniteSet(AtClaim(k)') /\ Cardinality(AtClaim(k)) \in Nat
          /\ Cardinality(AtClaim(k)') = Cardinality(AtClaim(k)) - (IF k = j THEN 1 ELSE 0)
      <4>1. IsFiniteSet(AtClaim(k)) /\ Cardinality(AtClaim(k)) \in Nat
        BY FS_CardinalityType DEF Budget, Budgeted
      <4>2. CASE k = j
        BY <1>1, <1>3, <4>1, <4>2, FS_RemoveElement
      <4>3. CASE k # j
        BY <1>3, <4>1, <4>3
      <4>. QED  BY <4>2, <4>3
    <3>2. attempts'[k] = attempts[k] + (IF k = j THEN 1 ELSE 0)
      BY <1>1, <2>1
    <3>3. /\ attempts[k] \in Nat /\ retries[k] \in Nat /\ retries'[k] \in Nat
          /\ Due(k) \in {0, 1} /\ Due(k)' \in {0, 1}
          /\ Due(k)' + retries'[k] <= Due(k) + retries[k]
      BY <1>1, <1>2 DEF Due, Grants
    <3>4. attempts[k] + Cardinality(AtClaim(k)) + Due(k) + retries[k] <= MaxAttempts
      BY DEF Budget, Budgeted
    <3>5. attempts'[k] + Cardinality(AtClaim(k)') + Due(k)' + retries'[k] <= MaxAttempts
      BY <3>1, <3>2, <3>3, <3>4, AttemptsAssumption
    <3>. QED  BY <3>1, <3>5 DEF Budgeted
  <2>. QED  BY <1>2, <2>2 DEF Budget, Grants
<1>. QED  BY <1>0, <1>4, <1>5 DEF ClaimPendingById

LEMMA ContinuesBudget ==
  ASSUME Typed, Budget, NEW h \in Horse, Continues(h)
  PROVE  Budget'
<1>1. /\ run \in [Horse -> Registers] /\ RqOK /\ RunOK /\ RunnerStarted
      /\ run[h].pc # "idle" /\ run[h].job \in Job
  BY TypedParts DEF Continues, Typed, TypeOK, Budget
<1>2. Grants /\ retries' \in [Job -> Nat]
  <2>1. CASE Return(h) \/ Raise(h)
    BY <1>1, <2>1, EndGrants, ReturnType, RaiseType DEF RqOK
  <2>2. CASE Proceeds(h)
    BY <1>1, <2>2, SameGrants DEF Proceeds, rqVars, RqOK
  <2>. QED  BY <2>1, <2>2 DEF Continues
<1>3. \A j \in Job : AtClaim(j)' \subseteq AtClaim(j)
  <2>1. \A g \in Horse \ {h} : run'[g] = run[g]
    BY <1>1 DEF Continues, Return, Raise, Proceeds
  <2>2. run'[h].pc # "claim"
    BY <1>1 DEF Continues, Return, Raise, Proceeds, IdleRun
  <2>. QED  BY <2>1, <2>2 DEF AtClaim
<1>. QED  BY <1>2, <1>3, BudgetKept DEF Continues

LEMMA NextBudget == Typed /\ Budget /\ [Next]_vars => Budget'
<1>. SUFFICES ASSUME Typed, Budget, [Next]_vars PROVE Budget'
  OBVIOUS
<1>0. Typed' /\ RunnerStarted
  BY NextTyped DEF Budget
<1>1. ASSUME NEW h \in Horse, Step(h) \/ Fault(h) PROVE Budget'
  BY <1>1, StepContinues, DequeueBudget, ClaimBudget, ContinuesBudget
<1>2. ASSUME UNCHANGED <<attempts, run>>, Grants PROVE Budget'
  <2>1. \A j \in Job : AtClaim(j)' = AtClaim(j)
    BY <1>2 DEF AtClaim
  <2>2. retries' \in [Job -> Nat]
    BY <1>0 DEF Typed, TypeOK
  <2>. QED  BY <1>2, <2>1, <2>2, BudgetKept
<1>3. ASSUME NEW j \in Job, LoseWorker(j) PROVE Budget'
  BY <1>0, <1>2, <1>3, RqRetryGrants DEF LoseWorker, columns
<1>4. ASSUME NEW j \in Job, RetryDue(j) PROVE Budget'
  <2>1. Grants
    BY <1>0, <1>4 DEF RetryDue, Grants, RunnerStarted, Due, Typed, TypeOK
  <2>. QED  BY <1>2, <1>4, <2>1 DEF RetryDue, columns
<1>5. CASE \/ \E j \in Job : GrowStale(j)
           \/ RecoverStaleProcessingJobs
           \/ \E x \in Job \union Content \union User : SoftDelete(x)
           \/ UNCHANGED vars
  BY <1>0, <1>2, <1>5, SameGrants
  DEF GrowStale, RecoverStaleProcessingJobs, SoftDelete, vars, columns
<1>. QED  BY <1>1, <1>3, <1>4, <1>5 DEF Next

\* No job is claimed more often than max_attempts allows, although RQ counts
\* retries and the table counts attempts, and whichever worker is lost, killed
\* or interrupted at whichever point.
THEOREM AttemptsBounded == Spec => []AttemptsWithinBudget
<1>1. Typed /\ Budget => AttemptsWithinBudget
  <2>. SUFFICES ASSUME Typed, Budget, NEW j \in Job PROVE attempts[j] <= MaxAttempts
    BY DEF AttemptsWithinBudget
  <2>1. Cardinality(AtClaim(j)) \in Nat
    BY FS_CardinalityType DEF Budget, Budgeted
  <2>2. attempts[j] \in Nat /\ retries[j] \in Nat /\ Due(j) \in {0, 1}
    BY DEF Typed, TypeOK, Due
  <2>. QED  BY <2>1, <2>2, AttemptsAssumption DEF Budget, Budgeted
<1>. QED  BY <1>1, InitBudget, NextBudget, TypedAlways, PTL DEF Spec

-----------------------------------------------------------------------------
(* Row locks.  Whoever holds one is between the statement that took it and  *)
(* the end of its transaction.                                              *)

HoldsContent == {"upload", "recover", "complete", "cleanup"}
HoldsJob == HoldsContent \union {"number"}

JobLocksHeld ==
    \A j \in Job, h \in Horse : jobLock[j] = h => run[h].job = j /\ run[h].pc \in HoldsJob

ContentLocksHeld ==
    \A c \in Content, h \in Horse :
        contentLock[c] = h => ContentOf[run[h].job] = c /\ run[h].pc \in HoldsContent

LocksHeld == JobLocksHeld /\ ContentLocksHeld

\* A step of one work-horse that takes no lock, and keeps what it had only if
\* it stays in its transaction.
LEMMA LocksKept ==
  ASSUME Typed, LocksHeld, NEW h \in Horse,
         \A g \in Horse \ {h} : run'[g] = run[g],
         \/ Release(h)
         \/ UNCHANGED locks /\ run[h].pc \notin HoldsJob
         \/ UNCHANGED locks /\ run[h].pc \in HoldsContent /\ run'[h].pc \in HoldsContent
            /\ run'[h].job = run[h].job
  PROVE  LocksHeld'
<1>1. CASE Release(h)
  <2>1. \A j \in Job, g \in Horse : jobLock'[j] = g => g # h /\ jobLock[j] = g
    BY <1>1, JobsAndHorses DEF Release
  <2>2. \A c \in Content, g \in Horse : contentLock'[c] = g => g # h /\ contentLock[c] = g
    BY <1>1, JobsAndHorses DEF Release
  <2>. QED  BY <2>1, <2>2 DEF LocksHeld, JobLocksHeld, ContentLocksHeld
<1>2. CASE UNCHANGED locks /\ run[h].pc \notin HoldsJob
  BY <1>2 DEF LocksHeld, JobLocksHeld, ContentLocksHeld, locks, HoldsJob
<1>3. CASE UNCHANGED locks /\ run[h].pc \in HoldsContent /\ run'[h].pc \in HoldsContent
           /\ run'[h].job = run[h].job
  BY <1>3 DEF LocksHeld, JobLocksHeld, ContentLocksHeld, locks, HoldsJob
<1>. QED  BY <1>1, <1>2, <1>3

LEMMA InitLocksHeld == Init => LocksHeld
  BY JobsAndHorses DEF Init, LocksHeld, JobLocksHeld, ContentLocksHeld

\* A step of a work-horse changes its own registers only.
LEMMA OthersKept ==
  ASSUME Typed, NEW h \in Horse, Step(h) \/ Fault(h)
  PROVE  \A g \in Horse \ {h} : run'[g] = run[g]
<1>0. run \in [Horse -> Registers]
  BY DEF Typed, TypeOK
<1>1. CASE Continues(h)
  BY <1>0, <1>1 DEF Continues, Return, Raise, Proceeds
<1>2. CASE ClaimPendingById(h)
  BY <1>0, <1>2 DEF ClaimPendingById, Return, Raise
<1>3. ASSUME NEW j \in Job, Dequeue(h, j) PROVE \A g \in Horse \ {h} : run'[g] = run[g]
  BY <1>0, <1>3 DEF Dequeue
<1>. QED  BY <1>1, <1>2, <1>3, StepContinues

LEMMA StepLocksHeld ==
  ASSUME Typed, LocksHeld, NEW h \in Horse, Step(h) \/ Fault(h)
  PROVE  LocksHeld'
<1>0. /\ \A g \in Horse \ {h} : run'[g] = run[g]
      /\ run \in [Horse -> Registers]
      /\ jobLock \in [Job -> Horse \union {None}]
      /\ contentLock \in [Content -> Horse \union {None}]
  BY OthersKept DEF Typed, TypeOK
<1>1. CASE \/ \E j \in Job : Dequeue(h, j)
           \/ ClaimPendingById(h) \/ Generate(h) \/ GetImageByGenerationId(h) \/ FailJob(h)
  <2>1. UNCHANGED locks /\ run[h].pc \notin HoldsJob
    BY <1>1 DEF Dequeue, ClaimPendingById, Generate, GetImageByGenerationId, FailJob,
       HoldsJob, HoldsContent
  <2>. QED  BY <1>0, <2>1, LocksKept
<1>2. CASE ReserveImageVersion(h)
  <2>1. run[h].pc = "reserve" /\ run[h].job \in Job /\ UNCHANGED contentLock
    BY <1>2 DEF ReserveImageVersion, Typed, RegistersOK
  <2>2. run[h].pc \notin HoldsJob
    BY <2>1 DEF HoldsJob, HoldsContent
  <2>3. CASE UNCHANGED jobLock
    BY <1>0, <2>1, <2>2, <2>3, LocksKept DEF locks
  <2>4. CASE run[h].job \notin deleted
    <3>1. jobLock' = [jobLock EXCEPT ![run[h].job] = h]
      BY <1>2, <2>4 DEF ReserveImageVersion
    <3>2. run'[h].job = run[h].job /\ run'[h].pc \in {"upload", "number"}
      BY <1>0, <1>2, <2>4 DEF ReserveImageVersion, Registers
    <3>3. JobLocksHeld'
      BY <1>0, <2>1, <2>2, <3>1, <3>2 DEF LocksHeld, JobLocksHeld, HoldsJob, HoldsContent
    <3>4. ContentLocksHeld'
      BY <1>0, <2>1, <2>2 DEF LocksHeld, ContentLocksHeld, HoldsJob
    <3>. QED  BY <3>3, <3>4 DEF LocksHeld
  <2>. QED  BY <1>2, <2>3, <2>4 DEF ReserveImageVersion
<1>3. CASE NumberImage(h)
  <2>1. run[h].pc = "number" /\ run[h].job \in Job /\ ContentOf[run[h].job] \in Content
    BY <1>3, ContentAssumption DEF NumberImage, Typed, RegistersOK
  <2>2. CASE ContentOf[run[h].job] \in deleted
    BY <1>0, <1>3, <2>2, LocksKept DEF NumberImage
  <2>3. CASE ContentOf[run[h].job] \notin deleted
    <3>1. /\ contentLock' = [contentLock EXCEPT ![ContentOf[run[h].job]] = h]
          /\ UNCHANGED jobLock
      BY <1>3, <2>3 DEF NumberImage
    <3>2. run'[h].job = run[h].job /\ run'[h].pc = "upload"
      BY <1>0, <1>3, <2>3 DEF NumberImage, Registers
    <3>3. JobLocksHeld'
      BY <1>0, <3>1, <3>2 DEF LocksHeld, JobLocksHeld, HoldsJob, HoldsContent
    <3>4. ContentLocksHeld'
      BY <1>0, <2>1, <3>1, <3>2 DEF LocksHeld, ContentLocksHeld, HoldsContent
    <3>. QED  BY <3>3, <3>4 DEF LocksHeld
  <2>. QED  BY <2>2, <2>3
<1>4. CASE Upload(h) \/ RecoverExistingUpload(h)
  <2>1. /\ UNCHANGED locks
        /\ run[h].pc \in {"upload", "recover"}
        /\ run'[h].pc \in {"recover", "complete"} /\ run'[h].job = run[h].job
    BY <1>0, <1>4 DEF Upload, RecoverExistingUpload, Goto, Registers
  <2>. QED  BY <1>0, <2>1, LocksKept DEF HoldsContent
<1>5. CASE RejectCompletion(h)
  <2>1. CASE run[h].fresh
    <3>1. /\ UNCHANGED locks /\ run[h].pc = "complete"
          /\ run'[h].pc = "cleanup" /\ run'[h].job = run[h].job
      BY <1>0, <1>5, <2>1
      DEF RejectCompletion, AtCompletion, HandleCompletionError, Goto, Registers
    <3>. QED  BY <1>0, <3>1, LocksKept DEF HoldsContent
  <2>2. CASE ~run[h].fresh
    BY <1>0, <1>5, <2>2, LocksKept DEF RejectCompletion
  <2>. QED  BY <2>1, <2>2
<1>6. CASE \/ FailUpload(h) \/ CompleteJob(h) \/ DeleteObject(h) \/ RejectImage(h)
           \/ FailCommit(h) \/ FailDelete(h) \/ Interrupt(h) \/ Crash(h)
  <2>1. Release(h)
    BY <1>6 DEF FailUpload, CompleteJob, CommitCompletion, DeleteObject, RejectImage,
       FailCommit, FailDelete, Interrupt, Crash
  <2>. QED  BY <1>0, <2>1, LocksKept
<1>. QED  BY <1>1, <1>2, <1>3, <1>4, <1>5, <1>6 DEF Step, Fault

LEMMA NextLocksHeld == Typed /\ LocksHeld /\ [Next]_vars => LocksHeld'
<1>. SUFFICES ASSUME Typed, LocksHeld, [Next]_vars PROVE LocksHeld'
  OBVIOUS
<1>1. ASSUME NEW h \in Horse, Step(h) \/ Fault(h) PROVE LocksHeld'
  BY <1>1, StepLocksHeld
<1>2. CASE UNCHANGED <<locks, run>>
  BY <1>2 DEF LocksHeld, JobLocksHeld, ContentLocksHeld, locks
<1>3. CASE \/ \E j \in Job : LoseWorker(j) \/ RetryDue(j) \/ GrowStale(j)
           \/ RecoverStaleProcessingJobs
           \/ \E x \in Job \union Content \union User : SoftDelete(x)
           \/ UNCHANGED vars
  BY <1>2, <1>3 DEF LoseWorker, RetryDue, GrowStale, RecoverStaleProcessingJobs, SoftDelete, vars
<1>. QED  BY <1>1, <1>3 DEF Next

THEOREM LocksHeldAlways == Spec => []LocksHeld
  BY InitLocksHeld, NextLocksHeld, TypedAlways, PTL DEF Spec

-----------------------------------------------------------------------------
(* What is left over.  A job that nobody claimed yet still has its entry in *)
(* the queue, or a work-horse about to claim it.                            *)

Alive(j) == {j, RequesterOf[j]} \intersect deleted = {}

PendingServed ==
    \A j \in Job : status[j] = "PENDING" /\ Alive(j) => Due(j) = 1 \/ AtClaim(j) # {}

LEMMA InitPendingServed == Init => PendingServed
  BY DEF Init, PendingServed, Due

\* A step that makes no job PENDING and takes neither entries nor claims away.
LEMMA PendingKept ==
  ASSUME Typed, PendingServed, deleted \subseteq deleted',
         \A j \in Job : status'[j] = "PENDING" /\ Alive(j)' =>
             /\ status[j] = "PENDING"
             /\ Due(j) = 1 => Due(j)' = 1 \/ AtClaim(j)' # {}
             /\ AtClaim(j) \subseteq AtClaim(j)'
  PROVE  PendingServed'
<1>. SUFFICES ASSUME NEW j \in Job, status'[j] = "PENDING", Alive(j)'
              PROVE  Due(j)' = 1 \/ AtClaim(j)' # {}
  BY DEF PendingServed
<1>1. Alive(j)
  BY DEF Alive
<1>. QED  BY <1>1 DEF PendingServed

LEMMA EntryKept ==
  ASSUME Typed, RunnerStarted, NEW h \in Horse, run[h].job \in Job,
         Return(h) \/ Raise(h) \/ UNCHANGED rqVars, NEW j \in Job, Due(j) = 1
  PROVE  Due(j)' = 1
<1>1. /\ entry \in [Job -> {"queued", "started", "scheduled", "finished", "failed"}]
      /\ (runner[run[h].job] = h => entry[run[h].job] = "started")
  BY JobsAndHorses DEF Typed, TypeOK, RunnerStarted
<1>. QED  BY <1>1 DEF Return, Raise, RqRetry, rqVars, Due

LEMMA NextPendingServed ==
  ASSUME Faults \intersect {"crash", "exception"} = {}
  PROVE  Typed /\ Budget /\ PendingServed /\ [Next]_vars => PendingServed'
<1>. SUFFICES ASSUME Typed, Budget, PendingServed, [Next]_vars PROVE PendingServed'
  OBVIOUS
<1>0. /\ run \in [Horse -> Registers] /\ status \in [Job -> Status] /\ RunnerStarted
      /\ entry \in [Job -> {"queued", "started", "scheduled", "finished", "failed"}]
  BY DEF Typed, TypeOK, Budget
<1>1. ASSUME NEW h \in Horse, Continues(h) PROVE PendingServed'
  <2>1. run[h].pc \notin {"idle", "claim"} /\ \A g \in Horse \ {h} : run'[g] = run[g]
    BY <1>0, <1>1 DEF Continues, Return, Raise, Proceeds
  <2>2. \A j \in Job : AtClaim(j) \subseteq AtClaim(j)'
    BY <2>1 DEF AtClaim
  <2>3. \A j \in Job : Due(j) = 1 => Due(j)' = 1
    BY <1>0, <1>1, EntryKept DEF Continues, Proceeds
  <2>. QED  BY <1>1, <2>2, <2>3, PendingKept DEF Continues
<1>2. ASSUME NEW h \in Horse, ClaimPendingById(h) PROVE PendingServed'
  <2>0. PICK j \in Job : j = run[h].job
    BY <1>2 DEF ClaimPendingById, Typed, RegistersOK
  <2>1. UNCHANGED deleted /\ \A g \in Horse \ {h} : run'[g] = run[g]
    BY <1>0, <1>2 DEF ClaimPendingById, Return, Raise
  <2>2. \A k \in Job \ {j} : AtClaim(k) \subseteq AtClaim(k)'
    BY <2>0, <2>1 DEF AtClaim
  <2>3. \A k \in Job : Due(k) = 1 => Due(k)' = 1
    BY <1>0, <1>2, <2>0, EntryKept DEF ClaimPendingById
  <2>4. \A k \in Job : status'[k] = "PENDING" => status[k] = "PENDING"
    BY <1>0, <1>2, <2>0 DEF ClaimPendingById, Claim, columns
  <2>5. status'[j] = "PENDING" => ~Alive(j)
    BY <1>0, <1>2, <2>0 DEF ClaimPendingById, Claim, columns, Claimable, Alive
  <2>6. ~Alive(j) => ~Alive(j)'
    BY <2>1 DEF Alive
  <2>. QED  BY <2>1, <2>2, <2>3, <2>4, <2>5, <2>6, PendingKept
<1>3. ASSUME NEW h \in Horse, NEW j \in Job, Dequeue(h, j) PROVE PendingServed'
  <2>1. /\ run' = [run EXCEPT ![h] = [IdleRun EXCEPT !.pc = "claim", !.job = j]]
        /\ run[h].pc = "idle" /\ UNCHANGED <<status, deleted>>
        /\ entry' = [entry EXCEPT ![j] = "started"]
    BY <1>3 DEF Dequeue, columns
  <2>2. h \in AtClaim(j)' /\ \A k \in Job : AtClaim(k) \subseteq AtClaim(k)'
    BY <1>0, <2>1 DEF AtClaim, IdleRun
  <2>3. \A k \in Job : Due(k) = 1 => Due(k)' = 1 \/ AtClaim(k)' # {}
    BY <1>0, <2>1, <2>2 DEF Due
  <2>. QED  BY <2>1, <2>2, <2>3, PendingKept
<1>4. ASSUME NEW h \in Horse, Step(h) \/ Fault(h) PROVE PendingServed'
  BY <1>1, <1>2, <1>3, <1>4, StepContinues
<1>5. ASSUME UNCHANGED run, deleted \subseteq deleted',
             \A j \in Job : Due(j) = 1 => Due(j)' = 1,
             \A j \in Job : status'[j] = "PENDING" => status[j] = "PENDING"
      PROVE  PendingServed'
  <2>1. \A j \in Job : AtClaim(j) = AtClaim(j)'
    BY <1>5 DEF AtClaim
  <2>. QED  BY <1>5, <2>1, PendingKept
<1>6. ASSUME NEW j \in Job, LoseWorker(j) \/ RetryDue(j) \/ GrowStale(j) PROVE PendingServed'
  <2>1. \A k \in Job : Due(k) = 1 => Due(k)' = 1
    BY <1>0, <1>6 DEF LoseWorker, RetryDue, GrowStale, RqRetry, rqVars, Due
  <2>. QED  BY <1>5, <1>6, <2>1 DEF LoseWorker, RetryDue, GrowStale, columns
<1>7. CASE RecoverStaleProcessingJobs
  <2>1. \A j \in Job : status'[j] = "PENDING" => status[j] = "PENDING"
    BY <1>0, <1>7 DEF RecoverStaleProcessingJobs
  <2>. QED  BY <1>5, <1>7, <2>1 DEF RecoverStaleProcessingJobs, rqVars, Due
<1>8. CASE (\E x \in Job \union Content \union User : SoftDelete(x)) \/ UNCHANGED vars
  <2>1. UNCHANGED <<run, status, entry>> /\ deleted \subseteq deleted'
    BY <1>8 DEF SoftDelete, vars, columns, rqVars
  <2>. QED  BY <1>5, <2>1 DEF Due
<1>. QED  BY <1>4, <1>6, <1>7, <1>8 DEF Next

\* Unless a process dies, or the database fails, between two steps: however an
\* execution returns, with a completion, an error or without a claim, RQ is done
\* only with jobs that are terminal, deleted, or PROCESSING and unlocked, which
\* the sweep of the next worker start fails.
THEOREM LeftoversSwept ==
  ASSUME Faults \intersect {"crash", "exception"} = {}
  PROVE  Spec => []LeftoversAreSweepable
<1>1. Typed /\ LocksHeld /\ PendingServed => LeftoversAreSweepable
  <2>. SUFFICES ASSUME Typed, LocksHeld, PendingServed, NEW j \in Job,
                       entry[j] \in {"finished", "failed"}, \A h \in Horse : ~Executing(h, j),
                       status[j] \notin {"COMPLETED", "FAILED"}, Alive(j)
                PROVE  status[j] = "PROCESSING" /\ jobLock[j] = None
    BY DEF LeftoversAreSweepable, Alive
  <2>1. AtClaim(j) = {} /\ Due(j) = 0
    BY DEF AtClaim, Executing, Due
  <2>2. status[j] = "PROCESSING"
    BY <2>1 DEF PendingServed, Typed, TypeOK, Status
  <2>3. jobLock[j] = None
    BY DEF LocksHeld, JobLocksHeld, HoldsJob, HoldsContent, Executing, Typed, TypeOK
  <2>. QED  BY <2>2, <2>3
<1>. QED  BY <1>1, InitBudget, NextBudget, InitPendingServed, NextPendingServed, TypedAlways,
             LocksHeldAlways, PTL DEF Spec

-----------------------------------------------------------------------------
(* Versions.  A number is held under the lock of its Content from the       *)
(* statement that found it on, and is above the versions of all its images. *)

Settled(j) == status[j] \in {"COMPLETED", "FAILED"}

\* Only a settled job has an image, or has committed its reservation.
SettledColumns ==
    /\ \A r \in images : status[r.job] = "COMPLETED"
    /\ \A j \in Job : reserved[j] # 0 => Settled(j)

Ahead(h) ==
    /\ contentLock[ContentOf[run[h].job]] = h
    /\ \A r \in images : ContentOf[r.job] = ContentOf[run[h].job] => r.version < run[h].version

\* A job whose reservation was read from its Generation is settled; any other
\* execution that has a version, and may still complete its job, found it itself.
NumbersAhead ==
    \A h \in Horse : run[h].pc \in {"upload", "recover", "complete"} /\ ~Settled(run[h].job)
                        => Ahead(h)

Versions == SettledColumns /\ NumbersAhead

LEMMA InitVersions == Init => Versions
  BY DEF Init, Versions, SettledColumns, NumbersAhead, IdleRun

\* What a step of one work-horse may do to the others and to what is settled.
LEMMA VersionsKept ==
  ASSUME Typed, Versions, NEW h \in Horse,
         \A g \in Horse \ {h} : run'[g] = run[g],
         \A j \in Job : Settled(j) => status'[j] = status[j],
         \A c \in Content, g \in Horse \ {h} : contentLock[c] = g => contentLock'[c] = g,
         images \subseteq images',
         \A r \in images' \ images : /\ r.job \in Job /\ status'[r.job] = "COMPLETED"
                                     /\ contentLock[ContentOf[r.job]] \in {None, h},
         \A j \in Job : reserved'[j] # reserved[j] => status'[j] \in {"COMPLETED", "FAILED"},
         run'[h].pc \in {"upload", "recover", "complete"} /\ ~Settled(run[h].job)' => Ahead(h)'
  PROVE  Versions'
<1>0. \A r \in images : r.job \in Job
  BY DEF Typed, TypeOK
<1>1. SettledColumns'
  <2>1. \A r \in images' : status'[r.job] = "COMPLETED"
    BY <1>0 DEF Versions, SettledColumns, Settled
  <2>2. \A j \in Job : reserved'[j] # 0 => Settled(j)'
    BY DEF Versions, SettledColumns, Settled
  <2>. QED  BY <2>1, <2>2 DEF SettledColumns
<1>2. ASSUME NEW g \in Horse \ {h}, run'[g].pc \in {"upload", "recover", "complete"},
             ~Settled(run[g].job)'
      PROVE  Ahead(g)'
  <2>1. run'[g] = run[g] /\ run[g].job \in Job /\ ContentOf[run[g].job] \in Content
    BY <1>2, ContentAssumption DEF Typed, RegistersOK
  <2>2. ~Settled(run[g].job)
    BY <1>2, <2>1 DEF Settled
  <2>3. Ahead(g)
    BY <1>2, <2>1, <2>2 DEF Versions, NumbersAhead
  <2>4. contentLock'[ContentOf[run[g].job]] = g
    BY <2>1, <2>3 DEF Ahead
  <2>5. \A r \in images' \ images : ContentOf[r.job] # ContentOf[run[g].job]
    BY <2>1, <2>3, JobsAndHorses DEF Ahead
  <2>. QED  BY <2>1, <2>3, <2>4, <2>5 DEF Ahead
<1>3. NumbersAhead'
  BY <1>2 DEF NumbersAhead
<1>. QED  BY <1>1, <1>3 DEF Versions

\* A step that leaves the images and the reservations alone.
LEMMA VersionsQuiet ==
  ASSUME Typed, Versions, NEW h \in Horse, UNCHANGED <<images, reserved>>,
         \A g \in Horse \ {h} : run'[g] = run[g],
         \A j \in Job : Settled(j) => status'[j] = status[j],
         UNCHANGED contentLock \/ Release(h),
         \/ run'[h].pc \notin {"upload", "recover", "complete"}
         \/ /\ UNCHANGED contentLock
            /\ run[h].pc \in {"upload", "recover", "complete"}
            /\ run'[h].job = run[h].job /\ run'[h].version = run[h].version
  PROVE  Versions'
<1>1. \A c \in Content, g \in Horse \ {h} : contentLock[c] = g => contentLock'[c] = g
  BY DEF Release
<1>2. ASSUME run'[h].pc \in {"upload", "recover", "complete"}, ~Settled(run[h].job)'
      PROVE  Ahead(h)'
  <2>1. run[h].job \in Job
    BY <1>2 DEF Typed, RegistersOK
  <2>2. ~Settled(run[h].job)
    BY <1>2, <2>1 DEF Settled
  <2>. QED  BY <1>2, <2>2 DEF Versions, NumbersAhead, Ahead
<1>. QED  BY <1>1, <1>2, VersionsKept

\* What an execution comes to when it neither finds nor keeps a version.
LEMMA LeavesNumbering ==
  ASSUME Typed, NEW h \in Horse,
         \/ Return(h) \/ Raise(h) \/ Handle(h)
         \/ \E where \in {"lookup", "reserve", "fail_return", "cleanup", "undo"} : Goto(h, where)
  PROVE  run'[h].pc \notin {"upload", "recover", "complete"}
<1>1. run \in [Horse -> Registers]
  BY DEF Typed, TypeOK
<1>. QED  BY <1>1 DEF Return, Raise, Handle, Goto, IdleRun, Registers

LEMMA ReserveVersions ==
  ASSUME Typed, Versions, NEW h \in Horse, ReserveImageVersion(h)
  PROVE  Versions'
<1>. DEFINE j == run[h].job
<1>0. /\ \A g \in Horse \ {h} : run'[g] = run[g]
      /\ run \in [Horse -> Registers] /\ j \in Job
      /\ UNCHANGED <<images, status, reserved, contentLock>>
  BY OthersKept DEF Step, ReserveImageVersion, Typed, TypeOK, RegistersOK, columns
<1>1. CASE j \in deleted
  <2>1. run'[h].pc \notin {"upload", "recover", "complete"}
    BY <1>1, LeavesNumbering DEF ReserveImageVersion
  <2>. QED  BY <1>0, <2>1, VersionsQuiet
<1>2. CASE j \notin deleted
  <2>1. /\ run'[h].job = run[h].job
        /\ run'[h].pc = IF reserved[j] > 0 THEN "upload" ELSE "number"
    BY <1>0, <1>2 DEF ReserveImageVersion, Registers
  <2>2. run'[h].pc = "upload" => Settled(run[h].job)'
    <3>1. reserved[j] > 0 => reserved[j] # 0
      OBVIOUS
    <3>. QED  BY <1>0, <2>1, <3>1 DEF Versions, SettledColumns, Settled
  <2>. QED  BY <1>0, <2>1, <2>2, VersionsKept
<1>. QED  BY <1>1, <1>2

LEMMA NumberVersions ==
  ASSUME Typed, Versions, NEW h \in Horse, NumberImage(h)
  PROVE  Versions'
<1>. DEFINE c == ContentOf[run[h].job]
<1>0. /\ \A g \in Horse \ {h} : run'[g] = run[g]
      /\ run \in [Horse -> Registers] /\ run[h].job \in Job /\ c \in Content
      /\ UNCHANGED <<images, status, reserved>>
      /\ contentLock \in [Content -> Horse \union {None}] /\ contentLock[c] = None
  BY OthersKept, ContentAssumption DEF Step, NumberImage, Typed, TypeOK, RegistersOK, columns
<1>1. CASE c \in deleted
  <2>1. run'[h].pc \notin {"upload", "recover", "complete"} /\ Release(h)
    BY <1>1, LeavesNumbering DEF NumberImage
  <2>. QED  BY <1>0, <2>1, VersionsQuiet
<1>2. CASE c \notin deleted
  <2>1. PICK v \in Version : IsNextVersion(v, c)
                             /\ run' = [run EXCEPT ![h].pc = "upload", ![h].version = v]
    BY <1>2 DEF NumberImage
  <2>2. run'[h].job = run[h].job /\ run'[h].version = v
    BY <1>0, <2>1 DEF Registers
  <2>3. contentLock' = [contentLock EXCEPT ![c] = h]
    BY <1>2 DEF NumberImage
  <2>4. \A r \in images : ContentOf[r.job] = c => r.version < v
    BY <2>1 DEF IsNextVersion, UsedVersions
  <2>5. Ahead(h)'
    BY <1>0, <2>2, <2>3, <2>4 DEF Ahead
  <2>6. \A d \in Content, g \in Horse \ {h} : contentLock[d] = g => contentLock'[d] = g
    BY <1>0, <2>3, JobsAndHorses
  <2>. QED  BY <1>0, <2>5, <2>6, VersionsKept
<1>. QED  BY <1>1, <1>2

LEMMA FailUploadVersions ==
  ASSUME Typed, Versions, NEW h \in Horse, FailUpload(h)
  PROVE  Versions'
<1>0. /\ \A g \in Horse \ {h} : run'[g] = run[g]
      /\ run[h].job \in Job /\ UNCHANGED images /\ Release(h)
      /\ status \in [Job -> Status] /\ reserved \in [Job -> Version \union {0}]
  BY OthersKept DEF Step, FailUpload, Typed, TypeOK, RegistersOK
<1>1. run'[h].pc \notin {"upload", "recover", "complete"}
  BY LeavesNumbering DEF FailUpload
<1>2. CASE UNCHANGED columns
  BY <1>0, <1>1, <1>2, VersionsQuiet DEF columns
<1>3. CASE ~UNCHANGED columns
  <2>1. /\ CanTransition(status[run[h].job], "FAILED")
        /\ status' = [status EXCEPT ![run[h].job] = "FAILED"]
        /\ reserved' = [reserved EXCEPT ![run[h].job] = run[h].version]
    BY <1>3 DEF FailUpload
  <2>2. \A j \in Job : Settled(j) => status'[j] = status[j]
    BY <1>0, <2>1 DEF CanTransition, AllowedTransitions, Status, Settled
  <2>3. \A j \in Job : reserved'[j] # reserved[j] => status'[j] \in {"COMPLETED", "FAILED"}
    BY <1>0, <2>1
  <2>4. \A c \in Content, g \in Horse \ {h} : contentLock[c] = g => contentLock'[c] = g
    BY <1>0 DEF Release
  <2>. QED  BY <1>0, <1>1, <2>2, <2>3, <2>4, VersionsKept
<1>. QED  BY <1>2, <1>3

LEMMA CompleteVersions ==
  ASSUME Typed, Versions, NEW h \in Horse, CompleteJob(h)
  PROVE  Versions'
<1>0. /\ \A g \in Horse \ {h} : run'[g] = run[g]
      /\ run[h].pc = "complete" /\ run[h].job \in Job /\ Release(h)
      /\ contentLock[ContentOf[run[h].job]] \in {None, h}
      /\ CanTransition(status[run[h].job], "COMPLETED")
      /\ status' = [status EXCEPT ![run[h].job] = "COMPLETED"]
      /\ reserved' = [reserved EXCEPT ![run[h].job] = run[h].version]
      /\ images' = images \union {ImageRow(h)} /\ ImageRow(h).job = run[h].job
      /\ status \in [Job -> Status] /\ reserved \in [Job -> Version \union {0}]
  BY OthersKept DEF Step, CompleteJob, CommitCompletion, AtCompletion, Completable, ImageRow,
     Typed, TypeOK, RegistersOK
<1>1. run'[h].pc \notin {"upload", "recover", "complete"}
  <2>1. CASE Return(h)
    BY <2>1, LeavesNumbering
  <2>2. CASE HandleCompletionError(h, "undo")
    BY <2>2, LeavesNumbering DEF HandleCompletionError
  <2>. QED  BY <2>1, <2>2 DEF CompleteJob
<1>2. \A j \in Job : Settled(j) => status'[j] = status[j]
  BY <1>0 DEF CanTransition, AllowedTransitions, Status, Settled
<1>3. \A j \in Job : reserved'[j] # reserved[j] => status'[j] \in {"COMPLETED", "FAILED"}
  BY <1>0
<1>4. \A c \in Content, g \in Horse \ {h} : contentLock[c] = g => contentLock'[c] = g
  BY <1>0 DEF Release
<1>5. \A r \in images' \ images : /\ r.job \in Job /\ status'[r.job] = "COMPLETED"
                                  /\ contentLock[ContentOf[r.job]] \in {None, h}
  BY <1>0
<1>. QED  BY <1>0, <1>1, <1>2, <1>3, <1>4, <1>5, VersionsKept

LEMMA StepVersions ==
  ASSUME Typed, Versions, NEW h \in Horse, Step(h) \/ Fault(h)
  PROVE  Versions'
<1>0. /\ \A g \in Horse \ {h} : run'[g] = run[g]
      /\ run \in [Horse -> Registers] /\ status \in [Job -> Status]
  BY OthersKept DEF Typed, TypeOK
<1>1. CASE ReserveImageVersion(h) \/ NumberImage(h) \/ FailUpload(h) \/ CompleteJob(h)
  BY <1>1, ReserveVersions, NumberVersions, FailUploadVersions, CompleteVersions
<1>2. CASE ClaimPendingById(h)
  <2>1. UNCHANGED <<images, reserved, contentLock>>
    BY <1>2 DEF ClaimPendingById, Claim, columns, locks
  <2>2. \A j \in Job : Settled(j) => status'[j] = status[j]
    BY <1>0, <1>2 DEF ClaimPendingById, Claim, Claimable, columns, Settled
  <2>3. run'[h].pc \notin {"upload", "recover", "complete"}
    BY <1>0, <1>2 DEF ClaimPendingById, Return, Raise, IdleRun, Registers
  <2>. QED  BY <1>0, <2>1, <2>2, <2>3, VersionsQuiet
<1>3. CASE Generate(h) \/ GetImageByGenerationId(h) \/ \E j \in Job : Dequeue(h, j)
  <2>1. UNCHANGED <<images, reserved, status, contentLock>>
    BY <1>3 DEF Generate, GetImageByGenerationId, Dequeue, columns, locks
  <2>2. run'[h].pc \notin {"upload", "recover", "complete"}
    BY <1>0, <1>3, LeavesNumbering DEF Generate, GetImageByGenerationId, Dequeue, IdleRun
  <2>. QED  BY <1>0, <2>1, <2>2, VersionsQuiet
<1>4. CASE Upload(h) \/ RecoverExistingUpload(h)
  <2>1. UNCHANGED <<images, reserved, status, contentLock>>
    BY <1>4 DEF Upload, RecoverExistingUpload, columns, locks
  <2>2. /\ run[h].pc \in {"upload", "recover", "complete"}
        /\ run'[h].job = run[h].job /\ run'[h].version = run[h].version
    BY <1>0, <1>4 DEF Upload, RecoverExistingUpload, Goto, Registers
  <2>. QED  BY <1>0, <2>1, <2>2, VersionsQuiet
<1>5. CASE \/ RejectCompletion(h) \/ FailCommit(h) \/ DeleteObject(h) \/ FailDelete(h)
           \/ RejectImage(h) \/ Interrupt(h) \/ Crash(h)
  <2>1. UNCHANGED <<images, reserved, status>> /\ (UNCHANGED contentLock \/ Release(h))
    BY <1>5 DEF RejectCompletion, FailCommit, DeleteObject, FailDelete, RejectImage, Interrupt,
       Crash, columns, locks
  <2>2. run'[h].pc \notin {"upload", "recover", "complete"}
    <3>1. \/ Return(h) \/ Raise(h) \/ Handle(h) \/ Goto(h, "cleanup") \/ Goto(h, "undo")
      BY <1>5 DEF RejectCompletion, FailCommit, DeleteObject, FailDelete, RejectImage,
         Interrupt, Crash, HandleCompletionError
    <3>. QED  BY <3>1, LeavesNumbering
  <2>. QED  BY <1>0, <2>1, <2>2, VersionsQuiet
<1>6. CASE FailJob(h)
  <2>1. UNCHANGED <<images, reserved, contentLock>>
    BY <1>6 DEF FailJob, locks
  <2>2. \A j \in Job : Settled(j) => status'[j] = status[j]
    BY <1>0, <1>6 DEF FailJob, CanTransition, AllowedTransitions, Status, Settled
  <2>3. run'[h].pc \notin {"upload", "recover", "complete"}
    BY <1>6, LeavesNumbering DEF FailJob
  <2>. QED  BY <1>0, <2>1, <2>2, <2>3, VersionsQuiet
<1>. QED  BY <1>1, <1>2, <1>3, <1>4, <1>5, <1>6 DEF Step, Fault

LEMMA NextVersions == Typed /\ Versions /\ [Next]_vars => Versions'
<1>. SUFFICES ASSUME Typed, Versions, [Next]_vars PROVE Versions'
  OBVIOUS
<1>1. ASSUME NEW h \in Horse, Step(h) \/ Fault(h) PROVE Versions'
  BY <1>1, StepVersions
<1>2. ASSUME UNCHANGED <<images, reserved, contentLock, run>>,
             \A j \in Job : Settled(j) => status'[j] = status[j]
      PROVE  Versions'
  <2>1. \A r \in images : r.job \in Job
    BY DEF Typed, TypeOK
  <2>2. SettledColumns'
    BY <1>2, <2>1 DEF Versions, SettledColumns, Settled
  <2>3. ASSUME NEW h \in Horse, run[h].pc \in {"upload", "recover", "complete"},
               ~Settled(run[h].job)'
        PROVE  Ahead(h)
    <3>1. run[h].job \in Job
      BY <2>3 DEF Typed, RegistersOK
    <3>. QED  BY <1>2, <2>3, <3>1 DEF Versions, NumbersAhead, Settled
  <2>4. NumbersAhead'
    BY <1>2, <2>3 DEF NumbersAhead, Ahead
  <2>. QED  BY <2>2, <2>4 DEF Versions
<1>3. CASE RecoverStaleProcessingJobs
  <2>1. \A j \in Job : Settled(j) => status'[j] = status[j]
    BY <1>3 DEF RecoverStaleProcessingJobs, StaleJobs, Settled
  <2>. QED  BY <1>2, <1>3, <2>1 DEF RecoverStaleProcessingJobs, locks
<1>4. CASE \/ \E j \in Job : LoseWorker(j) \/ RetryDue(j) \/ GrowStale(j)
           \/ \E x \in Job \union Content \union User : SoftDelete(x)
           \/ UNCHANGED vars
  BY <1>2, <1>4 DEF LoseWorker, RetryDue, GrowStale, SoftDelete, vars, columns, locks
<1>. QED  BY <1>1, <1>3, <1>4 DEF Next

\* Whatever fails, and whichever Generations are deleted meanwhile, no completion
\* of a job that may still complete is refused by a unique constraint: its
\* version is above those of all images of its Content, and its job has none.
THEOREM NoVersionCollides == Spec => []VersionsDoNotCollide
<1>1. Typed /\ Versions => VersionsDoNotCollide
  <2>. SUFFICES ASSUME Typed, Versions, NEW h \in Horse, run[h].pc = "complete",
                       CanTransition(status[run[h].job], "COMPLETED"),
                       NEW r \in images,
                       \/ r.job = run[h].job
                       \/ ContentOf[r.job] = ContentOf[run[h].job] /\ r.version = run[h].version
                PROVE  FALSE
    BY DEF VersionsDoNotCollide, Conflicts, ImageRow
  <2>1. run[h].job \in Job /\ run[h].version \in Nat
    BY VersionAssumption DEF Typed, RegistersOK, Numbered
  <2>2. status[run[h].job] = "PROCESSING"
    BY <2>1 DEF CanTransition, AllowedTransitions, Status, Typed, TypeOK
  <2>3. r.job # run[h].job
    BY <2>2 DEF Versions, SettledColumns
  <2>4. r.version < run[h].version
    BY <2>2, <2>3 DEF Versions, NumbersAhead, Settled, Ahead
  <2>. QED  BY <2>1, <2>3, <2>4
<1>. QED  BY <1>1, InitVersions, NextVersions, TypedAlways, PTL DEF Spec

-----------------------------------------------------------------------------
(* Objects.  An object without an image row belongs to the execution that   *)
(* stored it, until that one deletes it or completes its job.               *)

Keeping == {"complete", "cleanup", "undo"}

HasRow(o) == \E r \in images : o.path = ImagePath(r.job, r.version)
HasKeeper(o) == \E h \in Horse : run[h].pc \in Keeping /\ run[h].fresh /\ Path(h) = o.path

Accounted == \A o \in objects : HasRow(o) \/ HasKeeper(o)

LEMMA InitAccounted == Init => Accounted
  BY DEF Init, Accounted

\* A step of a work-horse that adds no object and drops none that it keeps.
LEMMA AccountedKept ==
  ASSUME Typed, Accounted, NEW h \in Horse,
         \A g \in Horse \ {h} : run'[g] = run[g],
         images \subseteq images', objects' \subseteq objects,
         run[h].pc \in Keeping /\ run[h].fresh =>
             \/ \A o \in objects' : o.path = Path(h) => HasRow(o)'
             \/ run'[h] = [run[h] EXCEPT !.pc = run'[h].pc] /\ run'[h].pc \in Keeping
  PROVE  Accounted'
<1>1. run \in [Horse -> Registers]
  BY DEF Typed, TypeOK
<1>2. ASSUME NEW o \in objects' PROVE HasRow(o)' \/ HasKeeper(o)'
  <2>1. CASE HasRow(o)
    BY <2>1 DEF HasRow
  <2>2. CASE HasKeeper(o)
    <3>1. PICK g \in Horse : run[g].pc \in Keeping /\ run[g].fresh /\ Path(g) = o.path
      BY <2>2 DEF HasKeeper
    <3>2. CASE g # h
      BY <3>1, <3>2 DEF HasKeeper, Path
    <3>3. CASE g = h /\ run'[h] = [run[h] EXCEPT !.pc = run'[h].pc] /\ run'[h].pc \in Keeping
      <4>1. run'[h].job = run[h].job /\ run'[h].version = run[h].version
            /\ run'[h].fresh = run[h].fresh
        BY <1>1, <3>3 DEF Registers
      <4>. QED  BY <3>1, <3>3, <4>1 DEF HasKeeper, Path
    <3>. QED  BY <3>1, <3>2, <3>3
  <2>. QED  BY <2>1, <2>2 DEF Accounted
<1>. QED  BY <1>2 DEF Accounted

LEMMA UploadAccounted ==
  ASSUME Typed, Accounted, "upload" \notin Faults, NEW h \in Horse, Upload(h)
  PROVE  Accounted'
<1>0. /\ \A g \in Horse \ {h} : run'[g] = run[g]
      /\ run \in [Horse -> Registers] /\ UNCHANGED images /\ run[h].pc = "upload"
  BY OthersKept DEF Step, Upload, Typed, TypeOK
<1>1. CASE UNCHANGED objects
  BY <1>0, <1>1, AccountedKept DEF Keeping
<1>2. CASE Store(h) /\ run' = [run EXCEPT ![h].pc = "complete", ![h].fresh = TRUE]
  <2>1. /\ run'[h].pc = "complete" /\ run'[h].fresh
        /\ run'[h].job = run[h].job /\ run'[h].version = run[h].version
    BY <1>0, <1>2 DEF Registers
  <2>2. Path(h)' = Path(h)
    BY <2>1 DEF Path
  <2>3. ASSUME NEW o \in objects PROVE HasRow(o)' \/ HasKeeper(o)'
    <3>1. HasRow(o) => HasRow(o)'
      BY <1>0 DEF HasRow
    <3>2. HasKeeper(o) => HasKeeper(o)'
      BY <1>0 DEF HasKeeper, Path, Keeping
    <3>. QED  BY <3>1, <3>2 DEF Accounted
  <2>4. ASSUME NEW o \in objects', o.path = Path(h) PROVE HasKeeper(o)'
    BY <2>1, <2>2, <2>4 DEF HasKeeper, Keeping
  <2>5. \A o \in objects' : o \in objects \/ o.path = Path(h)
    BY <1>2 DEF Store
  <2>. QED  BY <2>3, <2>4, <2>5 DEF Accounted
<1>. QED  BY <1>1, <1>2 DEF Upload

LEMMA CompleteAccounted ==
  ASSUME Typed, Accounted, NEW h \in Horse, CompleteJob(h)
  PROVE  Accounted'
<1>0. /\ \A g \in Horse \ {h} : run'[g] = run[g]
      /\ images' = images \union {ImageRow(h)} /\ UNCHANGED objects
  BY OthersKept DEF Step, CompleteJob, CommitCompletion
<1>1. \A o \in objects' : o.path = Path(h) => HasRow(o)'
  <2>1. ImageRow(h) \in images' /\ Path(h) = ImagePath(ImageRow(h).job, ImageRow(h).version)
    BY <1>0 DEF ImageRow, Path
  <2>. QED  BY <2>1 DEF HasRow, ImagePath
<1>. QED  BY <1>0, <1>1, AccountedKept

LEMMA StepAccounted ==
  ASSUME Typed, Accounted, Faults \intersect {"upload", "delete", "exception", "crash"} = {},
         NEW h \in Horse, Step(h) \/ Fault(h)
  PROVE  Accounted'
<1>0. /\ \A g \in Horse \ {h} : run'[g] = run[g]
      /\ run \in [Horse -> Registers]
  BY OthersKept DEF Typed, TypeOK
<1>1. CASE Upload(h) \/ CompleteJob(h)
  BY <1>1, UploadAccounted, CompleteAccounted
<1>2. CASE RejectCompletion(h) \/ FailCommit(h)
  <2>1. UNCHANGED <<images, objects>>
    BY <1>2 DEF RejectCompletion, FailCommit
  <2>2. ASSUME run[h].fresh
        PROVE  run'[h] = [run[h] EXCEPT !.pc = run'[h].pc] /\ run'[h].pc \in Keeping
    <3>1. PICK where \in {"cleanup", "undo"} : run' = [run EXCEPT ![h].pc = where]
      BY <1>2, <2>2 DEF RejectCompletion, FailCommit, HandleCompletionError, Goto
    <3>2. run'[h] = [run[h] EXCEPT !.pc = where]
      BY <1>0, <3>1
    <3>3. run'[h].pc = where
      BY <1>0, <3>2 DEF Registers
    <3>. QED  BY <3>2, <3>3 DEF Keeping
  <2>. QED  BY <1>0, <2>1, <2>2, AccountedKept
<1>3. CASE DeleteObject(h)
  <2>1. UNCHANGED images /\ objects' = objects \ At(Path(h))
    BY <1>3 DEF DeleteObject
  <2>2. \A o \in objects' : o.path # Path(h)
    BY <2>1 DEF At
  <2>. QED  BY <1>0, <2>1, <2>2, AccountedKept
<1>4. CASE \/ \E j \in Job : Dequeue(h, j)
           \/ ClaimPendingById(h) \/ Generate(h) \/ GetImageByGenerationId(h)
           \/ ReserveImageVersion(h) \/ NumberImage(h) \/ RecoverExistingUpload(h)
           \/ FailUpload(h) \/ FailJob(h) \/ RejectImage(h)
  <2>1. UNCHANGED <<images, objects>> /\ run[h].pc \notin Keeping
    BY <1>4 DEF Dequeue, ClaimPendingById, Generate, GetImageByGenerationId,
       ReserveImageVersion, NumberImage, RecoverExistingUpload, FailUpload, FailJob,
       RejectImage, Keeping
  <2>. QED  BY <1>0, <2>1, AccountedKept
<1>5. ~FailDelete(h) /\ ~Interrupt(h) /\ ~Crash(h)
  BY DEF FailDelete, Interrupt, Crash
<1>. QED  BY <1>1, <1>2, <1>3, <1>4, <1>5 DEF Step, Fault

LEMMA NextAccounted ==
  ASSUME Faults \intersect {"upload", "delete", "exception", "crash"} = {}
  PROVE  Typed /\ Accounted /\ [Next]_vars => Accounted'
<1>. SUFFICES ASSUME Typed, Accounted, [Next]_vars PROVE Accounted'
  OBVIOUS
<1>1. ASSUME NEW h \in Horse, Step(h) \/ Fault(h) PROVE Accounted'
  BY <1>1, StepAccounted
<1>2. CASE UNCHANGED <<images, objects, run>>
  BY <1>2 DEF Accounted, HasRow, HasKeeper, Path
<1>3. CASE \/ \E j \in Job : LoseWorker(j) \/ RetryDue(j) \/ GrowStale(j)
           \/ RecoverStaleProcessingJobs
           \/ \E x \in Job \union Content \union User : SoftDelete(x)
           \/ UNCHANGED vars
  BY <1>2, <1>3
  DEF LoseWorker, RetryDue, GrowStale, RecoverStaleProcessingJobs, SoftDelete, vars
<1>. QED  BY <1>1, <1>3 DEF Next

\* If storage says what it did and no process stops between two steps, the
\* compensating delete leaves nothing behind: at rest every object is that of an
\* image row, also with a storage that reports no checksums, with commits that
\* fail or lose their acknowledgement, and with executions that overlap.
THEOREM NothingOrphaned ==
  ASSUME Faults \intersect {"upload", "delete", "exception", "crash"} = {}
  PROVE  Spec => []NoOrphanObject
<1>1. Accounted => NoOrphanObject
  BY DEF Accounted, HasRow, HasKeeper, Keeping, NoOrphanObject
<1>. QED  BY <1>1, InitAccounted, NextAccounted, TypedAlways, PTL DEF Spec

-----------------------------------------------------------------------------
\* Only a completion adds an image row.
LEMMA RowsOnlyCompleted ==
  ASSUME [Next]_vars
  PROVE  \/ images' \subseteq images
         \/ \E h \in Horse : CompleteJob(h)
<1>1. ASSUME NEW h \in Horse, Step(h) \/ Fault(h)
      PROVE  UNCHANGED images \/ CompleteJob(h)
  BY <1>1 DEF Step, Fault, Dequeue, ClaimPendingById, Generate, GetImageByGenerationId,
     ReserveImageVersion, NumberImage, Upload, RecoverExistingUpload, FailUpload,
     RejectCompletion, DeleteObject, FailJob, RejectImage, FailCommit, FailDelete, Interrupt,
     Crash
<1>2. CASE \/ \E j \in Job : LoseWorker(j) \/ RetryDue(j) \/ GrowStale(j)
           \/ RecoverStaleProcessingJobs
           \/ \E x \in Job \union Content \union User : SoftDelete(x)
           \/ UNCHANGED vars
  BY <1>2 DEF LoseWorker, RetryDue, GrowStale, RecoverStaleProcessingJobs, SoftDelete, vars
<1>. QED  BY <1>1, <1>2 DEF Next

\* The object is there at the very commit that names it, if storage reports
\* checksums, whatever else fails: between the upload, or the recovery of an
\* earlier one, and the commit nobody else deletes or replaces it.  What a lost
\* acknowledgement makes the worker delete, it deletes after the commit.
THEOREM UrlUsable ==
  ASSUME ChecksumKept
  PROVE  Spec => UrlUsableAtCompletion
<1>1. ASSUME Held, [Next]_vars, NEW r \in images' \ images
      PROVE  \E o \in objects' : o.path = ImagePath(r.job, r.version)
  <2>1. PICK h \in Horse : CompleteJob(h)
    BY <1>1, RowsOnlyCompleted
  <2>2. r = ImageRow(h) /\ UNCHANGED objects /\ run[h].pc = "complete"
    BY <1>1, <2>1 DEF CompleteJob, CommitCompletion, AtCompletion
  <2>3. \E o \in objects : o.path = Path(h)
    BY <1>1, <2>2 DEF Held, HeldIntact, Holding
  <2>. QED  BY <2>2, <2>3 DEF ImageRow, Path
<1>2. Held /\ [Next]_vars => [\A r \in images' \ images : \E o \in objects' :
                                o.path = ImagePath(r.job, r.version)]_vars
  BY <1>1
<1>. QED  BY <1>2, HeldAlways, PTL DEF Spec, UrlUsableAtCompletion

------------------------------------------------------------------------------
(* What a reader of jobs and images may rely on follows from the promise     *)
(* alone: nothing below looks at a work-horse, a lock or storage.            *)

Published == {<<r.job, r.version>> : r \in images}

PublishedOfCompleted ==
    \A p \in Published : p[1] \in Job /\ status[p[1]] = "COMPLETED"
CompletedHasImage ==
    \A j \in Job : status[j] = "COMPLETED" => \E p \in Published : p[1] = j
OnePerJob == \A p, q \in Published : p[1] = q[1] => p[2] = q[2]
VersionsApart ==
    \A p, q \in Published :
        ContentOf[p[1]] = ContentOf[q[1]] /\ p[2] = q[2] => p[1] = q[1]

\* A job is COMPLETED exactly when it has an image, and has one only; no two
\* jobs of a Content have images of one version.
ImagesAreOfCompletedJobs ==
    PublishedOfCompleted /\ CompletedHasImage /\ OnePerJob /\ VersionsApart

Promised == status \in [Job -> Promise!Status] /\ ImagesAreOfCompletedJobs

LEMMA InitPromised ==
  ASSUME Promise!Init
  PROVE  Promised
<1>1. status = [j \in Job |-> "PENDING"] /\ Published = {}
  BY DEF Promise!Init, Published
<1>2. status \in [Job -> Promise!Status]
  BY <1>1 DEF Promise!Status
<1>. QED  BY <1>1, <1>2 DEF Promised, ImagesAreOfCompletedJobs, PublishedOfCompleted,
                            CompletedHasImage, OnePerJob, VersionsApart

LEMMA NextPromised ==
  ASSUME Promised, [Promise!Next]_(Promise!vars)
  PROVE  Promised'
<1>. USE DEF Promised, ImagesAreOfCompletedJobs, PublishedOfCompleted, CompletedHasImage,
             OnePerJob, VersionsApart
<1>1. ASSUME NEW j \in Job, Promise!Start(j)
      PROVE  Promised'
  <2>1. /\ status[j] = "PENDING" /\ Published' = Published
        /\ status' = [status EXCEPT ![j] = "PROCESSING"]
    BY <1>1 DEF Promise!Start, Promise!CanTransition, Promise!AllowedTransitions, Promise!Status,
                Published
  <2>. QED  BY <2>1 DEF Promise!Status
<1>2. ASSUME NEW j \in Job, NEW v \in Version, Promise!Complete(j, v)
      PROVE  Promised'
  <2>1. /\ status[j] = "PROCESSING"
        /\ status' = [status EXCEPT ![j] = "COMPLETED"]
    BY <1>2 DEF Promise!Complete, Promise!CanTransition, Promise!AllowedTransitions, Promise!Status
  <2>2. Published' = Published \union {<<j, v>>}
    BY <1>2 DEF Promise!Complete, Published
  <2>3. \A p \in Published : ContentOf[p[1]] = ContentOf[j] => p[2] # v
    BY <1>2 DEF Promise!Complete, Promise!Taken, Published
  <2>4. \A p \in Published : p[1] # j
    BY <2>1
  <2>5. status' \in [Job -> Promise!Status] /\ \A i \in Job \ {j} : status'[i] = status[i]
    BY <2>1 DEF Promise!Status
  <2>6. status'[j] = "COMPLETED"
    BY <2>1
  <2>7. PublishedOfCompleted'
    <3>1. ASSUME NEW p \in Published'
          PROVE  p[1] \in Job /\ status'[p[1]] = "COMPLETED"
      BY <2>2, <2>4, <2>5, <2>6
    <3>. QED  BY <3>1
  <2>8. CompletedHasImage'
    <3>1. ASSUME NEW i \in Job, status'[i] = "COMPLETED"
          PROVE  \E p \in Published' : p[1] = i
      <4>1. CASE i = j
        <5>1. <<j, v>> \in Published'
          BY <2>2
        <5>. QED  BY <4>1, <5>1
      <4>2. CASE i # j
        BY <2>2, <2>5, <3>1, <4>2
      <4>. QED  BY <4>1, <4>2
    <3>. QED  BY <3>1
  <2>9. OnePerJob' /\ VersionsApart'
    BY <2>2, <2>3, <2>4
  <2>. QED  BY <2>5, <2>7, <2>8, <2>9
<1>3. ASSUME NEW S \in SUBSET Job, Promise!Fail(S)
      PROVE  Promised'
  <2>1. /\ \A j \in S : status[j] # "COMPLETED"
        /\ status' = [j \in Job |-> IF j \in S THEN "FAILED" ELSE status[j]]
        /\ Published' = Published
    BY <1>3 DEF Promise!Fail, Promise!CanTransition, Promise!AllowedTransitions, Promise!Status,
                Published
  <2>. QED  BY <2>1 DEF Promise!Status
<1>4. CASE UNCHANGED Promise!vars
  BY <1>4 DEF Promise!vars, Published
<1>. QED  BY <1>1, <1>2, <1>3, <1>4 DEF Promise!Next

\* A reader of the API sees an image exactly for a COMPLETED job, one for each,
\* and no version of a Content twice: whoever keeps the promise of JobLifecycle
\* shows this, and the worker does, under every fault.
THEOREM ImagesOfCompleted == Spec => []ImagesAreOfCompletedJobs
<1>1. Promised => ImagesAreOfCompletedJobs
  BY DEF Promised
<1>2. KeepsPromise => []Promised
  BY InitPromised, NextPromised, PTL DEF KeepsPromise, Promise!Spec
<1>. QED  BY <1>1, <1>2, PromiseKept, PTL

=====================================================================================
