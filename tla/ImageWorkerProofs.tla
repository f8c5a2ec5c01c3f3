---------------------------- MODULE ImageWorkerProofs ----------------------------
(***************************************************************************)
(* What holds of the image worker for any jobs, Contents, work-horses and  *)
(* attempts: its types, the promise of JobLifecycle, and that no image row *)
(* outlives its object when the storage keeps checksums and the database   *)
(* never loses the acknowledgement of a commit.                            *)
(***************************************************************************)
EXTENDS ImageWorker, TLAPS

\* The parts of TypeOK that the ending of an execution disturbs.
RqOK == /\ entry \in [Job -> {"queued", "started", "scheduled", "finished", "failed"}]
        /\ retries \in [Job -> Nat]
        /\ runner \in [Job -> Horse \union {None}]

LocksOK == /\ jobLock \in [Job -> Horse \union {None}]
           /\ contentLock \in [Content -> Horse \union {None}]

Numbered == {"upload", "recover", "complete", "cleanup", "undo"}

\* An execution has a job, and a version once it numbered its image.
RegistersOK ==
    \A h \in Horse : /\ run[h].pc # "idle" => run[h].job \in Job
                     /\ run[h].pc \in Numbered => run[h].version \in Version

RunOK == run \in [Horse -> Registers] /\ RegistersOK

Typed == TypeOK /\ RegistersOK

LEMMA IdleRunType == IdleRun \in Registers
  BY DEF IdleRun, Registers, Where

LEMMA ReleaseType ==
  ASSUME NEW h \in Horse, LocksOK, Release(h)
  PROVE  LocksOK'
  BY DEF Release, LocksOK

LEMMA RqRetryType ==
  ASSUME NEW j \in Job, RqOK, RqRetry(j)
  PROVE  RqOK'
  BY DEF RqRetry, RqOK

LEMMA ReturnType ==
  ASSUME NEW h \in Horse, RqOK, RunOK, Return(h)
  PROVE  RqOK' /\ RunOK'
<1>1. RunOK'
  BY IdleRunType DEF Return, RunOK, RegistersOK, IdleRun, Numbered
<1>2. RqOK'
  BY DEF Return, RqOK
<1>. QED  BY <1>1, <1>2

LEMMA RaiseType ==
  ASSUME NEW h \in Horse, run[h].pc # "idle", RqOK, RunOK, Raise(h)
  PROVE  RqOK' /\ RunOK'
<1>1. RunOK'
  BY IdleRunType DEF Raise, RunOK, RegistersOK, IdleRun, Numbered
<1>2. RqOK'
  BY RqRetryType DEF Raise, RqOK, rqVars, RunOK, RegistersOK
<1>. QED  BY <1>1, <1>2

LEMMA GotoType ==
  ASSUME NEW h \in Horse, run[h].pc # "idle", RqOK, RunOK,
         NEW where \in Where, where \in Numbered => run[h].pc \in Numbered, Goto(h, where)
  PROVE  RqOK' /\ RunOK'
  BY DEF Goto, RqOK, rqVars, RunOK, RegistersOK, Registers

LEMMA HandleType ==
  ASSUME NEW h \in Horse, run[h].pc # "idle", RqOK, RunOK, Handle(h)
  PROVE  RqOK' /\ RunOK'
<1>1. CASE Raise(h)
  BY <1>1, RaiseType
<1>2. CASE Goto(h, "fail_raise")
  BY <1>2, GotoType DEF Where, Numbered
<1>. QED  BY <1>1, <1>2 DEF Handle

LEMMA HandleCompletionErrorType ==
  ASSUME NEW h \in Horse, run[h].pc = "complete", RqOK, RunOK,
         NEW where \in {"cleanup", "undo"}, HandleCompletionError(h, where)
  PROVE  RqOK' /\ RunOK'
<1>1. CASE Goto(h, where)
  BY <1>1, GotoType DEF Where, Numbered
<1>2. CASE Handle(h)
  BY <1>2, HandleType
<1>. QED  BY <1>1, <1>2 DEF HandleCompletionError

-----------------------------------------------------------------------------
(* Each step keeps the types, and Typed is inductive. *)

ColumnsOK == /\ status \in [Job -> Status]
             /\ attempts \in [Job -> Nat]
             /\ stale \in [Job -> BOOLEAN]
             /\ reserved \in [Job -> Version \union {0}]

TablesOK == /\ images \subseteq [job: Job, version: Version, checksum: Digest]
            /\ deleted \subseteq Job \union Content \union User
            /\ objects \subseteq [path: User \X Content \X Version, digest: Digest]

LEMMA TypedParts == Typed <=> ColumnsOK /\ TablesOK /\ LocksOK /\ RqOK /\ RunOK
  BY DEF Typed, TypeOK, ColumnsOK, TablesOK, LocksOK, RqOK, RunOK

LEMMA TypedPartsNext == ColumnsOK' /\ TablesOK' /\ LocksOK' /\ RqOK' /\ RunOK' => Typed'
  BY DEF Typed, TypeOK, ColumnsOK, TablesOK, LocksOK, RqOK, RunOK

LEMMA InitTyped == Init => Typed
<1>. SUFFICES ASSUME Init PROVE Typed
  OBVIOUS
<1>1. RqOK
  BY AttemptsAssumption DEF Init, RqOK, RetryMax
<1>2. RunOK
  BY IdleRunType DEF Init, RunOK, RegistersOK, IdleRun, Numbered
<1>3. ColumnsOK /\ TablesOK /\ LocksOK
  BY DEF Init, ColumnsOK, TablesOK, LocksOK, Status
<1>. QED  BY <1>1, <1>2, <1>3, TypedParts

LEMMA StepTyped ==
  ASSUME Typed, NEW h \in Horse, Step(h)
  PROVE  Typed'
<1>. USE TypedParts, TypedPartsNext
<1>1. ASSUME NEW j \in Job, Dequeue(h, j) PROVE Typed'
  <2>1. RunOK'
    BY <1>1, IdleRunType DEF Dequeue, RunOK, RegistersOK, Registers, Where, IdleRun, Numbered
  <2>2. RqOK'
    BY <1>1 DEF Dequeue, RqOK
  <2>. QED  BY <1>1, <2>1, <2>2 DEF Dequeue, ColumnsOK, TablesOK, LocksOK, columns, locks
<1>2. ASSUME ClaimPendingById(h) PROVE Typed'
  <2>. DEFINE j == run[h].job
  <2>1. j \in Job /\ run[h].pc = "claim"
    BY <1>2 DEF ClaimPendingById, RunOK, RegistersOK
  <2>2. ColumnsOK'
    <3>1. CASE Claim(j)
      BY <2>1, <3>1 DEF Claim, ColumnsOK, Status
    <3>2. CASE UNCHANGED columns
      BY <3>2 DEF columns, ColumnsOK
    <3>. QED  BY <1>2, <3>1, <3>2 DEF ClaimPendingById
  <2>3. CASE Return(h) \/ Raise(h)
    BY <1>2, <2>1, <2>2, <2>3, ReturnType, RaiseType
    DEF ClaimPendingById, TablesOK, LocksOK, locks
  <2>4. CASE /\ run' = [run EXCEPT ![h].pc = "generate", ![h].attempt = attempts[j] + 1]
             /\ UNCHANGED rqVars
    <3>1. PICK n \in Nat : run' = [run EXCEPT ![h].pc = "generate", ![h].attempt = n]
      <4>1. attempts[j] + 1 \in Nat
        BY <2>1 DEF ColumnsOK
      <4>. QED  BY <2>4, <4>1
    <3>2. RunOK'
      BY <2>1, <3>1 DEF RunOK, RegistersOK, Registers, Where, Numbered
    <3>. QED  BY <1>2, <2>2, <2>4, <3>2
              DEF ClaimPendingById, TablesOK, LocksOK, RqOK, locks, rqVars
  <2>. QED  BY <1>2, <2>3, <2>4 DEF ClaimPendingById
<1>3. ASSUME Generate(h) PROVE Typed'
  <2>1. RqOK' /\ RunOK'
    BY <1>3, GotoType, RaiseType DEF Generate, Where, Numbered
  <2>. QED  BY <1>3, <2>1 DEF Generate, ColumnsOK, TablesOK, LocksOK, columns, locks
<1>4. ASSUME GetImageByGenerationId(h) PROVE Typed'
  <2>1. RqOK' /\ RunOK'
    BY <1>4, GotoType, ReturnType DEF GetImageByGenerationId, Where, Numbered
  <2>. QED  BY <1>4, <2>1
            DEF GetImageByGenerationId, ColumnsOK, TablesOK, LocksOK, columns, locks
<1>5. ASSUME ReserveImageVersion(h) PROVE Typed'
  <2>. DEFINE j == run[h].job
  <2>1. j \in Job /\ run[h].pc = "reserve"
    BY <1>5 DEF ReserveImageVersion, RunOK, RegistersOK
  <2>2. LocksOK'
    BY <1>5, <2>1 DEF ReserveImageVersion, LocksOK
  <2>3. RqOK' /\ RunOK'
    <3>1. CASE j \in deleted
      BY <1>5, <2>1, <3>1, HandleType DEF ReserveImageVersion
    <3>2. CASE j \notin deleted
      <4>1. reserved[j] > 0 => reserved[j] \in Version
        BY <2>1 DEF ColumnsOK
      <4>2. RunOK'
        BY <1>5, <2>1, <3>2, <4>1
        DEF ReserveImageVersion, RunOK, RegistersOK, Registers, Where, Numbered, ColumnsOK
      <4>. QED  BY <1>5, <3>2, <4>2 DEF ReserveImageVersion, RqOK, rqVars
    <3>. QED  BY <3>1, <3>2
  <2>. QED  BY <1>5, <2>2, <2>3 DEF ReserveImageVersion, ColumnsOK, TablesOK, columns
<1>6. ASSUME NumberImage(h) PROVE Typed'
  <2>. DEFINE c == ContentOf[run[h].job]
  <2>1. c \in Content /\ run[h].pc = "number"
    BY <1>6, ContentAssumption DEF NumberImage, RunOK, RegistersOK
  <2>2. CASE c \in deleted
    <3>1. Release(h) /\ Handle(h)
      BY <1>6, <2>2 DEF NumberImage
    <3>. QED  BY <1>6, <2>1, <3>1, ReleaseType, HandleType
              DEF NumberImage, ColumnsOK, TablesOK, columns
  <2>3. CASE c \notin deleted
    <3>1. RunOK'
      BY <1>6, <2>1, <2>3 DEF NumberImage, RunOK, RegistersOK, Registers, Where, Numbered
    <3>2. LocksOK'
      BY <1>6, <2>1, <2>3 DEF NumberImage, LocksOK
    <3>. QED  BY <1>6, <2>3, <3>1, <3>2
              DEF NumberImage, ColumnsOK, TablesOK, RqOK, columns, rqVars
  <2>. QED  BY <2>2, <2>3
<1>7. ASSUME Upload(h) PROVE Typed'
  <2>1. run[h].pc = "upload" /\ run[h].job \in Job /\ run[h].version \in Version
    BY <1>7 DEF Upload, RunOK, RegistersOK, Numbered
  <2>2. Path(h) \in User \X Content \X Version /\ Own(h) \in Digest
    BY <2>1, ContentAssumption, RequesterAssumption DEF Path, ImagePath, Own, Digest, RunOK, Registers
  <2>3. TablesOK'
    BY <1>7, <2>2 DEF Upload, Store, TablesOK
  <2>4. RqOK' /\ RunOK'
    <3>1. CASE Goto(h, "recover")
      BY <2>1, <3>1, GotoType DEF Where, Numbered
    <3>2. CASE /\ run' = [run EXCEPT ![h].pc = "complete", ![h].fresh = TRUE]
               /\ UNCHANGED rqVars
      BY <2>1, <3>2 DEF RunOK, RegistersOK, Registers, Where, Numbered, RqOK, rqVars
    <3>. QED  BY <1>7, <3>1, <3>2 DEF Upload
  <2>. QED  BY <1>7, <2>3, <2>4 DEF Upload, ColumnsOK, LocksOK, columns, locks
<1>8. ASSUME RecoverExistingUpload(h) PROVE Typed'
  <2>1. RqOK' /\ RunOK'
    BY <1>8, GotoType DEF RecoverExistingUpload, Where, Numbered
  <2>. QED  BY <1>8, <2>1
            DEF RecoverExistingUpload, ColumnsOK, TablesOK, LocksOK, columns, locks
<1>9. ASSUME FailUpload(h) PROVE Typed'
  <2>1. run[h].pc = "recover" /\ run[h].job \in Job /\ run[h].version \in Version
    BY <1>9 DEF FailUpload, RunOK, RegistersOK, Numbered
  <2>2. RqOK' /\ RunOK'
    BY <1>9, <2>1, ReturnType, HandleType DEF FailUpload
  <2>3. ColumnsOK'
    BY <1>9, <2>1 DEF FailUpload, ColumnsOK, Status, columns
  <2>. QED  BY <1>9, <2>2, <2>3, ReleaseType DEF FailUpload, TablesOK
<1>10. ASSUME CompleteJob(h) PROVE Typed'
  <2>1. run[h].pc = "complete" /\ run[h].job \in Job /\ run[h].version \in Version
    BY <1>10 DEF CompleteJob, AtCompletion, RunOK, RegistersOK, Numbered
  <2>2. ImageRow(h) \in [job: Job, version: Version, checksum: Digest]
    BY <2>1 DEF ImageRow, Own, Digest, RunOK, Registers
  <2>3. ColumnsOK' /\ TablesOK'
    BY <1>10, <2>1, <2>2 DEF CompleteJob, CommitCompletion, ColumnsOK, TablesOK, Status
  <2>4. RqOK' /\ RunOK'
    BY <1>10, <2>1, ReturnType, HandleCompletionErrorType DEF CompleteJob
  <2>. QED  BY <1>10, <2>3, <2>4, ReleaseType DEF CompleteJob, CommitCompletion
<1>11. ASSUME RejectCompletion(h) PROVE Typed'
  <2>1. RqOK' /\ RunOK'
    BY <1>11, HandleCompletionErrorType DEF RejectCompletion, AtCompletion
  <2>2. LocksOK'
    BY <1>11, ReleaseType DEF RejectCompletion, LocksOK, locks
  <2>. QED  BY <1>11, <2>1, <2>2 DEF RejectCompletion, ColumnsOK, TablesOK, columns
<1>12. ASSUME DeleteObject(h) PROVE Typed'
  <2>1. RqOK' /\ RunOK' /\ LocksOK'
    BY <1>12, HandleType, ReleaseType DEF DeleteObject
  <2>. QED  BY <1>12, <2>1 DEF DeleteObject, ColumnsOK, TablesOK, columns
<1>13. ASSUME FailJob(h) PROVE Typed'
  <2>1. run[h].pc # "idle" /\ run[h].job \in Job
    BY <1>13 DEF FailJob, RunOK, RegistersOK
  <2>2. RqOK' /\ RunOK'
    BY <1>13, <2>1, ReturnType, RaiseType DEF FailJob
  <2>3. ColumnsOK'
    BY <1>13, <2>1 DEF FailJob, ColumnsOK, Status
  <2>. QED  BY <1>13, <2>2, <2>3 DEF FailJob, TablesOK, LocksOK, locks
<1>. QED  BY <1>1, <1>2, <1>3, <1>4, <1>5, <1>6, <1>7, <1>8, <1>9, <1>10, <1>11, <1>12,
             <1>13 DEF Step

LEMMA FaultTyped ==
  ASSUME Typed, NEW h \in Horse, Fault(h)
  PROVE  Typed'
<1>. USE TypedParts, TypedPartsNext
<1>1. CASE RejectImage(h)
  BY <1>1, ReturnType, ReleaseType DEF RejectImage, ColumnsOK, TablesOK, columns
<1>2. CASE FailCommit(h)
  BY <1>2, HandleCompletionErrorType, ReleaseType
  DEF FailCommit, AtCompletion, ColumnsOK, TablesOK, columns
<1>3. CASE FailDelete(h)
  BY <1>3, ReturnType, ReleaseType DEF FailDelete, ColumnsOK, TablesOK, columns
<1>4. CASE Interrupt(h)
  BY <1>4, RaiseType, HandleType, ReleaseType DEF Interrupt, ColumnsOK, TablesOK, columns
<1>5. CASE Crash(h)
  BY <1>5, RaiseType, ReleaseType DEF Crash, ColumnsOK, TablesOK, columns
<1>. QED  BY <1>1, <1>2, <1>3, <1>4, <1>5 DEF Fault

LEMMA NextTyped == Typed /\ [Next]_vars => Typed'
<1>. USE TypedParts, TypedPartsNext
<1>. SUFFICES ASSUME Typed, [Next]_vars PROVE Typed'
  OBVIOUS
<1>1. ASSUME NEW h \in Horse, Step(h) \/ Fault(h) PROVE Typed'
  BY <1>1, StepTyped, FaultTyped
<1>2. ASSUME NEW j \in Job, LoseWorker(j) PROVE Typed'
  BY <1>2, RqRetryType DEF LoseWorker, ColumnsOK, TablesOK, LocksOK, RunOK, RegistersOK,
     columns, locks
<1>3. ASSUME NEW j \in Job, RetryDue(j) PROVE Typed'
  BY <1>3 DEF RetryDue, ColumnsOK, TablesOK, LocksOK, RqOK, RunOK, RegistersOK, columns, locks
<1>4. ASSUME NEW j \in Job, GrowStale(j) PROVE Typed'
  BY <1>4 DEF GrowStale, ColumnsOK, TablesOK, LocksOK, RqOK, RunOK, RegistersOK, locks, rqVars
<1>5. CASE RecoverStaleProcessingJobs
  BY <1>5 DEF RecoverStaleProcessingJobs, ColumnsOK, TablesOK, LocksOK, RqOK, RunOK,
     RegistersOK, locks, rqVars, Status
<1>6. ASSUME NEW x \in Job \union Content \union User, SoftDelete(x) PROVE Typed'
  BY <1>6 DEF SoftDelete, ColumnsOK, TablesOK, LocksOK, RqOK, RunOK, RegistersOK, columns,
     locks, rqVars
<1>7. CASE UNCHANGED vars
  BY <1>7 DEF vars, ColumnsOK, TablesOK, LocksOK, RqOK, RunOK, RegistersOK, columns, locks,
     rqVars
<1>. QED  BY <1>1, <1>2, <1>3, <1>4, <1>5, <1>6, <1>7 DEF Next

THEOREM TypedAlways == Spec => []Typed
  BY InitTyped, NextTyped, PTL DEF Spec

\* The worker's variables keep their types, whatever fails.
THEOREM TypeCorrect == Spec => []TypeOK
<1>1. Typed => TypeOK
  BY DEF Typed
<1>. QED  BY <1>1, TypedAlways, PTL

-----------------------------------------------------------------------------
(* The promise of JobLifecycle.  A step that leaves the status column and   *)
(* the images alone is a stutter; the five that do not each match one step. *)

LEMMA InitPromise == Init => Promise!Init
  BY DEF Init, Promise!Init

LEMMA StutterPromise ==
  ASSUME UNCHANGED <<status, images>>
  PROVE  UNCHANGED Promise!vars
  BY DEF Promise!vars

\* One job moves along an edge of the transition table to FAILED, or stays.
LEMMA FailPromise ==
  ASSUME Typed, NEW S \in SUBSET Job, \A j \in S : CanTransition(status[j], "FAILED"),
         status' = [j \in Job |-> IF j \in S THEN "FAILED" ELSE status[j]],
         UNCHANGED images
  PROVE  [Promise!Next]_(Promise!vars)
<1>1. \A j \in S : Promise!CanTransition(status[j], "FAILED")
  BY DEF CanTransition, AllowedTransitions, Status, Promise!CanTransition,
     Promise!AllowedTransitions, Promise!Status
<1>2. Promise!Fail(S)
  BY <1>1 DEF Promise!Fail
<1>. QED  BY <1>2 DEF Promise!Next

LEMMA ClaimPromise ==
  ASSUME Typed, NEW h \in Horse, ClaimPendingById(h)
  PROVE  [Promise!Next]_(Promise!vars)
<1>. DEFINE j == run[h].job
<1>1. j \in Job /\ status \in [Job -> Status]
  BY DEF ClaimPendingById, Typed, RegistersOK, TypeOK
<1>2. CASE Claimable(j) /\ Claim(j)
  <2>1. CASE status[j] = "PENDING"
    <3>1. Promise!Start(j)
      BY <1>1, <1>2, <2>1 DEF ClaimPendingById, Claim, Promise!Start, Promise!CanTransition,
         Promise!AllowedTransitions, Promise!Status
    <3>. QED  BY <1>1, <3>1 DEF Promise!Next
  <2>2. CASE status[j] = "PROCESSING"
    BY <1>1, <1>2, <2>2, StutterPromise DEF ClaimPendingById, Claim
  <2>. QED  BY <1>2, <2>1, <2>2 DEF Claimable
<1>3. CASE UNCHANGED columns
  BY <1>3, StutterPromise DEF ClaimPendingById, columns
<1>. QED  BY <1>2, <1>3 DEF ClaimPendingById

LEMMA CompletePromise ==
  ASSUME Typed, NEW h \in Horse, CompleteJob(h)
  PROVE  [Promise!Next]_(Promise!vars)
<1>. DEFINE pub == {<<r.job, r.version>> : r \in images}
<1>0. PICK j \in Job, v \in Version : j = run[h].job /\ v = run[h].version
  BY DEF CompleteJob, AtCompletion, Typed, RegistersOK, Numbered
<1>1. status \in [Job -> Status]
  BY DEF Typed, TypeOK
<1>2. CanTransition(status[j], "COMPLETED") /\ ~Conflicts(ImageRow(h))
  BY <1>0 DEF CompleteJob, Completable
<1>3. Promise!CanTransition(status[j], "COMPLETED")
  BY <1>1, <1>2 DEF CanTransition, AllowedTransitions, Status, Promise!CanTransition,
     Promise!AllowedTransitions, Promise!Status
<1>4. v \notin Promise!Taken(ContentOf[j])
  <2>. SUFFICES ASSUME v \in Promise!Taken(ContentOf[j]) PROVE FALSE
    OBVIOUS
  <2>1. PICK p \in pub : ContentOf[p[1]] = ContentOf[j] /\ p[2] = v
    BY DEF Promise!Taken
  <2>2. PICK r \in images : p = <<r.job, r.version>>
    BY <2>1
  <2>3. ContentOf[r.job] = ContentOf[j] /\ r.version = v
    BY <2>1, <2>2
  <2>. QED  BY <1>0, <1>2, <2>3 DEF Conflicts, ImageRow
<1>5. images' = images \union {ImageRow(h)} /\ status' = [status EXCEPT ![j] = "COMPLETED"]
  BY <1>0 DEF CompleteJob, CommitCompletion
<1>6. <<ImageRow(h).job, ImageRow(h).version>> = <<j, v>>
  BY <1>0 DEF ImageRow
<1>7. {<<r.job, r.version>> : r \in images'} = pub \union {<<j, v>>}
  BY <1>5, <1>6
<1>8. Promise!Complete(j, v)
  BY <1>3, <1>4, <1>5, <1>7 DEF Promise!Complete
<1>. QED  BY <1>8 DEF Promise!Next

LEMMA NextPromise == Typed /\ [Next]_vars => [Promise!Next]_(Promise!vars)
<1>. SUFFICES ASSUME Typed, [Next]_vars PROVE [Promise!Next]_(Promise!vars)
  OBVIOUS
<1>. USE StutterPromise
<1>1. ASSUME NEW h \in Horse, Step(h) PROVE [Promise!Next]_(Promise!vars)
  <2>1. CASE ClaimPendingById(h)
    BY <2>1, ClaimPromise
  <2>2. CASE CompleteJob(h)
    BY <2>2, CompletePromise
  <2>3. CASE FailUpload(h) \/ FailJob(h)
    <3>. DEFINE j == run[h].job
    <3>1. j \in Job /\ status \in [Job -> Status] /\ UNCHANGED images
      BY <2>3 DEF FailUpload, FailJob, Typed, RegistersOK, TypeOK
    <3>2. \/ UNCHANGED status
          \/ CanTransition(status[j], "FAILED") /\ status' = [status EXCEPT ![j] = "FAILED"]
      BY <2>3, <3>1 DEF FailUpload, FailJob, columns
    <3>3. CASE UNCHANGED status
      BY <3>1, <3>3
    <3>4. CASE CanTransition(status[j], "FAILED") /\ status' = [status EXCEPT ![j] = "FAILED"]
      <4>1. status' = [k \in Job |-> IF k \in {j} THEN "FAILED" ELSE status[k]]
        BY <3>1, <3>4
      <4>. QED  BY <3>1, <3>4, <4>1, FailPromise
    <3>. QED  BY <3>2, <3>3, <3>4
  <2>4. CASE \/ \E j \in Job : Dequeue(h, j)
             \/ Generate(h) \/ GetImageByGenerationId(h) \/ ReserveImageVersion(h)
             \/ NumberImage(h) \/ Upload(h) \/ RecoverExistingUpload(h)
             \/ RejectCompletion(h) \/ DeleteObject(h)
    BY <2>4 DEF Dequeue, Generate, GetImageByGenerationId, ReserveImageVersion, NumberImage,
       Upload, RecoverExistingUpload, RejectCompletion, DeleteObject, columns
  <2>. QED  BY <1>1, <2>1, <2>2, <2>3, <2>4 DEF Step
<1>2. ASSUME NEW h \in Horse, Fault(h) PROVE [Promise!Next]_(Promise!vars)
  BY <1>2 DEF Fault, RejectImage, FailCommit, FailDelete, Interrupt, Crash, columns
<1>3. ASSUME NEW j \in Job, LoseWorker(j) \/ RetryDue(j) \/ GrowStale(j)
      PROVE  [Promise!Next]_(Promise!vars)
  BY <1>3 DEF LoseWorker, RetryDue, GrowStale, columns
<1>4. CASE RecoverStaleProcessingJobs
  <2>1. \A j \in StaleJobs : CanTransition(status[j], "FAILED")
    BY DEF StaleJobs, CanTransition, AllowedTransitions, Status
  <2>2. StaleJobs \in SUBSET Job
    BY DEF StaleJobs
  <2>. HIDE DEF StaleJobs
  <2>. QED  BY <1>4, <2>1, <2>2, FailPromise DEF RecoverStaleProcessingJobs
<1>5. ASSUME NEW x \in Job \union Content \union User, SoftDelete(x) PROVE [Promise!Next]_(Promise!vars)
  BY <1>5 DEF SoftDelete, columns
<1>6. CASE UNCHANGED vars
  BY <1>6 DEF vars, columns
<1>. QED  BY <1>1, <1>2, <1>3, <1>4, <1>5, <1>6 DEF Next

\* The worker implements JobLifecycle: no status moves outside the transition
\* table, none leaves a terminal state, and an image appears exactly when its
\* job completes, with a version of its own.
THEOREM PromiseKept == Spec => KeepsPromise
  BY InitPromise, NextPromise, TypedAlways, PTL DEF Spec, KeepsPromise, Promise!Spec

-----------------------------------------------------------------------------
(* An image row and its object.  A work-horse is live once its claim        *)
(* committed; it holds an object from the upload until it ends.             *)

Live(h) == run[h].pc \notin {"idle", "claim"}
Holding(h) == run[h].pc \in {"complete", "cleanup", "undo"}

\* No two live work-horses produce the same bytes.
BytesApart ==
    /\ \A r \in images : r.checksum[2] <= attempts[r.checksum[1]]
    /\ \A h \in Horse : Live(h) => run[h].attempt <= attempts[run[h].job]
    /\ \A h, g \in Horse : h # g /\ Live(h) /\ Live(g) => Own(h) # Own(g)

KeysUnique == \A o, p \in objects : o.path = p.path => o = p

\* A work-horse that holds an object holds its own bytes.
HeldIntact ==
    \A h \in Horse : Holding(h) => \E o \in objects : o.path = Path(h) /\ o.digest = Own(h)

Held == BytesApart /\ KeysUnique /\ HeldIntact

\* No live work-horse may delete the object of an image row as its own.
RowsIntact ==
    /\ ImageObjectIntact
    /\ \A h \in Horse : Live(h) => \A r \in images : r.checksum # Own(h)

\* What every step keeps, and what every step keeps that knows what it committed.
KeepsHeld == Held' /\ (RowsIntact => RowsIntact')

\* Across a step of others, or its own, a work-horse gains neither life, nor
\* other bytes, nor an object.
Calm(h) ==
    Live(h)' => /\ Live(h)
                /\ Own(h)' = Own(h)
                /\ Holding(h)' => Holding(h) /\ Path(h)' = Path(h)

LEMMA InitHeld == Init => Held /\ RowsIntact
  BY DEF Init, IdleRun, Held, RowsIntact, ImageObjectIntact, BytesApart, KeysUnique, HeldIntact,
     Live, Holding

LEMMA CalmBytes ==
  ASSUME Typed, BytesApart, \A h \in Horse : Calm(h), UNCHANGED images,
         \A j \in Job : attempts[j] <= attempts'[j] /\ attempts'[j] \in Nat
  PROVE  BytesApart'
<1>1. \A r \in images : r.checksum[1] \in Job /\ r.checksum[2] \in Nat
  BY DEF Typed, TypeOK, Digest
<1>2. \A h \in Horse : Live(h)' => /\ run[h].job \in Job /\ run[h].attempt \in Nat
                                   /\ run'[h].job = run[h].job
                                   /\ run'[h].attempt = run[h].attempt
  BY DEF Calm, Live, Own, Typed, TypeOK, RegistersOK, Registers
<1>3. attempts \in [Job -> Nat]
  BY DEF Typed, TypeOK
<1>4. \A r \in images' : r.checksum[2] <= attempts'[r.checksum[1]]
  BY <1>1, <1>3 DEF BytesApart
<1>5. \A h \in Horse : Live(h)' => run'[h].attempt <= attempts'[run'[h].job]
  BY <1>2, <1>3 DEF BytesApart, Calm
<1>6. \A h, g \in Horse : h # g /\ Live(h)' /\ Live(g)' => Own(h)' # Own(g)'
  BY DEF BytesApart, Calm
<1>. QED  BY <1>4, <1>5, <1>6 DEF BytesApart

LEMMA CalmHeld ==
  ASSUME Typed, Held, \A h \in Horse : Calm(h), UNCHANGED <<images, objects>>,
         \A j \in Job : attempts[j] <= attempts'[j] /\ attempts'[j] \in Nat
  PROVE  KeepsHeld
<1>1. BytesApart'
  BY CalmBytes DEF Held
<1>2. HeldIntact'
  BY DEF Held, HeldIntact, Calm, Live, Holding, At
<1>3. RowsIntact => RowsIntact'
  BY DEF RowsIntact, ImageObjectIntact, Calm
<1>. QED  BY <1>1, <1>2, <1>3 DEF Held, KeepsHeld, KeysUnique

LEMMA AttemptsKept ==
  ASSUME Typed, UNCHANGED attempts
  PROVE  \A j \in Job : attempts[j] <= attempts'[j] /\ attempts'[j] \in Nat
  BY DEF Typed, TypeOK

\* However an execution ends, and wherever it goes without the object.
LEMMA EndCalm ==
  ASSUME Typed, NEW h \in Horse, Return(h) \/ Raise(h)
  PROVE  \A g \in Horse : Calm(g) /\ (g # h => UNCHANGED run[g]) /\ ~Live(h)'
<1>1. run' = [run EXCEPT ![h] = IdleRun] /\ run \in [Horse -> Registers]
  BY DEF Return, Raise, Typed, TypeOK
<1>. QED  BY <1>1 DEF Calm, Live, Holding, Own, Path, IdleRun

LEMMA GotoCalm ==
  ASSUME Typed, NEW h \in Horse, NEW where \in Where, Live(h), Goto(h, where),
         where \in {"complete", "cleanup", "undo"} => Holding(h)
  PROVE  \A g \in Horse : Calm(g)
<1>1. run' = [run EXCEPT ![h].pc = where] /\ run \in [Horse -> Registers]
  BY DEF Goto, Typed, TypeOK
<1>. QED  BY <1>1 DEF Calm, Live, Holding, Own, Path, Registers

LEMMA HandleCalm ==
  ASSUME Typed, NEW h \in Horse, Live(h), Handle(h)
  PROVE  /\ \A g \in Horse : Calm(g) /\ (g # h => UNCHANGED run[g])
         /\ ~Holding(h)'
<1>1. CASE Raise(h)
  BY <1>1, EndCalm DEF Live, Holding
<1>2. CASE Goto(h, "fail_raise")
  <2>1. \A g \in Horse : Calm(g)
    BY <1>2, GotoCalm DEF Where
  <2>2. run' = [run EXCEPT ![h].pc = "fail_raise"] /\ run \in [Horse -> Registers]
    BY <1>2 DEF Goto, Typed, TypeOK
  <2>. QED  BY <2>1, <2>2 DEF Holding, Registers
<1>. QED  BY <1>1, <1>2 DEF Handle

LEMMA HandleCompletionErrorCalm ==
  ASSUME Typed, NEW h \in Horse, run[h].pc = "complete", NEW where \in {"cleanup", "undo"},
         HandleCompletionError(h, where)
  PROVE  \A g \in Horse : Calm(g)
<1>1. CASE Goto(h, where)
  BY <1>1, GotoCalm DEF Live, Holding, Where
<1>2. CASE Handle(h)
  BY <1>2, HandleCalm DEF Live
<1>. QED  BY <1>1, <1>2 DEF HandleCompletionError

\* A claim gives its work-horse an attempt that no row and no other has seen.
LEMMA ClaimHeld ==
  ASSUME Typed, Held, NEW h \in Horse, ClaimPendingById(h)
  PROVE  KeepsHeld
<1>. DEFINE j == run[h].job
<1>1. /\ j \in Job /\ run[h].pc = "claim" /\ UNCHANGED <<images, objects>>
      /\ attempts \in [Job -> Nat] /\ run \in [Horse -> Registers]
  BY DEF ClaimPendingById, Typed, RegistersOK, TypeOK
<1>2. \A k \in Job : attempts[k] <= attempts'[k] /\ attempts'[k] \in Nat
  <2>1. CASE Claim(j)
    BY <1>1, <2>1 DEF Claim
  <2>2. CASE UNCHANGED columns
    BY <1>1, <2>2 DEF columns
  <2>. QED  BY <2>1, <2>2 DEF ClaimPendingById
<1>3. CASE Return(h) \/ Raise(h)
  BY <1>1, <1>2, <1>3, EndCalm, CalmHeld
<1>4. CASE /\ Claim(j)
           /\ run' = [run EXCEPT ![h].pc = "generate", ![h].attempt = attempts[j] + 1]
  <2>1. /\ run'[h].job = j /\ run'[h].attempt = attempts[j] + 1 /\ ~Holding(h)'
        /\ \A g \in Horse \ {h} : run'[g] = run[g]
    BY <1>1, <1>4 DEF Registers, Holding
  <2>2. attempts' = [attempts EXCEPT ![j] = @ + 1] /\ attempts[j] + 1 \in Nat
    BY <1>1, <1>4 DEF Claim
  <2>3. \A r \in images : r.checksum[1] \in Job /\ r.checksum[2] \in Nat
    BY DEF Typed, TypeOK, Digest
  <2>4. \A g \in Horse : Live(g) => run[g].job \in Job /\ run[g].attempt \in Nat
    BY <1>1 DEF Live, Typed, RegistersOK, Registers
  <2>5. \A r \in images' : r.checksum[2] <= attempts'[r.checksum[1]] /\ r.checksum # Own(h)'
    BY <1>1, <2>1, <2>2, <2>3 DEF Held, BytesApart, Own
  <2>6. \A g \in Horse : Live(g)' => run'[g].attempt <= attempts'[run'[g].job]
    <3>1. ASSUME NEW g \in Horse \ {h}, Live(g)'
          PROVE  run'[g].attempt <= attempts'[run'[g].job]
      <4>1. Live(g) /\ run'[g] = run[g]
        BY <2>1, <3>1 DEF Live
      <4>2. run[g].attempt <= attempts[run[g].job] /\ run[g].job \in Job
        BY <2>4, <4>1 DEF Held, BytesApart
      <4>. QED  BY <1>1, <2>2, <2>4, <4>1, <4>2
    <3>. QED  BY <1>1, <2>1, <2>2, <3>1
  <2>7. \A g \in Horse \ {h} : Live(g)' => Own(g)' # Own(h)' /\ Own(g)' = Own(g) /\ Live(g)
    <3>1. ASSUME NEW g \in Horse \ {h}, Live(g)'
          PROVE  Own(g)' # Own(h)' /\ Own(g)' = Own(g) /\ Live(g)
      <4>1. Live(g) /\ run'[g] = run[g]
        BY <2>1, <3>1 DEF Live
      <4>2. run[g].attempt <= attempts[run[g].job] /\ run[g].job \in Job
        BY <2>4, <4>1 DEF Held, BytesApart
      <4>3. Own(g)' # Own(h)'
        BY <1>1, <2>1, <2>4, <4>1, <4>2 DEF Own
      <4>. QED  BY <4>1, <4>3 DEF Own
    <3>. QED  BY <3>1
  <2>8. BytesApart'
    <3>1. \A f, g \in Horse : f # g /\ Live(f)' /\ Live(g)' => Own(f)' # Own(g)'
      BY <2>7 DEF Held, BytesApart
    <3>. QED  BY <2>5, <2>6, <3>1 DEF BytesApart
  <2>9. HeldIntact'
    <3>1. \A g \in Horse : Holding(g)' => Holding(g) /\ Path(g)' = Path(g) /\ Own(g)' = Own(g)
      BY <2>1 DEF Holding, Path, Own
    <3>. QED  BY <1>1, <3>1 DEF Held, HeldIntact, At
  <2>10. RowsIntact => RowsIntact'
    BY <1>1, <2>5, <2>7 DEF RowsIntact, ImageObjectIntact
  <2>. QED  BY <1>1, <2>8, <2>9, <2>10 DEF Held, KeepsHeld, KeysUnique
<1>. QED  BY <1>3, <1>4 DEF ClaimPendingById

\* A live work-horse stores an object under a free key, or none at all, and
\* comes to hold one only if its own bytes are there.
LEMMA HoldNext ==
  ASSUME Typed, Held, NEW h \in Horse, Live(h), UNCHANGED <<images, attempts>>,
         \/ UNCHANGED objects
         \/ At(Path(h)) = {} /\ Store(h),
         \A g \in Horse \ {h} : run'[g] = run[g],
         Own(h)' = Own(h), Path(h)' = Path(h),
         Holding(h)' => \E o \in objects' : o.path = Path(h) /\ o.digest = Own(h)
  PROVE  KeepsHeld
<1>1. BytesApart'
  <2>1. \A g \in Horse : Live(g)' => Live(g) /\ Own(g)' = Own(g)
    BY DEF Live, Own
  <2>2. \A g \in Horse : run'[g].job = run[g].job /\ run'[g].attempt = run[g].attempt
    BY DEF Own
  <2>. QED  BY <2>1, <2>2 DEF Held, BytesApart
<1>2. KeysUnique'
  BY DEF Store, At, Held, KeysUnique
<1>3. objects \subseteq objects'
  BY DEF Store
<1>4. HeldIntact'
  <2>1. ASSUME NEW g \in Horse \ {h}, Holding(g)'
        PROVE  \E o \in objects' : o.path = Path(g)' /\ o.digest = Own(g)'
    BY <1>3, <2>1 DEF Held, HeldIntact, Holding, At, Path, Own
  <2>. QED  BY <2>1 DEF HeldIntact
<1>5. RowsIntact => RowsIntact'
  <2>1. \A g \in Horse : Live(g)' => Live(g) /\ Own(g)' = Own(g)
    BY DEF Live, Own
  <2>. QED  BY <1>3, <2>1 DEF RowsIntact, ImageObjectIntact
<1>. QED  BY <1>1, <1>2, <1>4, <1>5 DEF Held, KeepsHeld

LEMMA UploadHeld ==
  ASSUME Typed, Held, NEW h \in Horse, Upload(h)
  PROVE  KeepsHeld
<1>1. /\ Live(h) /\ UNCHANGED <<images, attempts>> /\ run \in [Horse -> Registers]
  BY DEF Upload, Live, columns, Typed, TypeOK
<1>4. \/ UNCHANGED objects
      \/ At(Path(h)) = {} /\ Store(h)
  BY DEF Upload
<1>2. CASE Goto(h, "recover")
  <2>1. /\ \A g \in Horse \ {h} : run'[g] = run[g]
        /\ Own(h)' = Own(h) /\ Path(h)' = Path(h) /\ ~Holding(h)'
    BY <1>1, <1>2 DEF Goto, Own, Path, Holding, Registers
  <2>. QED  BY <1>1, <1>4, <2>1, HoldNext
<1>3. CASE /\ Store(h)
           /\ At(Path(h)) = {}
           /\ run' = [run EXCEPT ![h].pc = "complete", ![h].fresh = TRUE]
  <2>1. /\ \A g \in Horse \ {h} : run'[g] = run[g]
        /\ Own(h)' = Own(h) /\ Path(h)' = Path(h)
    BY <1>1, <1>3 DEF Own, Path, Registers
  <2>2. \E o \in objects' : o.path = Path(h) /\ o.digest = Own(h)
    <3>. DEFINE o == [path |-> Path(h), digest |-> Own(h)]
    <3>1. o \in objects' /\ o.path = Path(h) /\ o.digest = Own(h)
      BY <1>3 DEF Store
    <3>. HIDE DEF o
    <3>. QED  BY <3>1
  <2>. QED  BY <1>1, <1>4, <2>1, <2>2, HoldNext
<1>. QED  BY <1>2, <1>3 DEF Upload

\* With checksums, what is recovered are the execution's own bytes.
LEMMA RecoverHeld ==
  ASSUME Typed, Held, ChecksumKept, NEW h \in Horse, RecoverExistingUpload(h)
  PROVE  KeepsHeld
<1>1. /\ Live(h) /\ UNCHANGED <<images, attempts, objects>> /\ run \in [Horse -> Registers]
      /\ run' = [run EXCEPT ![h].pc = "complete"]
  BY DEF RecoverExistingUpload, Goto, Live, columns, Typed, TypeOK
<1>2. /\ \A g \in Horse \ {h} : run'[g] = run[g]
      /\ Own(h)' = Own(h) /\ Path(h)' = Path(h)
  BY <1>1 DEF Own, Path, Registers
<1>3. \E o \in objects' : o.path = Path(h) /\ o.digest = Own(h)
  BY <1>1 DEF RecoverExistingUpload, Recoverable, At
<1>. QED  BY <1>1, <1>2, <1>3, HoldNext

\* Even if its acknowledgement is lost, a completion names an object it holds.
LEMMA CompleteHeld ==
  ASSUME Typed, Held, NEW h \in Horse, CompleteJob(h)
  PROVE  /\ Held'
         /\ "commit_lost" \notin Faults => (RowsIntact => RowsIntact')
<1>1. /\ Live(h) /\ Holding(h) /\ UNCHANGED <<attempts, objects>> /\ run[h].pc = "complete"
      /\ images' = images \union {ImageRow(h)} /\ run[h].job \in Job
  BY DEF CompleteJob, CommitCompletion, AtCompletion, Live, Holding, Typed, RegistersOK
<1>2. \A g \in Horse : Calm(g)
  <2>1. CASE Return(h)
    BY <2>1, EndCalm
  <2>2. CASE HandleCompletionError(h, "undo")
    BY <1>1, <2>2, HandleCompletionErrorCalm
  <2>. QED  BY <2>1, <2>2 DEF CompleteJob
<1>3. BytesApart'
  <2>1. \A r \in images' : r.checksum[2] <= attempts'[r.checksum[1]]
    <3>1. run[h].attempt <= attempts[run[h].job]
      BY <1>1 DEF Held, BytesApart
    <3>. QED  BY <1>1, <3>1 DEF Held, BytesApart, ImageRow, Own
  <2>2. \A g \in Horse : Live(g)' => run'[g].attempt <= attempts'[run'[g].job]
    BY <1>1, <1>2 DEF Held, BytesApart, Calm, Own
  <2>3. \A f, g \in Horse : f # g /\ Live(f)' /\ Live(g)' => Own(f)' # Own(g)'
    BY <1>2 DEF Held, BytesApart, Calm
  <2>. QED  BY <2>1, <2>2, <2>3 DEF BytesApart
<1>4. HeldIntact'
  BY <1>1, <1>2 DEF Held, HeldIntact, Calm, Live, Holding
<1>5. KeysUnique'
  BY <1>1 DEF Held, KeysUnique
<1>6. ASSUME "commit_lost" \notin Faults, RowsIntact PROVE RowsIntact'
  <2>1. \A g \in Horse : Live(g)' => g # h /\ Live(g) /\ run'[g] = run[g]
    BY <1>1, <1>6, EndCalm DEF Calm, CompleteJob
  <2>2. ImageObjectIntact'
    <3>1. \E o \in objects : o.path = ImagePath(run[h].job, run[h].version) /\ o.digest = Own(h)
      BY <1>1 DEF Held, HeldIntact, Path
    <3>. QED  BY <1>1, <1>6, <3>1 DEF RowsIntact, ImageObjectIntact, ImageRow
  <2>3. \A g \in Horse : Live(g)' => \A r \in images' : r.checksum # Own(g)'
    BY <1>1, <1>6, <2>1 DEF RowsIntact, Held, BytesApart, Own, ImageRow
  <2>. QED  BY <2>2, <2>3 DEF RowsIntact
<1>. QED  BY <1>3, <1>4, <1>5, <1>6 DEF Held

\* The object a work-horse deletes is its own: no other work-horse holds it, nor
\* does an image row name it.
LEMMA DeleteHeld ==
  ASSUME Typed, Held, NEW h \in Horse, DeleteObject(h)
  PROVE  KeepsHeld
<1>1. /\ Live(h) /\ Holding(h) /\ UNCHANGED <<attempts, images>> /\ Handle(h)
      /\ objects' = objects \ At(Path(h))
  BY DEF DeleteObject, Live, Holding, columns
<1>2. PICK o \in objects : o.path = Path(h) /\ o.digest = Own(h)
  BY <1>1 DEF Held, HeldIntact, At
<1>3. At(Path(h)) = {o}
  BY <1>2 DEF Held, KeysUnique, At
<1>4. \A g \in Horse : Calm(g) /\ (g # h => UNCHANGED run[g])
  BY <1>1, HandleCalm
<1>5. ~Holding(h)'
  BY <1>1, HandleCalm
<1>6. RowsIntact => RowsIntact'
  <2>1. ASSUME RowsIntact PROVE ImageObjectIntact'
    <3>1. \A r \in images : r.checksum # Own(h)
      BY <1>1, <2>1 DEF RowsIntact
    <3>. QED  BY <1>1, <1>2, <1>3, <2>1, <3>1 DEF RowsIntact, ImageObjectIntact
  <2>. QED  BY <1>1, <1>4, <2>1 DEF RowsIntact, Calm
<1>7. BytesApart'
  BY <1>1, <1>4, CalmBytes, AttemptsKept DEF Held
<1>8. HeldIntact'
  <2>1. ASSUME NEW g \in Horse, Holding(g)'
        PROVE  \E p \in objects' : p.path = Path(g)' /\ p.digest = Own(g)'
    <3>1. g # h /\ run'[g] = run[g] /\ Holding(g) /\ Live(g)
      BY <1>4, <1>5, <2>1 DEF Holding, Live
    <3>2. PICK p \in objects : p.path = Path(g) /\ p.digest = Own(g)
      BY <3>1 DEF Held, HeldIntact, At
    <3>3. Own(g) # Own(h)
      BY <1>1, <3>1 DEF Held, BytesApart
    <3>4. p \in objects'
      BY <1>1, <1>2, <1>3, <3>2, <3>3
    <3>. QED  BY <3>1, <3>2, <3>4 DEF At, Path, Own
  <2>. QED  BY <2>1 DEF HeldIntact
<1>9. KeysUnique'
  BY <1>1 DEF Held, KeysUnique
<1>. QED  BY <1>6, <1>7, <1>8, <1>9 DEF Held, KeepsHeld

LEMMA StepHeld ==
  ASSUME Typed, Held, ChecksumKept, NEW h \in Horse, Step(h) \/ Fault(h)
  PROVE  /\ Held'
         /\ "commit_lost" \notin Faults => (RowsIntact => RowsIntact')
<1>. USE AttemptsKept DEF KeepsHeld
<1>1. CASE ClaimPendingById(h)
  BY <1>1, ClaimHeld
<1>2. CASE Upload(h)
  BY <1>2, UploadHeld
<1>3. CASE RecoverExistingUpload(h)
  BY <1>3, RecoverHeld
<1>4. CASE CompleteJob(h)
  BY <1>4, CompleteHeld
<1>5. CASE DeleteObject(h)
  BY <1>5, DeleteHeld
<1>6. ASSUME NEW j \in Job, Dequeue(h, j) PROVE KeepsHeld
  <2>1. run' = [run EXCEPT ![h] = [IdleRun EXCEPT !.pc = "claim", !.job = j]]
        /\ run \in [Horse -> Registers] /\ UNCHANGED <<images, objects, attempts>>
    BY <1>6 DEF Dequeue, Typed, TypeOK, columns
  <2>2. \A g \in Horse : Calm(g)
    BY <2>1 DEF Calm, Live, Holding, Own, Path, IdleRun
  <2>. QED  BY <2>1, <2>2, CalmHeld
<1>7. CASE Generate(h) \/ GetImageByGenerationId(h) \/ FailJob(h)
  <2>1. UNCHANGED <<images, objects, attempts>> /\ run[h].pc \notin {"idle", "claim"}
    BY <1>7 DEF Generate, GetImageByGenerationId, FailJob, columns
  <2>2. \/ Return(h) \/ Raise(h)
        \/ \E where \in {"lookup", "reserve", "fail_return"} : Goto(h, where)
    BY <1>7 DEF Generate, GetImageByGenerationId, FailJob
  <2>3. \A g \in Horse : Calm(g)
    BY <2>1, <2>2, EndCalm, GotoCalm DEF Live, Where
  <2>. QED  BY <2>1, <2>3, CalmHeld
<1>8. CASE ReserveImageVersion(h) \/ NumberImage(h)
  <2>1. UNCHANGED <<images, objects, attempts>> /\ Live(h) /\ ~Holding(h)
        /\ run \in [Horse -> Registers]
    BY <1>8 DEF ReserveImageVersion, NumberImage, columns, Live, Holding, Typed, TypeOK
  <2>2. \/ Handle(h)
        \/ \E where \in {"number", "upload"}, v \in Version \union {0} :
               run' = [run EXCEPT ![h].pc = where, ![h].version = v]
    <3>1. reserved[run[h].job] \in Version \union {0}
      BY <2>1 DEF Live, Typed, TypeOK, RegistersOK
    <3>. QED  BY <1>8, <3>1 DEF ReserveImageVersion, NumberImage
  <2>3. CASE Handle(h)
    BY <2>1, <2>3, HandleCalm, CalmHeld
  <2>4. CASE \E where \in {"number", "upload"}, v \in Version \union {0} :
               run' = [run EXCEPT ![h].pc = where, ![h].version = v]
    <3>1. \A g \in Horse : Calm(g)
      BY <2>1, <2>4 DEF Calm, Live, Holding, Own, Path, Registers
    <3>. QED  BY <2>1, <3>1, CalmHeld
  <2>. QED  BY <2>2, <2>3, <2>4
<1>9. CASE \/ FailUpload(h) \/ RejectImage(h) \/ FailDelete(h) \/ Interrupt(h) \/ Crash(h)
  <2>1. UNCHANGED <<images, objects, attempts>>
    BY <1>9 DEF FailUpload, RejectImage, FailDelete, Interrupt, Crash, columns
  <2>2. \/ Return(h)
        \/ Raise(h)
        \/ Live(h) /\ Handle(h)
    BY <1>9 DEF FailUpload, RejectImage, FailDelete, Interrupt, Crash, Live
  <2>. QED  BY <2>1, <2>2, EndCalm, HandleCalm, CalmHeld
<1>10. CASE RejectCompletion(h) \/ FailCommit(h)
  <2>1. UNCHANGED <<images, objects, attempts>>
    BY <1>10 DEF RejectCompletion, FailCommit, columns
  <2>2. \A g \in Horse : Calm(g)
    BY <1>10, HandleCompletionErrorCalm DEF RejectCompletion, FailCommit, AtCompletion
  <2>. QED  BY <2>1, <2>2, CalmHeld
<1>. QED  BY <1>1, <1>2, <1>3, <1>4, <1>5, <1>6, <1>7, <1>8, <1>9, <1>10 DEF Step, Fault

LEMMA NextHeld ==
  ASSUME ChecksumKept, Typed, Held, [Next]_vars
  PROVE  /\ Held'
         /\ "commit_lost" \notin Faults => (RowsIntact => RowsIntact')
<1>1. ASSUME UNCHANGED <<images, objects, attempts, run>> PROVE KeepsHeld
  <2>1. \A g \in Horse : Calm(g)
    BY <1>1 DEF Calm, Live, Holding, Own, Path
  <2>. QED  BY <1>1, <2>1, AttemptsKept, CalmHeld
<1>2. CASE \/ \E j \in Job : LoseWorker(j) \/ RetryDue(j) \/ GrowStale(j)
           \/ RecoverStaleProcessingJobs
           \/ \E x \in Job \union Content \union User : SoftDelete(x)
           \/ UNCHANGED vars
  BY <1>1, <1>2 DEF LoseWorker, RetryDue, GrowStale, RecoverStaleProcessingJobs, SoftDelete,
     vars, columns, KeepsHeld
<1>. QED  BY <1>2, StepHeld DEF Next

\* When storage keeps checksums, a work-horse holds its own bytes until it is done.
LEMMA HeldAlways == ASSUME ChecksumKept PROVE Spec => []Held
<1>1. Typed /\ Held /\ [Next]_vars => Held'
  BY NextHeld
<1>. QED  BY <1>1, InitHeld, TypedAlways, PTL DEF Spec

\* When storage keeps checksums and no commit loses its acknowledgement, an
\* image row always names an object with its bytes: no retry overwrites it and
\* no cleanup deletes it, however executions of its job and of others overlap.
THEOREM ImagesIntact ==
  ASSUME ChecksumKept, "commit_lost" \notin Faults
  PROVE  Spec => []ImageObjectIntact
<1>1. Typed /\ Held /\ RowsIntact /\ [Next]_vars => RowsIntact'
  BY NextHeld
<1>2. RowsIntact => ImageObjectIntact
  BY DEF RowsIntact
<1>. QED  BY <1>1, <1>2, InitHeld, HeldAlways, TypedAlways, PTL DEF Spec

==================================================================================
