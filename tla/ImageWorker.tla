------------------------------- MODULE ImageWorker -------------------------------
(***************************************************************************)
(* The image worker: RQ work-horses execute run_image_generation for the   *)
(* Generation Jobs of a table, generate an image with the provider, put it *)
(* into object storage and complete the job, each in the transactions and  *)
(* under the row locks of the source.  A work-horse is a process: any two  *)
(* interleave, and any one may die between two steps.                      *)
(*                                                                         *)
(* One step is one database transaction or one call of the provider or of  *)
(* the storage.  Row locks (SELECT ... FOR UPDATE) that a transaction      *)
(* holds across several steps are variables; what it wrote but did not     *)
(* commit is in the registers of the work-horse.                           *)
(***************************************************************************)
EXTENDS Integers

CONSTANTS Job,           \* Generation Jobs, committed and enqueued
          Content,       \* Contents
          ContentOf,     \* the Content of each job's Generation
          User,          \* Users
          RequesterOf,   \* the User who requested each job's Generation
          Horse,         \* RQ work-horses, one execution at a time each
          None,          \* no job, no lock holder
          MaxAttempts,   \* generation_jobs.max_attempts
          Version,       \* image version numbers (bounds the counter)
          ChecksumKept,  \* the storage reports the checksum of an object:
                         \* the local provider does, Supabase does not
          Faults         \* the failures of the environment that may happen

FaultKinds ==
    {"crash",        \* a work-horse dies
     "lost_worker",  \* RQ gives up on an execution that is still running
     "exception",    \* a database error or RQ's JobTimeoutException
     "commit",       \* the commit of a completion fails and rolls back
     "commit_lost",  \* the commit takes effect, its caller sees an error
     "upload",       \* an upload fails, with or without storing the object
     "stat",         \* the object cannot be looked up or has no URL
     "delete",       \* the object cannot be deleted
     "reject",       \* the image is refused before the upload
     "late",         \* an execution outlives the stale threshold
     "soft_delete"}  \* a Generation, a Content or a User is soft-deleted

ASSUME JobsAndHorses == None \notin Job \union Horse
ASSUME ContentAssumption == ContentOf \in [Job -> Content]
ASSUME RequesterAssumption == RequesterOf \in [Job -> User]
ASSUME AttemptsAssumption == MaxAttempts \in Nat \ {0}
ASSUME VersionAssumption == Version \subseteq Nat \ {0}
ASSUME SettingsAssumption == ChecksumKept \in BOOLEAN /\ Faults \subseteq FaultKinds

VARIABLES status,       \* generation_jobs.status
          attempts,     \* generation_jobs.attempt_count
          stale,        \* generation_jobs.started_at is older than the threshold
          reserved,     \* generations.parameters["image_version_number"], 0 if absent
          images,       \* the rows of table images
          deleted,      \* soft-deleted Generations (by their job), Contents and Users
          jobLock,      \* who holds the row lock of a job across steps
          contentLock,  \* who holds the row lock of a Content across steps
          objects,      \* what object storage holds
          entry,        \* the state of the job's RQ entry
          retries,      \* retries_left of the entry
          runner,       \* the work-horse whose outcome RQ will record
          run           \* the registers of each work-horse

columns  == <<status, attempts, stale, reserved>>
locks    == <<jobLock, contentLock>>
rqVars   == <<entry, retries, runner>>
vars     == <<columns, images, deleted, locks, objects, rqVars, run>>

Status == {"PENDING", "PROCESSING", "COMPLETED", "FAILED"}

AllowedTransitions ==
    [s \in Status |-> CASE s = "PENDING"    -> {"PROCESSING", "FAILED"}
                        [] s = "PROCESSING" -> {"COMPLETED", "FAILED"}
                        [] OTHER            -> {}]

AnyTransition(current, target) == target # current
CanTransition(current, target) == target \in AllowedTransitions[current]

\* The bytes the provider returned to one attempt of one job.
Digest == Job \X Nat
Own(h) == <<run[h].job, run[h].attempt>>

\* immutable_image_path: the key of an object is fixed by the User, Content and version.
ImagePath(j, v) == <<RequesterOf[j], ContentOf[j], v>>
Path(h) == ImagePath(run[h].job, run[h].version)
At(path) == {o \in objects : o.path = path}

\* Retry(max=...) of enqueue_image_generation.
RetryMaxOffByOne == MaxAttempts
RetryMax == MaxAttempts - 1

Where == {"idle", "claim", "generate", "lookup", "reserve", "number", "upload",
          "recover", "complete", "cleanup", "undo", "fail_return", "fail_raise"}

Registers == [pc: Where, job: Job \union {None}, attempt: Nat,
              version: Version \union {0}, fresh: BOOLEAN]
IdleRun == [pc |-> "idle", job |-> None, attempt |-> 0, version |-> 0, fresh |-> FALSE]

Executing(h, j) == run[h].job = j /\ run[h].pc # "idle"

Init == /\ status = [j \in Job |-> "PENDING"]
        /\ attempts = [j \in Job |-> 0]
        /\ stale = [j \in Job |-> FALSE]
        /\ reserved = [j \in Job |-> 0]
        /\ images = {}
        /\ deleted = {}
        /\ jobLock = [j \in Job |-> None]
        /\ contentLock = [c \in Content |-> None]
        /\ objects = {}
        /\ entry = [j \in Job |-> "queued"]
        /\ retries = [j \in Job |-> RetryMax]
        /\ runner = [j \in Job |-> None]
        /\ run = [h \in Horse |-> IdleRun]
-----------------------------------------------------------------------------
(* How an execution ends, and what RQ makes of it. *)

Release(h) ==
    /\ jobLock' = [j \in Job |-> IF jobLock[j] = h THEN None ELSE jobLock[j]]
    /\ contentLock' = [c \in Content |-> IF contentLock[c] = h THEN None ELSE contentLock[c]]

\* The function returned: RQ records success, unless it gave up on the run.
Return(h) ==
    /\ run' = [run EXCEPT ![h] = IdleRun]
    /\ IF runner[run[h].job] = h
       THEN /\ entry' = [entry EXCEPT ![run[h].job] = "finished"]
            /\ runner' = [runner EXCEPT ![run[h].job] = None]
       ELSE UNCHANGED <<entry, runner>>
    /\ UNCHANGED retries

RqRetryForever(j) ==
    /\ entry' = [entry EXCEPT ![j] = "scheduled"]
    /\ retries' = [retries EXCEPT ![j] = @ - 1]
    /\ runner' = [runner EXCEPT ![j] = None]

RqRetry(j) ==
    /\ entry' = [entry EXCEPT ![j] = IF retries[j] > 0 THEN "scheduled" ELSE "failed"]
    /\ retries' = [retries EXCEPT ![j] = IF @ > 0 THEN @ - 1 ELSE 0]
    /\ runner' = [runner EXCEPT ![j] = None]

\* The function raised, or its process died.
Raise(h) ==
    /\ run' = [run EXCEPT ![h] = IdleRun]
    /\ IF runner[run[h].job] = h THEN RqRetry(run[h].job) ELSE UNCHANGED rqVars

Goto(h, where) ==
    /\ run' = [run EXCEPT ![h].pc = where]
    /\ UNCHANGED rqVars

\* "except Exception" of run_image_generation.
HandleWithoutFailing(h) == Raise(h)
Handle(h) ==
    IF run[h].attempt < MaxAttempts THEN Raise(h) ELSE Goto(h, "fail_raise")

\* The same, after "except Exception" of persist_generated_image.
HandleWithoutDelete(h, where) == Handle(h)
HandleCompletionError(h, where) ==
    IF run[h].fresh THEN Goto(h, where) ELSE Handle(h)
-----------------------------------------------------------------------------
(* The steps of run_image_generation. *)

Dequeue(h, j) ==
    /\ run[h].pc = "idle"
    /\ entry[j] = "queued"
    /\ entry' = [entry EXCEPT ![j] = "started"]
    /\ runner' = [runner EXCEPT ![j] = h]
    /\ run' = [run EXCEPT ![h] = [IdleRun EXCEPT !.pc = "claim", !.job = j]]
    /\ UNCHANGED <<columns, images, deleted, locks, objects, retries>>

Claimable(j) ==
    status[j] \in {"PENDING", "PROCESSING"} /\ {j, RequesterOf[j]} \intersect deleted = {}

ClaimWithoutTransition(j) ==
    /\ stale' = [stale EXCEPT ![j] = FALSE]
    /\ attempts' = [attempts EXCEPT ![j] = @ + 1]
    /\ UNCHANGED <<status, reserved>>
Claim(j) ==
    /\ status' = [status EXCEPT ![j] = "PROCESSING"]
    /\ stale' = [stale EXCEPT ![j] = FALSE]
    /\ attempts' = [attempts EXCEPT ![j] = @ + 1]
    /\ UNCHANGED reserved

ClaimPendingById(h) ==
    LET j == run[h].job IN
    /\ run[h].pc = "claim"
    /\ jobLock[j] = None
    /\ \/ /\ Claimable(j)
          /\ Claim(j)
          /\ \/ /\ run' = [run EXCEPT ![h].pc = "generate", ![h].attempt = attempts[j] + 1]
                /\ UNCHANGED rqVars
             \/ "commit_lost" \in Faults /\ Raise(h)
       \/ /\ ~Claimable(j)
          /\ Return(h)
          /\ UNCHANGED columns
    /\ UNCHANGED <<images, deleted, locks, objects>>

Generate(h) ==
    /\ run[h].pc = "generate"
    /\ \/ Goto(h, "lookup")
       \/ run[h].attempt < MaxAttempts /\ Raise(h)  \* retryable provider error
       \/ Goto(h, "fail_return")                    \* permanent, or the last attempt
    /\ UNCHANGED <<columns, images, deleted, locks, objects>>

GetImageByGenerationId(h) ==
    /\ run[h].pc = "lookup"
    /\ IF \E r \in images : r.job = run[h].job THEN Return(h) ELSE Goto(h, "reserve")
    /\ UNCHANGED <<columns, images, deleted, locks, objects>>

ReserveImageVersion(h) ==
    LET j == run[h].job IN
    /\ run[h].pc = "reserve"
    /\ jobLock[j] = None
    /\ IF j \in deleted
       THEN Handle(h) /\ UNCHANGED jobLock
       ELSE /\ jobLock' = [jobLock EXCEPT ![j] = h]
            /\ run' = [run EXCEPT ![h].pc = IF reserved[j] > 0 THEN "upload" ELSE "number",
                                  ![h].version = reserved[j]]
            /\ UNCHANGED rqVars
    /\ UNCHANGED <<columns, images, deleted, contentLock, objects>>

ReservedVersions(c) ==
    {reserved[j] : j \in {k \in Job \ deleted : ContentOf[k] = c}}

UsedVersions(c) ==
    {r.version : r \in {i \in images : ContentOf[i.job] = c}}
      \union ReservedVersions(c)

\* 1 + the largest used version, or 1.
IsNextVersion(v, c) ==
    /\ \A u \in UsedVersions(c) : u < v
    /\ v = 1 \/ v - 1 \in UsedVersions(c)

NumberImage(h) ==
    LET c == ContentOf[run[h].job] IN
    /\ run[h].pc = "number"
    /\ contentLock[c] = None
    /\ IF c \in deleted
       THEN Release(h) /\ Handle(h)
       ELSE /\ \E v \in Version :
                 /\ IsNextVersion(v, c)
                 /\ run' = [run EXCEPT ![h].pc = "upload", ![h].version = v]
            /\ contentLock' = [contentLock EXCEPT ![c] = h]
            /\ UNCHANGED <<jobLock, rqVars>>
    /\ UNCHANGED <<columns, images, deleted, objects>>

\* immutable_image_path or validate_image_integrity raises a StorageError,
\* which "except StorageError" of run_image_generation turns into a return.
RejectImage(h) ==
    /\ run[h].pc = "upload"
    /\ "reject" \in Faults
    /\ Release(h)
    /\ Return(h)
    /\ UNCHANGED <<columns, images, deleted, objects>>

Store(h) == objects' = objects \union {[path |-> Path(h), digest |-> Own(h)]}

Upload(h) ==
    /\ run[h].pc = "upload"
    /\ \/ /\ At(Path(h)) = {}
          /\ Store(h)
          /\ run' = [run EXCEPT ![h].pc = "complete", ![h].fresh = TRUE]
          /\ UNCHANGED rqVars
       \/ /\ At(Path(h)) # {} \/ "upload" \in Faults
          /\ UNCHANGED objects
          /\ Goto(h, "recover")
       \/ /\ At(Path(h)) = {}
          /\ "upload" \in Faults
          /\ Store(h)
          /\ Goto(h, "recover")
    /\ UNCHANGED <<columns, images, deleted, locks>>

RecoverAnything(h) == At(Path(h)) # {}

\* _recover_existing_upload: a checksum is compared only if the storage has one.
Recoverable(h) ==
    \E o \in At(Path(h)) : ChecksumKept => o.digest = Own(h)

RecoverExistingUpload(h) ==
    /\ run[h].pc = "recover"
    /\ Recoverable(h)
    /\ Goto(h, "complete")
    /\ UNCHANGED <<columns, images, deleted, locks, objects>>

\* No usable object: fail_job, commit (the reservation with it), and re-raise
\* the StorageError.  In a terminal job fail_job raises instead.
FailUpload(h) ==
    LET j == run[h].job IN
    /\ run[h].pc = "recover"
    /\ ~Recoverable(h) \/ "stat" \in Faults
    /\ Release(h)
    /\ IF CanTransition(status[j], "FAILED")
       THEN /\ status' = [status EXCEPT ![j] = "FAILED"]
            /\ reserved' = [reserved EXCEPT ![j] = run[h].version]
            /\ UNCHANGED <<attempts, stale>>
            /\ Return(h)
       ELSE Handle(h) /\ UNCHANGED columns
    /\ UNCHANGED <<images, deleted, objects>>
-----------------------------------------------------------------------------
(* complete_job and the commit after it. *)

ImageRow(h) == [job |-> run[h].job, version |-> run[h].version, checksum |-> Own(h)]

\* uq_images_generation_id, uq_images_storage_path, uq_images_active_content_version.
Conflicts(row) ==
    \E r \in images : \/ r.job = row.job
                      \/ /\ ContentOf[r.job] = ContentOf[row.job]
                         /\ r.version = row.version

Found(h) == {run[h].job, ContentOf[run[h].job]} \intersect deleted = {}

Completable(h) ==
    /\ Found(h)
    /\ CanTransition(status[run[h].job], "COMPLETED")
    /\ ~Conflicts(ImageRow(h))

AtCompletion(h) ==
    /\ run[h].pc = "complete"
    /\ contentLock[ContentOf[run[h].job]] \in {None, h}

CommitCompletion(h) ==
    /\ status' = [status EXCEPT ![run[h].job] = "COMPLETED"]
    /\ reserved' = [reserved EXCEPT ![run[h].job] = run[h].version]
    /\ images' = images \union {ImageRow(h)}
    /\ Release(h)
    /\ UNCHANGED <<attempts, stale>>

CompleteJob(h) ==
    /\ AtCompletion(h)
    /\ Completable(h)
    /\ CommitCompletion(h)
    /\ \/ Return(h)
       \/ "commit_lost" \in Faults /\ HandleCompletionError(h, "undo")
    /\ UNCHANGED <<deleted, objects>>

\* complete_job raises an error of its own, or RQ's timeout: the transaction
\* stays open, and with it the locks, while the object is deleted.
RejectCompletion(h) ==
    /\ AtCompletion(h)
    /\ \/ ~Found(h)
       \/ ~CanTransition(status[run[h].job], "COMPLETED")
       \/ "exception" \in Faults
    /\ IF run[h].fresh THEN UNCHANGED locks ELSE Release(h)
    /\ HandleCompletionError(h, "cleanup")
    /\ UNCHANGED <<columns, images, deleted, objects>>

\* The database refuses the row or the commit: the transaction is gone before
\* the object is deleted.
FailCommit(h) ==
    /\ AtCompletion(h)
    /\ Conflicts(ImageRow(h)) \/ "commit" \in Faults
    /\ Release(h)
    /\ HandleCompletionError(h, "undo")
    /\ UNCHANGED <<columns, images, deleted, objects>>

DeleteObject(h) ==
    /\ run[h].pc \in {"cleanup", "undo"}
    /\ objects' = objects \ At(Path(h))
    /\ Release(h)
    /\ Handle(h)
    /\ UNCHANGED <<columns, images, deleted>>

\* StorageDeleteError is a StorageError: the worker returns.
FailDelete(h) ==
    /\ run[h].pc \in {"cleanup", "undo"}
    /\ "delete" \in Faults
    /\ Release(h)
    /\ Return(h)
    /\ UNCHANGED <<columns, images, deleted, objects>>

FailJob(h) ==
    LET j == run[h].job IN
    /\ run[h].pc \in {"fail_return", "fail_raise"}
    /\ jobLock[j] = None
    /\ status' = [status EXCEPT ![j] = IF CanTransition(@, "FAILED") THEN "FAILED" ELSE @]
    /\ IF run[h].pc = "fail_return" THEN Return(h) ELSE Raise(h)
    /\ UNCHANGED <<attempts, stale, reserved, images, deleted, locks, objects>>
-----------------------------------------------------------------------------
(* The environment: failures, time, RQ and the worker's start. *)

\* Outside the try of run_image_generation an exception reaches RQ at once; a
\* timeout while the provider is called is a permanent provider error (Generate).
Interrupt(h) ==
    /\ "exception" \in Faults
    /\ run[h].pc \notin {"idle", "generate", "complete"}
    /\ Release(h)
    /\ IF run[h].pc \in {"claim", "fail_return", "fail_raise"} THEN Raise(h) ELSE Handle(h)
    /\ UNCHANGED <<columns, images, deleted, objects>>

Crash(h) ==
    /\ "crash" \in Faults
    /\ run[h].pc # "idle"
    /\ Release(h)
    /\ Raise(h)
    /\ UNCHANGED <<columns, images, deleted, objects>>

LoseWorker(j) ==
    /\ "lost_worker" \in Faults
    /\ entry[j] = "started"
    /\ RqRetry(j)
    /\ UNCHANGED <<columns, images, deleted, locks, objects, run>>

RetryDue(j) ==
    /\ entry[j] = "scheduled"
    /\ entry' = [entry EXCEPT ![j] = "queued"]
    /\ UNCHANGED <<columns, images, deleted, locks, objects, retries, runner, run>>

GrowStale(j) ==
    /\ status[j] = "PROCESSING"
    /\ \/ "late" \in Faults
       \/ \A h \in Horse : Executing(h, j) => run[h].pc = "claim"
    /\ stale' = [stale EXCEPT ![j] = TRUE]
    /\ UNCHANGED <<status, attempts, reserved, images, deleted, locks, objects, rqVars, run>>

StaleJobs == {j \in Job : status[j] = "PROCESSING" /\ stale[j] /\ jobLock[j] = None}

RecoverStaleProcessingJobs ==
    /\ StaleJobs # {}
    /\ status' = [j \in Job |-> IF j \in StaleJobs THEN "FAILED" ELSE status[j]]
    /\ UNCHANGED <<attempts, stale, reserved, images, deleted, locks, objects, rqVars, run>>

\* The UPDATE waits for the row: reserve_image_version wrote the Generation
\* and has not committed, or a transaction holds the Content.
SoftDelete(x) ==
    /\ "soft_delete" \in Faults
    /\ x \notin deleted
    /\ x \in Job => \A h \in Horse : jobLock[x] = h => run[h].version \in {0, reserved[x]}
    /\ x \in Content => contentLock[x] = None
    /\ deleted' = deleted \union {x}
    /\ UNCHANGED <<columns, images, locks, objects, rqVars, run>>
-----------------------------------------------------------------------------
Step(h) ==
    \/ \E j \in Job : Dequeue(h, j)
    \/ ClaimPendingById(h) \/ Generate(h) \/ GetImageByGenerationId(h)
    \/ ReserveImageVersion(h) \/ NumberImage(h) \/ Upload(h)
    \/ RecoverExistingUpload(h) \/ FailUpload(h)
    \/ CompleteJob(h) \/ RejectCompletion(h) \/ DeleteObject(h) \/ FailJob(h)

Fault(h) == RejectImage(h) \/ FailCommit(h) \/ FailDelete(h) \/ Interrupt(h) \/ Crash(h)

Next == \/ \E h \in Horse : Step(h) \/ Fault(h)
        \/ \E j \in Job : LoseWorker(j) \/ RetryDue(j) \/ GrowStale(j)
        \/ RecoverStaleProcessingJobs
        \/ \E x \in Job \union Content \union User : SoftDelete(x)

Spec == Init /\ [][Next]_vars

\* A live work-horse takes its steps, an idle one serves the queue, and RQ's
\* scheduler moves due retries.  No worker is assumed ever to start again.
FairSpec == /\ Spec
            /\ \A h \in Horse : WF_vars(Step(h))
            /\ \A j \in Job : WF_vars(RetryDue(j))
-----------------------------------------------------------------------------
TypeOK ==
    /\ status \in [Job -> Status]
    /\ attempts \in [Job -> Nat]
    /\ stale \in [Job -> BOOLEAN]
    /\ reserved \in [Job -> Version \union {0}]
    /\ images \subseteq [job: Job, version: Version, checksum: Digest]
    /\ deleted \subseteq Job \union Content \union User
    /\ jobLock \in [Job -> Horse \union {None}]
    /\ contentLock \in [Content -> Horse \union {None}]
    /\ objects \subseteq [path: User \X Content \X Version, digest: Digest]
    /\ entry \in [Job -> {"queued", "started", "scheduled", "finished", "failed"}]
    /\ retries \in [Job -> Nat]
    /\ runner \in [Job -> Horse \union {None}]
    /\ run \in [Horse -> Registers]

\* Every image row names an object that storage holds, with the very bytes
\* whose checksum the row records.
ImageObjectIntact ==
    \A r \in images : \E o \in objects :
        o.path = ImagePath(r.job, r.version) /\ o.digest = r.checksum

\* No completion is ever refused by a unique constraint of table images.
VersionsDoNotCollide ==
    \A h \in Horse : run[h].pc = "complete" /\ CanTransition(status[run[h].job], "COMPLETED")
                        => ~Conflicts(ImageRow(h))

\* RQ's retries and attempt_count are kept apart, and still no job is claimed
\* more often than max_attempts allows.
AttemptsWithinBudget == \A j \in Job : attempts[j] <= MaxAttempts

\* At rest, storage holds nothing but the objects of image rows.
NoOrphanObject ==
    (\A h \in Horse : run[h].pc = "idle") =>
        \A o \in objects : \E r \in images : o.path = ImagePath(r.job, r.version)

\* What RQ is done with and nobody executes is terminal or left where the sweep of the
\* next worker start finds and fails it, unless it was deleted before it was claimed:
\* however an execution returns, it leaves neither a PENDING job nor a lock.
LeftoversAreSweepable ==
    \A j \in Job :
        entry[j] \in {"finished", "failed"} /\ (\A h \in Horse : ~Executing(h, j)) =>
            \/ status[j] \in {"COMPLETED", "FAILED"}
            \/ status[j] = "PROCESSING" /\ jobLock[j] = None
            \/ {j, RequesterOf[j]} \intersect deleted # {}

\* The object an image row names exists when the row is committed: the URL
\* stored with it is usable at that moment.
UrlUsableAtCompletion ==
    [][\A r \in images' \ images : \E o \in objects' :
            o.path = ImagePath(r.job, r.version)]_vars

Promise == INSTANCE JobLifecycle WITH published <- {<<r.job, r.version>> : r \in images}

\* The worker keeps the promise of JobLifecycle.
KeepsPromise == Promise!Spec

\* Every job reaches a terminal status.
EveryJobSettles == \A j \in Job : <>(status[j] \in Promise!Terminal)
==================================================================================
