# A TLA+ model of creator-backend

`creator-backend-python` is a FastAPI service that makes marketing texts and
images. Its hard part is the image pipeline: an HTTP request with an
`Idempotency-Key` creates a *Generation Job* in PostgreSQL and puts it into a
Redis/RQ queue; a worker takes it, asks Gemini for an image, stores the image in
object storage under an immutable path and completes the job. The pipeline spans
four stores that fail independently (PostgreSQL, Redis, the storage bucket, the
provider) and holds row locks across network calls. Around it are Workspaces with their
Brands, Projects, Contents, Generations and Assets, and the Users behind Supabase's
tokens with their Settings, all of which concurrent requests change in several
statements each. This directory models the pipeline, its calls of Gemini, this
catalog and these accounts, checks them with TLC and proves their main safety
properties with TLAPS.

Paths below are relative to `src/src/creator/`.

## 1. Inventory

| component | state | operations | talks to | what makes it hard | what makes it correct |
|---|---|---|---|---|---|
| Job lifecycle `domain/generation.py` | `generation_jobs.status` | `can_transition` | everything that writes a status | writers are concurrent | terminal is final; an image exists exactly when COMPLETED |
| Image worker `workers/` | registers of a work-horse; RQ entry, retries left | `run_image_generation`, `_fail_job`, `recover_stale_processing_jobs` | repository, provider, storage, RQ | any work-horse dies anywhere; RQ may run one job twice | attempts stay in budget; every job ends |
| Image persistence `application/image_storage.py` | objects of the bucket | `persist_generated_image`, `_recover_existing_upload` | storage, repository | upload and commit are not atomic; compensating delete | a row names an object with its bytes; nothing is orphaned |
| Image repository `infrastructure/dtos.py` | `generation_jobs`, `generations.parameters`, `images` and their row locks | claim, reserve, complete, fail, sweep | PostgreSQL (READ COMMITTED) | versions are maxima read under a lock | versions of a Content never collide |
| Submission `application/image_generation.py` | the request's transaction | `submit_image_generation`, `submit_image_regeneration` | repository, RQ | enqueue before commit; concurrent use of a key | one job per key; truthful answers |
| Unit of Work `infrastructure/unit_of_work.py` | the session | commit, rollback, rollback on exit | PostgreSQL | a lost acknowledgement | all or nothing |
| Provisioning, users `api/dependencies.py` | `users` | `get_current_user`, administration | Supabase's tokens, PostgreSQL | concurrent first requests; a refresh that overlaps with an administrator | one User per subject; roles are granted, deletion is final |
| Settings | `settings` | `get_or_create_for_user`, `update_partial` | PostgreSQL | reading again in a failed session | an accepted PATCH stays |
| Workspaces, memberships, roles | `workspaces`, `workspace_memberships` | create, update, soft delete, role checks | PostgreSQL | checks and writes in different statements | only members see, only editors write |
| Brands, projects, assets, brand settings | their tables | CRUD behind a role check | PostgreSQL | the same | the same |
| Text generation and improvement | `contents`, `generations` | generate, improve | Gemini, PostgreSQL | access checked before a slow call | nothing is written without access |
| Gemini providers `integrations/gemini`, `services/ai` | calls and delays of a loop | retry loop, error classes | Gemini, RQ's timeout | retries within retries, swallowed timeouts | every transient error is retried, no other; a bound on calls and sleeps |
| Prompt of a regeneration `application/image_generation.py` | the draft | truncation loop | templates | the overflow is measured after escaping, the cut made before | it ends, fits, and loses little |
| Authentication `infrastructure/auth.py` | none | token checks, login, signup | Supabase, PostgreSQL | an account there, no User here | a signup is whole or leaves nothing |
| Other prompts, schemas, serialisers, retrieval, agents | none | pure | – | – | – |

The list in `PROJECT.json` (`components`, `hazards`) repeats this with the lines.

## 2. Modules

| module | what it is |
|---|---|
| `JobLifecycle` | abstract specification: what a reader of jobs and images may ever see |
| `ImageWorker` | the worker with its database, locks, storage and RQ, in the steps of the source |
| `ImageSubmission` | the two endpoints that create jobs, and what a worker and users do meanwhile |
| `CatalogView` | abstract specification: what members see of the artifacts of a Workspace |
| `Catalog` | the endpoints that create, change and delete these artifacts, in the statements of the source |
| `Accounts` | Users, their provisioning on every request, signup, Settings and administration |
| `GeminiRequests` | what is sent to Gemini, and how often: truncation and the nested retries |
| `ImageWorkerProofs` | types, the refinement of `JobLifecycle`, and the rows' objects |
| `ImageWorkerSafetyProofs` | attempts, locks, versions, leftovers, orphans, and what the promise means to a reader |
| `ImageSubmissionProofs` | theorems and proofs about `ImageSubmission` |
| `CatalogProofs` | types, references, refusals, and the refinement of `CatalogView` |
| `CatalogHistoryProofs` | what becomes of accepted updates and repeated deletions |
| `AccountsProofs`, `GeminiRequestsProofs` | theorems and proofs about `Accounts` and `GeminiRequests` |
| `MCImageWorker`, `MCImageSubmission`, `MCCatalog`, `MCAccounts`, `MCGeminiRequests` | instances for TLC |

`ImageWorker` implements `JobLifecycle` under the mapping that reads `status` as
it is and `published` as the job and version columns of table `images`; it is
checked (run `worker_local`) and proved (`PromiseKept`).

### ImageWorker and the code

A step is one transaction or one call of the provider or the storage. Row locks
that a transaction holds across such calls are the variables `jobLock` and
`contentLock`; what it has written and not committed is in the registers
(`run[h]`: where it is, its job, the attempt and version it holds, and
`fresh`, the code's `uploaded_now`).

| in the code | in the model |
|---|---|
| RQ hands an entry to a work-horse | `Dequeue` |
| `_claim_work_item` / `claim_pending_by_id` | `ClaimPendingById` (`Claimable`, `Claim`) |
| `create_image_generator(...).generate` and its error classes | `Generate` |
| `persist_generated_image`: image exists already | `GetImageByGenerationId` |
| `reserve_image_version`: job lock, then Content lock and the maximum | `ReserveImageVersion`, `NumberImage` |
| `immutable_image_path`, `validate_image_integrity` raising | `RejectImage` |
| `storage.upload`, `_recover_existing_upload`, `fail_job` | `Upload`, `RecoverExistingUpload`, `FailUpload` |
| `complete_job` and `commit` | `CompleteJob`; refused by the code: `RejectCompletion`; by the database: `FailCommit` |
| `except Exception: if uploaded_now: storage.delete` | `HandleCompletionError`, `DeleteObject`, `FailDelete` |
| `except` clauses of `run_image_generation`, `_fail_job` | `Handle`, `FailJob`, `Return`, `Raise` |
| `recover_stale_processing_jobs` | `GrowStale`, `RecoverStaleProcessingJobs` |
| DELETE of a Generation, Content or User | `SoftDelete` |
| RQ: retries, abandoned jobs, scheduler; process death | `RqRetry`, `LoseWorker`, `RetryDue`, `Crash` (external) |

Two kinds of failed completion are kept apart because they differ in *when the
locks go*. An error raised by Python code (no such row, an illegal transition,
RQ's timeout) leaves the transaction open until the `with` block ends, that is
until after the delete (`"cleanup"`). An error of the database itself (a unique
constraint, a failing commit) ends the transaction at once, so the delete runs
without locks (`"undo"`).

`images.storage_path` is unique in the database; the path is a function of
requester, Content and version, so with the constraint on Content and version it
adds no conflict for a single Content, and `Conflicts` need not mention it.

`Faults` names what the environment may do, so that a run or a theorem can say
precisely which failures it is about.

### ImageSubmission and the code

One step is one statement of the request (READ COMMITTED: each statement sees
what is committed when it starts) or one call of the queue. A job is named by the
request that creates it. `status[r] = "absent"` until `Commit`; an INSERT waits
for another transaction that holds the same `external_id` (`Waits`) and fails if
it is committed (`Taken`). `ExternalId`, `Fingerprint` and `ResolvedStyle` keep
of hashes and JSON what they tell apart. The worker is a claim and an outcome;
`ImageWorker` has its detail.

### Catalog and the code

A request is an endpoint with its input (`ask`): an operation of a User on a kind
of row, its id, a Workspace, references and the columns to set. `pc` names the next
statement: `"start"` and `"role"` are checks of the endpoint and the repository,
`"get"` and `"find"` read a row, `"access"` asks for access after the provider's
answer, `"insert"` and `"write"` change the database and commit. Each statement sees
what is committed when it runs (READ COMMITTED); the last one is a step with its
commit, as its row locks keep others out until then. What a request has read
lives on only where the code uses it later: whether an upsert loaded Brand
Settings that were there or deleted (`loaded`).

| in the code | in the model |
|---|---|
| `user_has_workspace_role`, `user_has_workspace_access` | `UserHasWorkspaceRole`, `UserHasWorkspaceAccess` |
| `_scoped_resource_select`; `_scoped_select` of Contents | `ScopedResource`; `ScopedContent` |
| get and list of each kind | `VisibleTo`, and `ShownRows` of the refinement mapping |
| `_require_workspace_write`, `_not_found` | `RequireWorkspaceWrite`, `Check` |
| `add` of the repositories, `flush_or_raise` | `Create`, `Add`, `New`, `Insert` |
| `_writable_*`, `update`, `soft_delete` | `Writable`, `Update`, `SoftDelete`, `Patched`, `Deleted` |
| composite foreign keys of `models.py` | `ReferencesHold` |
| `create_for_user`, `update`, `soft_delete_for_user` of Workspaces | `CreateForUser`, `UpdateWorkspace`, `SoftDeleteForUser` |
| `upsert` of Brand Settings | `LoadSettings`, `Revived`, `Upsert` |
| endpoints and repository of Contents | `CreateContent`, `UpdateContent`, `DeleteContent` |
| `generate_content`, `create_text_generation`, `improve_content` | `GenerateContent`, `CreateTextGeneration`, `ImproveContent` |

Contents differ from the other kinds as in the source: their role is checked by the
endpoint, not by the repository; their scope does not look at the Workspace; they may
change their references; deleting one again is accepted. `EntityNotFoundError` of
`add`, `ConflictError` (a unique constraint) and `ConcurrencyError` (a foreign key) are caught by
no endpoint and are answered with 500. The row
that `session.get` returns in Contents' `update` and `soft_delete` is read anew: the
one that was read before is no longer referenced, and the session holds it weakly.

A column holds the name of the request that wrote it last. That is what tells a lost
update from a kept one, and a refused request's trace from another's write.

`Catalog` implements `CatalogView` under the mapping that shows a row when some User
has it in scope and it is not deleted: each statement is a change of `CatalogView` or
none at all. Text generations show their two rows at once; late statements of a
request whose Workspace, row or Membership has gone are invisible.

### Accounts and the code

Every endpoint but signup first runs `get_current_user` in the request's own
transaction; `Catalog`, `ImageSubmission` and this module's endpoints begin where it
ends. `ask` is what a request brings: the endpoint, what the verifier makes of its
token, the Principal in it, and an administrator's or a PATCH's columns. `me` is the
`UserRecord` that the endpoint is given, of which only the id and the Global Role are
used; `loaded` is the row that `session.get` has read and that decides which columns
the UPDATE writes.

| in the code | in the model |
|---|---|
| `get_principal`, `SupabaseAuthTokenVerifier.verify` | `GetPrincipal`, `Verdict` |
| `get_by_external_id(..., include_deleted=True)` | `GetByExternalId`, `FindSignup`, `ByExternalId` |
| `users.add` and its commit | `AddUser` |
| `users.update_profile` and its commit | `UpdateProfile` (`Load`, `Patched`) |
| unique constraints on `external_id` and `email` | `Clash`; an INSERT or UPDATE that waits for another transaction, or fails: `Waits`, `Taken` |
| `sign_up_with_password` and its errors | `SignUp`, `SignupErrorCode` |
| `_bootstrap_signup_workspace`, `rollback` | `FindSignup`, `AddSignup`, `CreateWorkspace`, `FailBootstrap` |
| `get_or_create_for_user`, `update_partial` | `UpdateSettings`, `CreateForUser`; its flush refused for a null: `Nulls` |
| `_require_admin`, the users endpoints | `RequireAdmin`, `CreateUser`, `GetUser`, `UpdateUser`, `DeleteUser` |

Only signup writes in several statements, so only its User is ever seen in flight
(`inflight`). `get_or_create_for_user` catches the `ConflictError` of its INSERT and
reads again, but in a session whose flush has failed: SQLAlchemy refuses the statement
until there is a rollback, the error is no `ConflictError`, and the request ends with a
500 (`CreateForUser`). A column of `settings` holds the request that set it last.

### GeminiRequests and the code

One behaviour is one request: a regeneration from its prompt to the end of its job, or
a text endpoint while its caller waits.

| in the code | in the model |
|---|---|
| `build_image_regeneration_prompt` | `Truncate`, `TooLong`, `Cut`, `Shortened` |
| `render_prompt`, `_normalize_value`, `_escape_structure_markers`, JSON's escapes | `Rendered`, and `width` of a prompt (`IsPrompt`) |
| `create_image_generation`, the CHECK on `generations.prompt`, the enqueue | `Submit` |
| `_claim_work_item` | `Claim` |
| `create_gemini_client`, `range(1, gemini_retry_attempts + 1)` | `Begin` |
| `_generate_content` and `_normalize_response` | `Respond`, or what `Except` catches |
| `_classify_error`, `TRANSIENT_STATUS_CODES`, `_retry_delay` | `Class`, `Retryable`, `TransientCodes`, `RetryDelay` |
| `self._sleep(...)` | `Sleep` |
| `except` clauses of `run_image_generation`; of the text endpoints | `Raise`, `Reschedules`; `StatusCode` |
| RQ's `JobTimeoutException` | `Alarm` in `Except` (during a call), `Interrupt` (during a sleep) |

The length of a text is all that truncation looks at, and two lengths matter: raw
characters, which are cut, and rendered ones, which are counted. `width[k]` is the
rendered length of the first `k` raw characters; it grows by one at least with every
character after the blanks at the front, which are stripped, as `_normalize_value`
strips them. Blanks at the end are stripped only while the marker does not follow them.

## 3. Runs

| run | faults | checks | result |
|---|---|---|---|
| `worker_local` | all but a lost commit acknowledgement and deletions; checksums kept (local provider) | `TypeOK`, `ImageObjectIntact`, `AttemptsWithinBudget`, `KeepsPromise` | holds |
| `worker_cleanup` | deletions, lost workers, failed and lost commits, rejected images; no checksums (Supabase) | `NoOrphanObject`, `VersionsDoNotCollide`, `LeftoversAreSweepable` | holds |
| `worker_live` | failing commits and uploads, lost workers, under fairness | `EveryJobSettles` | holds |
| `worker_orphan` | failing commits and uploads | `NoOrphanObject` | violated |
| `worker_supabase` | failing commits; no checksums | `UrlUsableAtCompletion` | violated |
| `submit_keys` | all | `TypeOK`, `OneJobPerKey`, `AcceptedJobMatches`, `RefusedLeavesNothing`, `RepeatedStyleNeverConflicts`, `EveryRequestAnswered` | holds |
| `catalog` | provider errors, failing inserts of a text; any overlap of three requests | `TypeOK`, `MembersOnlyOfLive`, `ReferencesWithinWorkspace`, `AcceptedUpdateKept`, `RefusedWritesNothing`, `RepeatedDeleteAccepted`, `ImplementsView` | holds |
| `accounts` | invalid tokens, Supabase's errors, failing inserts and commits of a signup; any overlap of three requests | `TypeOK`, `OneUserPerSubject`, `SignupWhole`, `RefusedLeavesNothing`, `SettingsKept`, `RolesGrantedByAdmins`, `DeletionIsFinal` | holds |
| `gemini` | every error of a call, RQ's timeout in a call or a sleep | `TypeOK`, `PromptFits`, `TruncatesAtMostTwice`, `PlainPromptsLoseLittle`, `TransientErrorsAreRetried`, `PermanentErrorsAreNot`, `CallsBounded`, `AlarmEndsExecution`, `SleepBounded`, `Settles` | holds |
| `submit_settings` | a settings change | `SameRequestNeverConflicts` | violated |
| `submit_early` | none, under fairness | `AcceptedJobSettles` | violated |
| `accounts_first` | none; two first requests of a subject | `OwnAnswersDocumented` | violated |

The five violations are disagreements between the code and its documents:

1. `worker_orphan`: the upload stores the object but its answer is lost;
   `_recover_existing_upload` adopts it with `uploaded_now = False`; the commit
   fails on the last attempt. The object stays, though
   `docs/issues/0002-image-storage.md:23` promises its removal.
2. `worker_supabase`: the commit fails, the locks are gone, the delete has not run.
   A second job gets the same version, adopts the object (no checksum to tell it
   is not its own), the first worker deletes it, the second completes. Its URL
   never worked, though `docs/adr/0002-image-storage.md:12` says it does at that
   moment. With checksums (`worker_local`) this cannot happen, which `ImagesIntact`
   proves.
3. `submit_early`: the entry is queued before the commit; the worker finds nothing
   and is done; the job is PENDING for ever. One request and one worker suffice.
4. `submit_settings`: a repeated request that leaves the style out is compared by
   a style resolved anew.
5. `accounts_first`: two first requests of one subject both miss its User, and nothing
   handles the `ConflictError` of the second INSERT: a 500, where
   `docs/adr/0004-supabase-auth.md:13` creates the User and `docs/openapi.yaml:68` knows
   of 200 and 401 only.

`OwnAnswersDocumented`, the invariant of `accounts_first`, is broken in more ways, all of
which are in the model. Of two first reads of a User's Settings, the second reads again in a
session that nobody has rolled back: a 500, where `docs/openapi.yaml:78` promises the
defaults. A single PATCH with null for `tone`, `voice` or `visual_style` passes the schema and
is refused by the database: a 500, where `docs/openapi.yaml:889` has no null and line 99 a
422. A token that brings the email of another User, deleted or not, makes every request
of its subject fail so. What `accounts` shows is that none of these failures leaves a trace in
the data (`RefusedLeavesNothing`, `SettingsKept`).

`DocumentedAnswer`, its counterpart in `ImageSubmission`, is proved without deletions and
failures of the database (`AnswersDocumented`). With a deletion it does not hold: the unique
index on `external_id` remembers the job of a deleted Generation, which the lookup no longer
sees, so the `ConflictError` of a repeated key is raised again and answered with 500.

In `gemini`, `AlarmEndsExecution` holds because the loop takes RQ's timeout for a permanent
error: a job that is interrupted in a call fails at once, whatever attempts it has left,
while one that is interrupted in the sleep between two calls is tried again.

`LeftoversAreSweepable` bounds what an execution may leave behind: a job that RQ is done
with and nobody executes is terminal, or PROCESSING with its row unlocked, where the sweep
of the next worker start fails it, or it was deleted, or its requester was. It holds for
deletions, workers that RQ gives up on while they still run, failed and lost commits and
rejected images, and does not hold for work-horses that die: one that dies before its claim
commits, in every attempt RQ grants, leaves the job PENDING for ever, since the sweep takes
PROCESSING jobs only.

### Bounds, and why they are enough

* Worker: two jobs of one Content and one User, two work-horses, `MaxAttempts` 2,
  versions {1, 2}. Two jobs are what it takes to compete for a version and a path,
  two work-horses to run one job twice or two jobs at once, two attempts to have
  a retry and a last attempt. A Content with two jobs never needs a third version,
  because a committed reservation belongs to a job that is terminal. Jobs of
  different Contents share neither paths nor locks nor versions. Attempts are
  bounded by RQ's retries, no state constraint is used.
* Submission: two requests, one key, both endpoints, one Content, one Image, two
  styles. A third request meets nothing that a second does not (it waits for one
  holder of the key, or finds one committed job); the proofs cover any number.
* Catalog: three requests out of 20 (`MCAsks`), two Workspaces with an owner and an
  editor and one that is not there yet, a row of each kind and a Brand of the other
  Workspace, two columns. Two requests overlap; the third is the deletion that comes
  between them, or the reader of what they left. The other Workspace's Brand is what a
  reference must not reach. Of Projects, Generations and Assets only the creation is
  asked for: update and deletion are the same definitions as a Brand's. One failure of
  the provider stands for the others, which differ in the status code. Requests are
  interchangeable, so symmetry is used. A request that waits for no other one ends in
  at most four steps, so liveness is not a question here.
* Accounts: three requests out of 24 (`MCAsks`) of an administrator, a member, a deleted
  User and a subject that has no User yet, which signs up, is provisioned, sets its
  Settings or is created by the administrator under the same subject or email. Two
  requests race for a row; the third changes, deletes or reads it. Emails are shared on
  purpose: a token may bring one that another User holds. Two columns of `settings` tell
  a lost column from a kept one; one of them is NOT NULL (`NotNull`), the other nullable, and
  there is a PATCH with a null for each. One error of Supabase stands for the others.
* Gemini: the lengths are scaled, `Limit` 20000 to 40, `Slack` 256 to 5, `Marker` 56 to 7,
  `Heaviest` 7 as it is (`:` becomes `\\u003a` in JSON); the order of their sizes is kept,
  and the proofs are for any. Prompts have up to 40 characters in five mixes of weights, with and
  without blanks at either end, in styles that leave room, just enough, and none. The six
  configurations have no, one and several calls per loop and attempts per job, delays
  below, at and above the cap, and no key.
* Jobs and work-horses are interchangeable in the worker's runs (the definitions
  never choose between them), so symmetry is used where only safety is checked;
  the liveness runs do without.
* `CHECK_DEADLOCK FALSE`: when all jobs are terminal and all requests answered,
  the system has nothing left to do.

### Fairness

* Worker: `WF(Step(h))` for each work-horse - a live one takes its next step (row
  locks are released by the others' steps or the database), an idle one serves
  the queue as `Worker.work` does - and `WF(RetryDue(j))`, RQ's scheduler, which
  `workers/cli.py:29` starts. Faults are never fair. No fairness on the stale
  sweep: it runs when a worker process starts, and nothing makes one start.
  `EveryJobSettles` therefore leaves out the faults that strand a job until such
  a start (a rejected image or a failing delete, which return success to RQ, a
  crash of the last attempt, a deleted requester); the hazards list names them.
* Submission: `WF(Serve(r))` once the request arrived, `WF(Work(r))` for the
  worker.
* Gemini: `WF(Next)`. There is one request, and something always moves it on: the endpoint
  or the work-horse runs, RQ's scheduler puts a due retry back, a call ends because the
  client has a timeout of its own (`gemini_timeout_seconds`). Which of the alternatives
  happens is left open, so retries may fail for ever as far as fairness goes: that
  `Settles` holds is the work of the counters. Crashes of the worker, whose recovery no
  fairness makes happen, are left to `ImageWorker`.
* Accounts and Catalog: none; their properties are safety.

## 4. Proofs

| theorem | says | for |
|---|---|---|
| `TypeCorrect` | `Spec => []TypeOK` | all constants |
| `PromiseKept` | `Spec => KeepsPromise`, the refinement of `JobLifecycle` | all constants, all faults |
| `ImagesIntact` | `Spec => []ImageObjectIntact` | `ChecksumKept` and no lost commit acknowledgement |
| `AttemptsBounded` | `Spec => []AttemptsWithinBudget` | all constants, all faults |
| `NoVersionCollides` | `Spec => []VersionsDoNotCollide` | all constants, all faults |
| `LocksHeldAlways` | `Spec => []LocksHeld`: a row lock is held in the statements between its SELECT and the commit only | all constants, all faults |
| `UrlUsable` | `Spec => UrlUsableAtCompletion` | `ChecksumKept`, all faults |
| `LeftoversSwept` | `Spec => []LeftoversAreSweepable` | no crash of a work-horse, no database error or RQ timeout between its steps |
| `NothingOrphaned` | `Spec => []NoOrphanObject` | no upload or delete that fails, and the same two |
| `ImagesOfCompleted` | `KeepsPromise`, and so `Spec`, gives `[]ImagesAreOfCompletedJobs` | all constants, all faults |
| `SubmissionTypeCorrect` | `Spec => []TypeOK` | all constants |
| `OneJob` | `Spec => []OneJobPerKey` | all constants |
| `AcceptedMatches` | `Spec => []AcceptedJobMatches` | all constants |
| `RefusedClean` | `Spec => []RefusedLeavesNothing` | all constants |
| `RepeatedStyle` | `Spec => []RepeatedStyleNeverConflicts` | all constants, all faults |
| `RepeatedRequest` | `Spec => []SameRequestNeverConflicts` | no change of settings, no edit of a Generation |
| `AnswersDocumented` | `Spec => []DocumentedAnswer` | no deletion, no failure of the database |
| `CatalogTypeCorrect` | `Spec => []TypeOK` | all constants |
| `MembershipsEnd` | `Spec => []MembersOnlyOfLive` | all constants |
| `ReferencesStay` | `Spec => []ReferencesWithinWorkspace` | all constants |
| `RefusalsLeaveNothing` | `Spec => []RefusedWritesNothing` | all constants |
| `CatalogImplementsView` | `Spec => ImplementsView`, the refinement of `CatalogView` | all constants |
| `UpdatesStay` | `Spec => []AcceptedUpdateKept` | all constants |
| `RepeatedDeletesAccepted` | `Spec => []RepeatedDeleteAccepted` | all constants |
| `AccountsProofs!TypeCorrect` | `Spec => []TypeOK` | all constants |
| `UniqueUsers` | `Spec => []OneUserPerSubject` | all constants |
| `WholeSignups` | `Spec => []SignupWhole` | all constants |
| `NothingOfRefused` | `Spec => []RefusedLeavesNothing` | all constants |
| `KeptSettings` | `Spec => []SettingsKept` | all constants |
| `GrantedRoles` | `Spec => RolesGrantedByAdmins` | all constants |
| `FinalDeletion` | `Spec => DeletionIsFinal` | all constants |
| `GeminiRequestsProofs!TypeCorrect` | `Spec => []TypeOK` | all constants |
| `PromptsFit` | `Spec => []PromptFits` | all constants |
| `TwoRounds` | `Spec => []TruncatesAtMostTwice` | all constants |
| `LittleLost` | `Spec => []PlainPromptsLoseLittle` | all constants |
| `Retried` | `Spec => []TransientErrorsAreRetried` | all constants |
| `NotRetried` | `Spec => []PermanentErrorsAreNot` | all constants |
| `BoundedCalls` | `Spec => []CallsBounded` | all constants |
| `AlarmEnds` | `Spec => []AlarmEndsExecution` | all constants |
| `BoundedSleep` | `Spec => []SleepBounded` | all constants |

Assumptions are the named `ASSUME`s of the modules: that `None` is neither a job
nor a work-horse, that the maps between jobs, Contents and Users are functions,
that versions and attempts are positive, that the Users and Brand Settings at first do not clash, that an
administrator's request has the columns its schema requires, that NOT NULL columns are columns and
a PATCH gives null to columns it sets, and what is known of a prompt's rendered length. TLC evaluates them in every run.

*Refinement.* A completion is a step of `JobLifecycle` because `Completable` asks
for the transition and for the absence of `Conflicts`; everything else that
writes a status asks `CanTransition` or, in the claim, leaves PROCESSING alone.
No invariant beyond types is needed: the promise is kept by the database's guards
alone, whatever the work-horses believe.

A theorem that is "for" less than all faults says so in an `ASSUME` of its own. The
restriction is needed where a run shows it: `worker_orphan` (an upload whose answer is
lost) for `NothingOrphaned`, `worker_supabase` (no checksums) for `UrlUsable` and
`ImagesIntact`, `submit_settings` for `RepeatedRequest`. For the others the reason is below,
for `AnswersDocumented` after the list of violations. Every inductive invariant was
checked by TLC on the instance of its run before it was proved.

*The promise, read.* `ImagesOfCompleted` is proved from `Promise!Init` and `Promise!Next`
alone: a COMPLETED job has an image and only one, nothing else has any, and the images of a Content
differ in their versions. The worker inherits it through `PromiseKept`. The same
argument would serve another worker that keeps the promise.

*Objects.* That a row's object is there is not inductive: the danger is a delete, or an
overwrite, aimed at the path of a row by a work-horse that believes the object is its own.
`Held` adds three facts:

* `KeysUnique`: storage holds one object per path, so "an object at the path with
  my checksum" means "the object at the path is mine";
* `BytesApart`: no two executions past their claim produce the same bytes, nor the
  bytes of a row - each claim counts `attempt_count` up under the row's lock;
* `HeldIntact`: an execution from its upload (or recovery) to its end finds its own
  bytes at its path.

`Held` needs checksums only, and gives `UrlUsable` at once: at the commit the execution
holds its own bytes. `ImagesIntact` asks for more, that nobody removes them later, which
is `RowsIntact`: the delete of a work-horse hits its own bytes, and these are
nobody's row. After a lost acknowledgement they are somebody's (the worker deletes the
object of the image it just published), so this fault has to be excluded there, and
only there.

*Attempts.* `AttemptsWithinBudget` relates three counters in two stores. `Budget` adds up
what may still become an attempt: for each job, the attempts it has, the work-horses that
took its entry and have not claimed it, one if the entry waits, and the retries RQ has left are never more than
`MaxAttempts`. Every step of RQ keeps or lowers the sum (`Grants`), a claim moves one
from the second to the first, and only RQ's runner of an entry may reschedule it
(`RunnerStarted`), so an execution that RQ has given up grants nothing twice.

*Versions.* A completion collides if its version is not new when the row is
inserted. `NumbersAhead` says that an execution which may still complete its job holds the lock of
its Content and a version above every image of it. One case escapes: an execution that
reads a reservation an earlier attempt committed has a version somebody else may have.
`SettledColumns` closes it, since a reservation is committed together with a terminal
status only, so that such an execution can complete nothing. That
two work-horses never hold one lock is `LocksHeld`.

*Leftovers.* `PendingServed`: a PENDING job that is not deleted has its entry waiting, or a work-horse
about to claim it. A crash, or a database error, before the claim commits breaks it in the last
attempt (and so would RQ's timeout there), and the sweep does not look for PENDING jobs;
hence the assumption. That a
PROCESSING leftover is unlocked is `LocksHeld` again.

*Orphans.* `Accounted`: an object belongs to a row, or to an execution that uploaded it
(`fresh`), has not ended, and will delete it if it fails. A failed upload may have stored the object
all the same and a failed delete keeps it; an execution that dies deletes nothing. These
are the assumption. Checksums are not needed: an object that another execution adopts
stays with the one that uploaded it, until a row names it.

*Submission.* `Safe` strengthens the three properties with what the code relies
on silently: a key belongs to one transaction at a time, committed or in flight
behind the unique index (`KeysApart`), and only a request that is done has
committed a job, with a resolved style, while only a committed job is executed
(`CommitsLast`).

`History` is about the past: the style a request has resolved is what its settings gave (`StylesKept`),
and one that was answered 409 met a committed job of its key with another fingerprint
(`ConflictsExplained`). With `Safe` two equal requests have equal fingerprints, unless a
setting changed or an edit took the fingerprint away. `Found` says that a request whose
INSERT failed finds the job it collided with: the unique index sees more than the
lookup only after a deletion.

*Catalog.* Every step of an endpoint either moves its request on or is its last
and makes one of six changes (`Modifies`: a row is added, a text's two rows are,
a row changes, a Workspace is renamed, opened or closed); one lemma per group of
endpoints shows it (`NextSteps`). The invariants and the refinement then look at these
six only. `IInv` strengthens the properties with what they rely on: a request that
is not done has written nothing and the id of its row is free (`Unwritten`); rows are in
Workspaces that were created (`Housed`), so that opening one shows nothing that was
there before; a text is stored only after access was found (`Admitted`). The
refinement needs `MembersOnlyOfLive`: with it the two kinds of scope, with and
without a look at the Workspace, show the same rows.

The rows that are there at first satisfy `RowsAssumption`: they are in Workspaces that
have members, their references hold, and a Brand has one row of Brand Settings at most
(the unique constraint of `brand_id`). Every step keeps the three.

`AcceptedUpdateKept` compares a row with answers given before and after it was written.
`UpdatesKept` says that an accepted update found its row and set its columns, or that
another accepted one has set them since; it is kept because every change of a row is by a
request that is answered with 200 in this very step and sets what it asked for, nothing
else (`AmendsTo`), and because an INSERT never replaces a row (`Unwritten`, and `OnePerBrand` for an
upsert, which finds its row by the Brand: a second row would be a row the first
update never reached). `RepeatedDeleteAccepted` is about two requests judged at different
times. `Judged` compares each verdict with the Memberships the model begins with: one that was let
through was entitled to, one that was refused was not, or its Workspace is gone by now. This
is sound because nothing changes a Membership but the creation and the deletion of its
Workspace (`RolesKept`), and a Content stays in its Workspace (`SeedsKept`). The property
speaks of a Content that is there when the requests begin: the id of one that is not
could be named by a request only before it is known to anybody.

*Accounts.* One lemma per action shows that a step (`Step`) writes the registers of its
own request and either nothing else, or at most one User (`UserStep`: a signup begins or
commits, a row is inserted or rewritten), or one row of Settings (`SettingsStep`).
Everything else looks at these alone. `IInv` adds to `TypeOK` and `OneUserPerSubject`
what a row does not say of itself: which request wrote it. `Served` ties `me` to a
committed User of the request's subject, or to its own in flight; `Own` says that the
only User under a request's name is the one it was to add, and where in its life that
is so; `SettingsOwned` that the column of a User's Settings was set by an accepted
PATCH of this very User. Without them the caller of a late statement could be anybody.
`OneUserPerSubject` itself is inductive because a write needs `~Waits` and `~Taken`
together: committed rows and rows in flight are looked at in one step, as the unique
index does. `DeletionIsFinal` follows from it and from `Patched` keeping what was not
loaded to be written; `RolesGrantedByAdmins` from `Profile` having no role.

*GeminiRequests.* Truncation is arithmetic. `SecondRound` is the heart: the second round
measures a draft that has the marker already and leaves one that has it too, and each
character it cuts weighs one at least, so the rendered length shrinks by the overflow at
least; and where nothing or a single character is left, `Room` provides for it. The first
round alone is not enough: the marker comes on top of what it has measured, and blanks at
the end count once the marker follows them. The retries are counting: `Counted` says that the calls so far
are at most the loops that are over times `retries`, and the calls of this one;
`Places` ties where a request is to its counters, which is what makes the last error
that of the last call of the last attempt. Products of variables are kept out of the
solver by three lemmas (`Product`, `Account`, `AccountOfOne`).

Only model-checked: liveness (`EveryJobSettles`, `EveryRequestAnswered`, `Settles`), which
TLAPS does not handle. Every other property of a passing run is a theorem.

## 5. What is abstracted

* Bytes are the digest of their attempt (`<<job, attempt>>`): two attempts never
  get equal bytes. MIME types and image sizes are left out; one extension.
* `Generate` of `ImageWorker` stands for the provider with its inner retries: success, a
  retryable error, or a permanent one; `GeminiRequests` has the loop, and RQ's timeout in it.
* Accounts: a token is the verdict of the verifier and the Principal it names; the checks of
  signature, issuer, audience and claims are the JWT library's. With `AUTH_REQUIRED` off and no
  token the Principal is None and `get_current_user` answers 401 all the same, so these verdicts need no
  action. Login keeps nothing. The INSERTs of Workspace and Membership and the
  commit of a signup are one step: nobody waits for them, and any of them may fail (`FailBootstrap`).
  A commit that takes effect without its acknowledgement is modelled for images and jobs only: in
  Accounts and Catalog an answer and its commit are one step. A signup that is answered with an
  error and is there all the same is therefore outside `SignupWhole`.
* GeminiRequests: jitter is in tenths of the delay and time is only what the loop sleeps. A prompt is
  a length and a width for each prefix. A prompt that is all blanks drops the key from the
  template's JSON and with it a few characters more than `Rendered` says. `Begin` answers
  alike for both reasons an endpoint may have no client.
* A torn write of the local provider, and a database connection that breaks
  during an upload so that locks go while Python continues, are not modelled.
* PUT /generations/{id} may overwrite the reserved version; only the loss of the
  fingerprint is modelled (`UpdateGeneration`).
* Catalog: filters, pages and the order of lists; `created_by_user_id` and the deletion of
  Users; the path of an Asset (it may be taken or not, `PathTaken`). An upsert finds
  its row by the Brand alone, and so does the model. The INSERTs of a text and the
  commit are one step, as nobody sees the rows before; it happens whole, or fails with a 500 and
  leaves nothing, which `CreateTextGeneration` has and `RefusedWritesNothing` looks at.
* Time is `stale`: the started_at of a claim is past the threshold or not. Without
  the fault "late" it grows stale only when no execution is past its claim, since
  the threshold (900 s) is three times RQ's timeout (300 s).
* `claim_next_pending` and `next_image_version` have no caller in the program.

## 6. Plan

Done: `JobLifecycle`, `ImageWorker` with its refinement and proofs,
`ImageSubmission` with its proofs, `CatalogView` and `Catalog` with its refinement and
proofs, `Accounts` and `GeminiRequests` with their proofs.

Next, in this order:

1. `ImagePipeline`: submission and worker composed over one job table, with the
   overwriting of generation parameters and the deletion of a Workspace.
2. The refresh of a signed URL on reads, and the order of checks of a token, as decisions.
3. Proofs about `ImagePipeline` as it grows: that an accepted job is the one the worker
   executes, under the key and style of its request.
