----------------------------- MODULE ImageSubmission -----------------------------
(***************************************************************************)
(* POST /images/generate and POST /images/{id}/regenerate: requests with   *)
(* an Idempotency-Key, served concurrently, create at most one Generation  *)
(* Job per key, put it into the RQ queue and commit.  The job is enqueued  *)
(* before it is committed, so a worker may look for it too early.          *)
(*                                                                         *)
(* One step is one statement of the request's transaction (READ COMMITTED) *)
(* or one call of the queue.  A job is named by the request that creates   *)
(* it.  What ImageWorker does in many steps is here a claim and its        *)
(* outcome.                                                                *)
(***************************************************************************)
EXTENDS Integers

CONSTANTS Request,    \* executions of the two endpoints, of one User
          Key,        \* Idempotency-Key header values
          Content,    \* Contents, the targets of generate
          Image,      \* Images, the targets of regenerate
          ContentOf,  \* the Content of each Image
          StyleOf,    \* the style in each Image's metadata, or None
          Style,      \* image styles
          None,       \* no style, no job
          Faults      \* the failures and edits that may happen

FaultKinds ==
    {"queue",        \* enqueue fails
     "queue_lost",   \* enqueue takes effect, its caller sees an error
     "commit",       \* the commit fails and rolls back
     "commit_lost",  \* the commit takes effect, its caller sees an error
     "error",        \* a database error, or the API process dies
     "settings",     \* the User changes settings.visual_style
     "edit",         \* PUT /generations/{id} replaces the parameters
     "soft_delete"}  \* a Generation or a Content is soft-deleted

ASSUME NoneAssumption == None \notin Request \union Style
ASSUME ImageAssumption == ContentOf \in [Image -> Content] /\ StyleOf \in [Image -> Style \union {None}]
ASSUME TargetAssumption == Content \intersect Image = {}
ASSUME StyleAssumption == Style # {}
ASSUME FaultsAssumption == Faults \subseteq FaultKinds

VARIABLES pc,           \* where each request is
          ask,          \* what it asks for
          style,        \* resolved_style
          answer,       \* its response: a status code and the job it names
          status,       \* generation_jobs.status of the job it committed
          entry,        \* the RQ entry of the job it enqueued
          deleted,      \* soft-deleted Generations (by their job) and Contents
          edited,       \* jobs whose parameters lost the fingerprint
          visualStyle   \* settings.visual_style

request == <<pc, ask, style, answer>>
edits   == <<deleted, edited, visualStyle>>
vars    == <<request, status, entry, edits>>

Ask == [kind: {"generate"}, key: Key, target: Content, style: Style \union {None}]
         \union [kind: {"regenerate"}, key: Key, target: Image, style: Style \union {None}]

NoAnswer == [code |-> 0, job |-> None]

\* image_generation_external_id and image_regeneration_external_id.
ExternalId(r) == <<ask[r].kind, ask[r].key>>

\* image_generation_request_fingerprint and image_regeneration_request_fingerprint.
Fingerprint(r) == <<ask[r].target, style[r]>>

TargetContent(r) ==
    IF ask[r].kind = "generate" THEN ask[r].target ELSE ContentOf[ask[r].target]

\* The first style that is not None: of the request, of the image, of the settings.
KeptStyle(r) == IF ask[r].kind = "regenerate" THEN StyleOf[ask[r].target] ELSE None

StyleWithoutDefault(r) == IF ask[r].style # None THEN ask[r].style ELSE KeptStyle(r)
SettingsFirst(r) == visualStyle
ResolvedStyle(r) ==
    CASE ask[r].style # None -> ask[r].style
      [] ask[r].style = None /\ KeptStyle(r) # None -> KeptStyle(r)
      [] OTHER -> visualStyle

Committed == {r \in Request : status[r] # "absent"}
InFlight == {r \in Request : pc[r] \in {"enqueue", "commit"}}

Init == /\ pc = [r \in Request |-> "idle"]
        /\ ask \in [Request -> Ask]
        /\ style = [r \in Request |-> None]
        /\ answer = [r \in Request |-> NoAnswer]
        /\ status = [r \in Request |-> "absent"]
        /\ entry = [r \in Request |-> "absent"]
        /\ deleted = {}
        /\ edited = {}
        /\ visualStyle \in Style
-----------------------------------------------------------------------------
(* The steps of submit_image_generation and submit_image_regeneration. *)

Goto(r, where) ==
    /\ pc' = [pc EXCEPT ![r] = where]
    /\ UNCHANGED answer

\* A response, after which whatever was not committed is rolled back.
Reply(r, code, job) ==
    /\ pc' = [pc EXCEPT ![r] = "done"]
    /\ answer' = [answer EXCEPT ![r] = [code |-> code, job |-> job]]

Arrive(r) ==
    /\ pc[r] = "idle"
    /\ Goto(r, IF ask[r].kind = "generate" THEN "settings" ELSE "image")
    /\ UNCHANGED <<ask, style, status, entry, edits>>

\* get_image_for_user sees no image of a deleted Content.
GetImageForUser(r) ==
    /\ pc[r] = "image"
    /\ IF TargetContent(r) \in deleted THEN Reply(r, 404, None) ELSE Goto(r, "settings")
    /\ UNCHANGED <<ask, style, status, entry, edits>>

ReadSettings(r) ==
    /\ pc[r] = "settings"
    /\ style' = [style EXCEPT ![r] = ResolvedStyle(r)]
    /\ Goto(r, "lookup")
    /\ UNCHANGED <<ask, status, entry, edits>>

\* get_status_by_external_id_for_user.
Existing(r) == {q \in Committed \ deleted : ExternalId(q) = ExternalId(r)}

\* _raise_for_idempotency_mismatch, or the status of the existing job.
AnyMatch(r, q) == q \notin edited
Matches(r, q) == q \notin edited /\ Fingerprint(q) = Fingerprint(r)

AnswerExisting(r, q) ==
    IF Matches(r, q) THEN Reply(r, 202, q) ELSE Reply(r, 409, None)

LookUp(r) ==
    /\ pc[r] = "lookup"
    /\ IF Existing(r) = {} THEN Goto(r, "content")
                           ELSE \E q \in Existing(r) : AnswerExisting(r, q)
    /\ UNCHANGED <<ask, style, status, entry, edits>>

\* contents.get_by_id_for_user of generate and the check of create_image_generation.
FindContent(r) ==
    /\ pc[r] = "content"
    /\ IF TargetContent(r) \in deleted THEN Reply(r, 404, None) ELSE Goto(r, "insert")
    /\ UNCHANGED <<ask, style, status, entry, edits>>

\* The unique index of generation_jobs.external_id: an INSERT waits for the
\* transaction that holds the key, and fails if the key is committed.
WaitsForCommitted(r) == {q \in InFlight \union Committed : ExternalId(q) = ExternalId(r)}
Waits(r) == {q \in InFlight : ExternalId(q) = ExternalId(r)}
TakenUnlessDeleted(r) == Existing(r) # {}
Taken(r) == \E q \in Committed : ExternalId(q) = ExternalId(r)

CreateImageGeneration(r) ==
    /\ pc[r] = "insert"
    /\ Waits(r) = {}
    /\ Goto(r, IF Taken(r) THEN "conflict" ELSE "enqueue")
    /\ UNCHANGED <<ask, style, status, entry, edits>>

\* except ConflictError: without an existing job it is raised again.
LookUpAgain(r) ==
    /\ pc[r] = "conflict"
    /\ IF Existing(r) = {} THEN Reply(r, 500, None)
                           ELSE \E q \in Existing(r) : AnswerExisting(r, q)
    /\ UNCHANGED <<ask, style, status, entry, edits>>

EnqueueAfterCommit(r) ==
    /\ pc[r] = "enqueue"
    /\ status' = [status EXCEPT ![r] = "PENDING"]
    /\ \/ Goto(r, "commit") /\ entry' = [entry EXCEPT ![r] = "queued"]
       \/ "queue" \in Faults /\ Reply(r, 503, None) /\ UNCHANGED entry
    /\ UNCHANGED <<ask, style, edits>>

EnqueueImageGeneration(r) ==
    /\ pc[r] = "enqueue"
    /\ \/ /\ entry' = [entry EXCEPT ![r] = "queued"]
          /\ \/ Goto(r, "commit")
             \/ "queue_lost" \in Faults /\ Reply(r, 503, None)
       \/ /\ "queue" \in Faults
          /\ Reply(r, 503, None)
          /\ UNCHANGED entry
    /\ UNCHANGED <<ask, style, status, edits>>

Commit(r) ==
    /\ pc[r] = "commit"
    /\ \/ /\ status' = [status EXCEPT ![r] = "PENDING"]
          /\ \/ Reply(r, 202, r)
             \/ "commit_lost" \in Faults /\ Reply(r, 500, None)
       \/ /\ "commit" \in Faults
          /\ Reply(r, 500, None)
          /\ UNCHANGED status
    /\ UNCHANGED <<ask, style, entry, edits>>

Fail(r) ==
    /\ "error" \in Faults
    /\ pc[r] \notin {"idle", "done"}
    /\ Reply(r, 500, None)
    /\ UNCHANGED <<ask, style, status, entry, edits>>
-----------------------------------------------------------------------------
(* The worker, and what users do meanwhile. *)

\* claim_pending_by_id: what it does not find is done with.
Claim(r) ==
    /\ entry[r] = "queued"
    /\ IF status[r] = "PENDING" /\ r \notin deleted
       THEN /\ status' = [status EXCEPT ![r] = "PROCESSING"]
            /\ entry' = [entry EXCEPT ![r] = "started"]
       ELSE /\ entry' = [entry EXCEPT ![r] = "finished"]
            /\ UNCHANGED status
    /\ UNCHANGED <<request, edits>>

Settle(r) ==
    /\ entry[r] = "started"
    /\ \E outcome \in {"COMPLETED", "FAILED"} : status' = [status EXCEPT ![r] = outcome]
    /\ entry' = [entry EXCEPT ![r] = "finished"]
    /\ UNCHANGED <<request, edits>>

UpdateSettings(s) ==
    /\ "settings" \in Faults
    /\ visualStyle' = s
    /\ UNCHANGED <<request, status, entry, deleted, edited>>

UpdateGeneration(r) ==
    /\ "edit" \in Faults
    /\ r \in Committed \ deleted
    /\ edited' = edited \union {r}
    /\ UNCHANGED <<request, status, entry, deleted, visualStyle>>

SoftDelete(x) ==
    /\ "soft_delete" \in Faults
    /\ x \in Request => x \in Committed
    /\ deleted' = deleted \union {x}
    /\ UNCHANGED <<request, status, entry, edited, visualStyle>>
-----------------------------------------------------------------------------
Serve(r) == \/ GetImageForUser(r) \/ ReadSettings(r) \/ LookUp(r) \/ FindContent(r)
            \/ CreateImageGeneration(r) \/ LookUpAgain(r)
            \/ EnqueueImageGeneration(r) \/ Commit(r)

Work(r) == Claim(r) \/ Settle(r)

Next == \/ \E r \in Request : Arrive(r) \/ Serve(r) \/ Fail(r) \/ Work(r) \/ UpdateGeneration(r)
        \/ \E s \in Style : UpdateSettings(s)
        \/ \E x \in Request \union Content : SoftDelete(x)

Spec == Init /\ [][Next]_vars

\* A request that arrived is served, and a worker serves the queue.
FairSpec == Spec /\ \A r \in Request : WF_vars(Serve(r)) /\ WF_vars(Work(r))
-----------------------------------------------------------------------------
TypeOK ==
    /\ pc \in [Request -> {"idle", "image", "settings", "lookup", "content", "insert",
                           "conflict", "enqueue", "commit", "done"}]
    /\ ask \in [Request -> Ask]
    /\ style \in [Request -> Style \union {None}]
    /\ \A r \in Request :
           pc[r] \in {"lookup", "content", "insert", "conflict", "enqueue", "commit"}
               => style[r] \in Style
    /\ answer \in [Request -> [code: {0, 202, 404, 409, 500, 503}, job: Request \union {None}]]
    /\ status \in [Request -> {"absent", "PENDING", "PROCESSING", "COMPLETED", "FAILED"}]
    /\ entry \in [Request -> {"absent", "queued", "started", "finished"}]
    /\ deleted \subseteq Request \union Content
    /\ edited \subseteq Request
    /\ visualStyle \in Style

\* However many requests share an Idempotency-Key, one job is committed for it.
OneJobPerKey == \A q, r \in Committed : ExternalId(q) = ExternalId(r) => q = r

\* A 202 names a committed job, created for the very key, target and style of
\* the request it answers, whichever request created it.
AcceptedJobMatches ==
    \A r \in Request : answer[r].code = 202 =>
        \E q \in Committed : /\ answer[r].job = q
                             /\ ExternalId(q) = ExternalId(r)
                             /\ Fingerprint(q) = Fingerprint(r)

\* A request that is refused, or whose job could not be queued, leaves no job.
RefusedLeavesNothing ==
    \A r \in Request : answer[r].code \in {404, 409, 503} =>
        r \notin Committed /\ entry[r] # "started"

\* A request that repeats an accepted one word for word is never told that its
\* key belongs to a different request.
SameRequestNeverConflicts ==
    \A q, r \in Request : ask[q] = ask[r] /\ answer[q].code = 202 => answer[r].code # 409

\* In particular not if it names its style, and nobody edited the job meanwhile.
RepeatedStyleNeverConflicts ==
    \A q, r \in Request :
        ask[q] = ask[r] /\ ask[q].style # None /\ answer[q].code = 202
            => answer[r].code # 409 \/ answer[q].job \in edited

\* While the database works, a request gets one of the documented responses.
DocumentedAnswer == \A r \in Request : answer[r].code \in {0, 202, 404, 409, 503}

\* No request waits forever, although INSERTs wait for each other's keys.
EveryRequestAnswered == \A r \in Request : pc[r] # "idle" ~> pc[r] = "done"

\* A job that a request was told is accepted is executed to its end.
AcceptedJobSettles ==
    \A r \in Request : answer[r].job = r ~> status[r] \in {"COMPLETED", "FAILED"}
=================================================================================
