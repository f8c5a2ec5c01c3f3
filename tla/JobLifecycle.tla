------------------------------ MODULE JobLifecycle ------------------------------
(***************************************************************************)
(* What a Generation Job promises to whoever reads it through the API: a   *)
(* status that moves only along ALLOWED_TRANSITIONS, a terminal status     *)
(* that never changes again, and an image that is published exactly when   *)
(* the job completes, under a version no other image of its content has.   *)
(* Workers, locks, queues and object storage do not appear here.           *)
(***************************************************************************)
CONSTANTS Job,        \* the Generation Jobs
          Content,    \* the Contents they make images of
          ContentOf,  \* the Content of each job
          Version     \* the version numbers an image may carry

VARIABLES status,     \* generation_jobs.status
          published   \* the <<job, version>> pairs of table images

vars == <<status, published>>

Status == {"PENDING", "PROCESSING", "COMPLETED", "FAILED"}

AllowedTransitions ==
    [s \in Status |-> CASE s = "PENDING"    -> {"PROCESSING", "FAILED"}
                        [] s = "PROCESSING" -> {"COMPLETED", "FAILED"}
                        [] OTHER            -> {}]

CanTransition(current, target) == target \in AllowedTransitions[current]

Terminal == {s \in Status : AllowedTransitions[s] = {}}

Taken(c) == {p[2] : p \in {q \in published : ContentOf[q[1]] = c}}

Init == /\ status = [j \in Job |-> "PENDING"]
        /\ published = {}

Start(j) == /\ CanTransition(status[j], "PROCESSING")
            /\ status' = [status EXCEPT ![j] = "PROCESSING"]
            /\ UNCHANGED published

Complete(j, v) == /\ CanTransition(status[j], "COMPLETED")
                  /\ v \notin Taken(ContentOf[j])
                  /\ status' = [status EXCEPT ![j] = "COMPLETED"]
                  /\ published' = published \union {<<j, v>>}

\* The stale sweep fails every job it finds in one transaction.
Fail(S) == /\ \A j \in S : CanTransition(status[j], "FAILED")
           /\ status' = [j \in Job |-> IF j \in S THEN "FAILED" ELSE status[j]]
           /\ UNCHANGED published

Next == \/ \E j \in Job : Start(j)
        \/ \E j \in Job : \E v \in Version : Complete(j, v)
        \/ \E S \in SUBSET Job : Fail(S)

Spec == Init /\ [][Next]_vars
=================================================================================
