-------------------------- MODULE ImageSubmissionProofs --------------------------
(***************************************************************************)
(* What holds of the submission of image jobs for any number of concurrent *)
(* requests, keys, targets and styles: its types, that one job is          *)
(* committed per Idempotency-Key, that an accepted request is told of the  *)
(* job it asked for, and that a refused one leaves none.                   *)
(***************************************************************************)
EXTENDS ImageSubmission, TLAPS

Resolved == {"lookup", "content", "insert", "conflict", "enqueue", "commit"}

\* Only a request that is done has committed a job, and only a committed job
\* is executed.
CommitsLast ==
    \A r \in Request : /\ r \in Committed => pc[r] = "done" /\ style[r] \in Style
                       /\ entry[r] = "started" => r \in Committed
                       /\ pc[r] # "done" => answer[r] = NoAnswer

\* A key belongs to one transaction: committed, or in flight behind the index.
KeysApart ==
    \A q, r \in Committed \union InFlight : ExternalId(q) = ExternalId(r) => q = r

Safe == TypeOK /\ CommitsLast /\ KeysApart /\ AcceptedJobMatches /\ RefusedLeavesNothing

LEMMA InitSafe == Init => Safe
  BY DEF Init, Safe, TypeOK, CommitsLast, KeysApart, AcceptedJobMatches, RefusedLeavesNothing,
     Committed, InFlight, NoAnswer

LEMMA StyleType ==
  ASSUME TypeOK, NEW r \in Request
  PROVE  ResolvedStyle(r) \in Style
<1>1. ask[r].style \in Style \union {None}
  BY DEF TypeOK, Ask
<1>2. KeptStyle(r) \in Style \union {None}
  BY ImageAssumption DEF KeptStyle, TypeOK, Ask
<1>3. visualStyle \in Style
  BY DEF TypeOK
<1>. QED  BY <1>1, <1>2, <1>3 DEF ResolvedStyle

\* A step that moves a request on, towards the insert, or away from the key.
LEMMA GotoSafe ==
  ASSUME Safe, NEW r \in Request, pc[r] # "done",
         NEW where \in {"image", "settings", "lookup", "content", "insert", "conflict"},
         where \in Resolved => style[r] \in Style,
         Goto(r, where), UNCHANGED <<ask, style, status, entry, edits>>
  PROVE  Safe'
<1>1. TypeOK'
  BY DEF Goto, Safe, TypeOK, Resolved, edits
<1>2. Committed' = Committed /\ InFlight' \subseteq InFlight /\ r \notin Committed
  BY DEF Goto, Safe, TypeOK, Committed, InFlight, CommitsLast
<1>3. CommitsLast'
  BY <1>2 DEF Goto, Safe, TypeOK, CommitsLast, NoAnswer
<1>4. KeysApart'
  BY <1>2 DEF Safe, KeysApart, ExternalId
<1>5. AcceptedJobMatches'
  BY <1>2 DEF Goto, Safe, AcceptedJobMatches, ExternalId, Fingerprint
<1>6. RefusedLeavesNothing'
  BY <1>2 DEF Goto, Safe, RefusedLeavesNothing
<1>. QED  BY <1>1, <1>3, <1>4, <1>5, <1>6 DEF Safe

\* A reply that commits nothing: a refusal, an error, or the job of another.
LEMMA ReplySafe ==
  ASSUME Safe, NEW r \in Request, pc[r] # "done",
         NEW code \in {202, 404, 409, 500, 503}, NEW job \in Request \union {None},
         code = 202 => /\ job \in Committed
                       /\ ExternalId(job) = ExternalId(r)
                       /\ Fingerprint(job) = Fingerprint(r),
         Reply(r, code, job), UNCHANGED <<ask, style, status, edits>>,
         entry' \in [Request -> {"absent", "queued", "started", "finished"}],
         \A q \in Request : entry'[q] = "started" => entry[q] = "started"
  PROVE  Safe'
<1>1. TypeOK'
  <2>1. answer' \in [Request -> [code: {0, 202, 404, 409, 500, 503},
                                 job: Request \union {None}]]
    <3>1. [code |-> code, job |-> job] \in [code: {0, 202, 404, 409, 500, 503},
                                            job: Request \union {None}]
      OBVIOUS
    <3>. QED  BY <3>1 DEF Reply, Safe, TypeOK
  <2>2. /\ pc' \in [Request -> {"idle", "image", "settings", "lookup", "content", "insert",
                                 "conflict", "enqueue", "commit", "done"}]
        /\ \A q \in Request : pc'[q] \in Resolved => style[q] \in Style
    BY DEF Reply, Safe, TypeOK, Resolved
  <2>. QED  BY <2>1, <2>2 DEF Safe, TypeOK, edits, Resolved
<1>2. Committed' = Committed /\ InFlight' \subseteq InFlight /\ r \notin Committed
  BY DEF Reply, Safe, TypeOK, Committed, InFlight, CommitsLast
<1>3. CommitsLast'
  BY <1>2 DEF Reply, Safe, TypeOK, CommitsLast
<1>4. KeysApart'
  BY <1>2 DEF Safe, KeysApart, ExternalId
<1>5. AcceptedJobMatches'
  BY <1>2 DEF Reply, Safe, TypeOK, AcceptedJobMatches, ExternalId, Fingerprint
<1>6. RefusedLeavesNothing'
  BY <1>2 DEF Reply, Safe, TypeOK, CommitsLast, RefusedLeavesNothing
<1>. QED  BY <1>1, <1>3, <1>4, <1>5, <1>6 DEF Safe

LEMMA AnswerExistingSafe ==
  ASSUME Safe, NEW r \in Request, pc[r] # "done", NEW q \in Existing(r),
         AnswerExisting(r, q), UNCHANGED <<ask, style, status, entry, edits>>
  PROVE  Safe'
<1>1. q \in Committed /\ q \in Request /\ ExternalId(q) = ExternalId(r)
  BY DEF Existing, Committed
<1>2. entry \in [Request -> {"absent", "queued", "started", "finished"}]
  BY DEF Safe, TypeOK
<1>3. CASE Matches(r, q)
  BY <1>1, <1>2, <1>3, ReplySafe DEF AnswerExisting, Matches
<1>4. CASE ~Matches(r, q)
  BY <1>2, <1>4, ReplySafe DEF AnswerExisting
<1>. QED  BY <1>3, <1>4

\* The insert takes a key that nobody holds.
LEMMA CreateSafe ==
  ASSUME Safe, NEW r \in Request, CreateImageGeneration(r)
  PROVE  Safe'
<1>1. pc[r] = "insert" /\ style[r] \in Style
  BY DEF CreateImageGeneration, Safe, TypeOK
<1>2. CASE Taken(r)
  BY <1>1, <1>2, GotoSafe DEF CreateImageGeneration
<1>3. CASE ~Taken(r)
  <2>1. Goto(r, "enqueue") /\ UNCHANGED <<ask, style, status, entry, edits>>
    BY <1>3 DEF CreateImageGeneration
  <2>2. \A q \in Committed \union InFlight : ExternalId(q) # ExternalId(r)
    BY <1>3 DEF CreateImageGeneration, Taken, Waits
  <2>3. Committed' = Committed /\ InFlight' = InFlight \union {r} /\ r \notin Committed
    BY <1>1, <2>1 DEF Goto, Safe, TypeOK, Committed, InFlight, CommitsLast
  <2>4. TypeOK'
    BY <1>1, <2>1 DEF Goto, Safe, TypeOK, edits
  <2>5. CommitsLast'
    BY <1>1, <2>1, <2>3 DEF Goto, Safe, TypeOK, CommitsLast, NoAnswer
  <2>6. KeysApart'
    BY <2>1, <2>2, <2>3 DEF Safe, KeysApart, ExternalId
  <2>7. AcceptedJobMatches'
    BY <2>1, <2>3 DEF Goto, Safe, AcceptedJobMatches, ExternalId, Fingerprint
  <2>8. RefusedLeavesNothing'
    BY <2>1, <2>3 DEF Goto, Safe, RefusedLeavesNothing
  <2>. QED  BY <2>4, <2>5, <2>6, <2>7, <2>8 DEF Safe
<1>. QED  BY <1>2, <1>3

LEMMA EnqueueSafe ==
  ASSUME Safe, NEW r \in Request, EnqueueImageGeneration(r)
  PROVE  Safe'
<1>1. /\ pc[r] = "enqueue" /\ style[r] \in Style /\ UNCHANGED <<ask, style, status, edits>>
      /\ entry \in [Request -> {"absent", "queued", "started", "finished"}]
  BY DEF EnqueueImageGeneration, Safe, TypeOK
<1>2. /\ entry' \in [Request -> {"absent", "queued", "started", "finished"}]
      /\ \A q \in Request : entry'[q] = "started" => entry[q] = "started"
  BY <1>1 DEF EnqueueImageGeneration
<1>3. CASE Reply(r, 503, None)
  BY <1>1, <1>2, <1>3, ReplySafe
<1>4. CASE Goto(r, "commit")
  <2>1. Committed' = Committed /\ InFlight' = InFlight /\ r \notin Committed
    BY <1>1, <1>4 DEF Goto, Safe, TypeOK, Committed, InFlight, CommitsLast
  <2>2. TypeOK'
    BY <1>1, <1>2, <1>4 DEF Goto, Safe, TypeOK, edits
  <2>3. CommitsLast'
    BY <1>1, <1>2, <1>4, <2>1 DEF Goto, Safe, TypeOK, CommitsLast, NoAnswer
  <2>4. KeysApart'
    BY <1>1, <2>1 DEF Safe, KeysApart, ExternalId
  <2>5. AcceptedJobMatches'
    BY <1>1, <1>4, <2>1 DEF Goto, Safe, AcceptedJobMatches, ExternalId, Fingerprint
  <2>6. RefusedLeavesNothing'
    BY <1>2, <1>4, <2>1 DEF Goto, Safe, RefusedLeavesNothing
  <2>. QED  BY <2>2, <2>3, <2>4, <2>5, <2>6 DEF Safe
<1>. QED  BY <1>3, <1>4 DEF EnqueueImageGeneration

LEMMA CommitSafe ==
  ASSUME Safe, NEW r \in Request, Commit(r)
  PROVE  Safe'
<1>1. /\ pc[r] = "commit" /\ style[r] \in Style /\ UNCHANGED <<ask, style, entry, edits>>
      /\ entry \in [Request -> {"absent", "queued", "started", "finished"}]
      /\ pc' = [pc EXCEPT ![r] = "done"]
  BY DEF Commit, Reply, Safe, TypeOK
<1>2. CASE UNCHANGED status
  <2>1. CASE Reply(r, 500, None)
    BY <1>1, <1>2, <2>1, ReplySafe
  <2>2. CASE status' = [status EXCEPT ![r] = "PENDING"]
    <3>1. status[r] = "absent" /\ status'[r] = "PENDING"
      BY <1>1, <2>2 DEF Safe, TypeOK, CommitsLast, Committed
    <3>. QED  BY <1>2, <3>1
  <2>. QED  BY <2>1, <2>2 DEF Commit
<1>3. CASE status' = [status EXCEPT ![r] = "PENDING"]
  <2>1. PICK code \in {202, 500}, job \in {r, None} :
           Reply(r, code, job) /\ (code = 202 => job = r)
    <3>1. CASE Reply(r, 202, r)
      BY <3>1
    <3>2. CASE Reply(r, 500, None)
      BY <3>2
    <3>. QED  BY <3>1, <3>2 DEF Commit
  <2>2. Committed' = Committed \union {r} /\ InFlight' = InFlight \ {r} /\ r \in InFlight
    BY <1>1, <1>3 DEF Safe, TypeOK, Committed, InFlight
  <2>3. TypeOK'
    BY <1>1, <1>3, <2>1 DEF Reply, Safe, TypeOK, edits
  <2>4. CommitsLast'
    BY <1>1, <2>1, <2>2 DEF Reply, Safe, TypeOK, CommitsLast
  <2>5. KeysApart'
    BY <1>1, <2>2 DEF Safe, KeysApart, ExternalId
  <2>6. AcceptedJobMatches'
    BY <1>1, <2>1, <2>2 DEF Reply, Safe, TypeOK, AcceptedJobMatches, ExternalId, Fingerprint
  <2>7. RefusedLeavesNothing'
    BY <1>1, <2>1, <2>2 DEF Reply, Safe, TypeOK, CommitsLast, NoAnswer, RefusedLeavesNothing
  <2>. QED  BY <2>3, <2>4, <2>5, <2>6, <2>7 DEF Safe
<1>. QED  BY <1>2, <1>3 DEF Commit

\* What is left to the worker and to other endpoints commits nothing.
LEMMA WorkSafe ==
  ASSUME Safe, UNCHANGED request, Committed' = Committed, TypeOK',
         \A r \in Request : entry'[r] = "started" => r \in Committed
  PROVE  Safe'
<1>1. InFlight' = InFlight
  BY DEF request, InFlight
<1>2. CommitsLast'
  BY DEF Safe, CommitsLast, request, NoAnswer
<1>3. KeysApart'
  BY <1>1 DEF Safe, KeysApart, ExternalId, request
<1>4. AcceptedJobMatches' /\ RefusedLeavesNothing'
  BY DEF Safe, AcceptedJobMatches, RefusedLeavesNothing, ExternalId, Fingerprint, request
<1>. QED  BY <1>2, <1>3, <1>4 DEF Safe

LEMMA NextSafe == Safe /\ [Next]_vars => Safe'
<1>. SUFFICES ASSUME Safe, [Next]_vars PROVE Safe'
  OBVIOUS
<1>1. /\ entry \in [Request -> {"absent", "queued", "started", "finished"}]
      /\ \A r \in Request : pc[r] \in Resolved => style[r] \in Style
  BY DEF Safe, TypeOK, Resolved
<1>2. ASSUME NEW r \in Request, Arrive(r) PROVE Safe'
  BY <1>2, GotoSafe DEF Arrive, Resolved
<1>3. ASSUME NEW r \in Request, Serve(r) PROVE Safe'
  <2>1. CASE GetImageForUser(r)
    BY <1>1, <2>1, GotoSafe, ReplySafe DEF GetImageForUser, Resolved
  <2>2. CASE ReadSettings(r)
    <3>1. pc[r] = "settings" /\ Goto(r, "lookup") /\ UNCHANGED <<ask, status, entry, edits>>
          /\ style' = [style EXCEPT ![r] = ResolvedStyle(r)] /\ r \notin Committed
      BY <2>2 DEF ReadSettings, Safe, CommitsLast
    <3>2. Committed' = Committed /\ InFlight' = InFlight
      BY <3>1 DEF Goto, Safe, TypeOK, Committed, InFlight
    <3>3. TypeOK'
      BY <3>1, StyleType DEF Goto, Safe, TypeOK, edits
    <3>4. CommitsLast'
      BY <3>1, <3>2 DEF Goto, Safe, TypeOK, CommitsLast, NoAnswer
    <3>5. KeysApart'
      BY <3>1, <3>2 DEF Safe, KeysApart, ExternalId
    <3>6. AcceptedJobMatches'
      <4>1. \A q \in Request : answer[q].code = 202 => q # r
        BY <3>1 DEF Safe, CommitsLast, NoAnswer
      <4>2. \A q \in Request \ {r} : style'[q] = style[q]
        BY <3>1 DEF Safe, TypeOK
      <4>. QED  BY <3>1, <3>2, <4>1, <4>2
                DEF Goto, Safe, AcceptedJobMatches, ExternalId, Fingerprint, Committed
    <3>7. RefusedLeavesNothing'
      BY <3>1, <3>2 DEF Goto, Safe, RefusedLeavesNothing
    <3>. QED  BY <3>3, <3>4, <3>5, <3>6, <3>7 DEF Safe
  <2>3. CASE LookUp(r)
    BY <1>1, <2>3, GotoSafe, AnswerExistingSafe DEF LookUp, Resolved
  <2>4. CASE FindContent(r)
    BY <1>1, <2>4, GotoSafe, ReplySafe DEF FindContent, Resolved
  <2>5. CASE LookUpAgain(r)
    BY <1>1, <2>5, ReplySafe, AnswerExistingSafe DEF LookUpAgain
  <2>. QED  BY <1>3, <2>1, <2>2, <2>3, <2>4, <2>5, CreateSafe, EnqueueSafe, CommitSafe DEF Serve
<1>4. ASSUME NEW r \in Request, Fail(r) PROVE Safe'
  BY <1>1, <1>4, ReplySafe DEF Fail
<1>5. ASSUME NEW r \in Request, Work(r) PROVE Safe'
  <2>1. TypeOK'
    BY <1>5 DEF Work, Claim, Settle, Safe, TypeOK, request, edits
  <2>2. Committed' = Committed
    BY <1>5 DEF Work, Claim, Settle, Safe, TypeOK, CommitsLast, Committed
  <2>3. \A q \in Request : entry'[q] = "started" => q \in Committed
    BY <1>5 DEF Work, Claim, Settle, Safe, TypeOK, CommitsLast, Committed
  <2>. QED  BY <1>5, <2>1, <2>2, <2>3, WorkSafe DEF Work, Claim, Settle
<1>6. CASE \/ \E r \in Request : UpdateGeneration(r)
           \/ \E s \in Style : UpdateSettings(s)
           \/ \E x \in Request \union Content : SoftDelete(x)
           \/ UNCHANGED vars
  <2>1. TypeOK'
    BY <1>6 DEF UpdateGeneration, UpdateSettings, SoftDelete, vars, Safe, TypeOK, request, edits
  <2>2. UNCHANGED <<request, status, entry>>
    BY <1>6 DEF UpdateGeneration, UpdateSettings, SoftDelete, vars
  <2>. QED  BY <2>1, <2>2, WorkSafe DEF Safe, CommitsLast, Committed
<1>. QED  BY <1>2, <1>3, <1>4, <1>5, <1>6 DEF Next

\* The invariant that the theorems below rest on.
LEMMA SafeAlways == Spec => []Safe
  BY InitSafe, NextSafe, PTL DEF Spec

\* The variables of the submission keep their types, and the style of a request
\* is known from the lookup on, also for a User without settings of her own.
THEOREM SubmissionTypeCorrect == Spec => []TypeOK
<1>1. Safe => TypeOK
  BY DEF Safe
<1>. QED  BY <1>1, SafeAlways, PTL

\* However many requests race with one Idempotency-Key, and whatever fails, at
\* most one job is ever committed for it.
THEOREM OneJob == Spec => []OneJobPerKey
<1>1. Safe => OneJobPerKey
  BY DEF Safe, KeysApart, OneJobPerKey
<1>. QED  BY <1>1, SafeAlways, PTL

\* A 202 always names a committed job for the key, target and style of the
\* request it answers.
THEOREM AcceptedMatches == Spec => []AcceptedJobMatches
<1>1. Safe => AcceptedJobMatches
  BY DEF Safe
<1>. QED  BY <1>1, SafeAlways, PTL

\* A request answered 404, 409 or 503 has committed no job, and none runs.
THEOREM RefusedClean == Spec => []RefusedLeavesNothing
<1>1. Safe => RefusedLeavesNothing
  BY DEF Safe
<1>. QED  BY <1>1, SafeAlways, PTL

-----------------------------------------------------------------------------
(* What a request read of its User's settings, and why one is refused with  *)
(* a conflict, are matters of history: the settings may be others by now.   *)

\* The settings do not matter to a request, or nobody changes them.
SettingsKept(r) == ask[r].style # None \/ "settings" \notin Faults

StylesKept ==
    \A r \in Request : style[r] # None /\ SettingsKept(r) => style[r] = ResolvedStyle(r)

\* A conflict is with a committed job of the same key.
ConflictsExplained ==
    \A r \in Request : answer[r].code = 409 =>
        /\ style[r] # None
        /\ \E q \in Committed : ExternalId(q) = ExternalId(r) /\ ~Matches(r, q)

History == StylesKept /\ ConflictsExplained /\ ("edit" \notin Faults => edited = {})

LEMMA InitHistory == Init => History
  BY DEF Init, History, StylesKept, ConflictsExplained, NoAnswer

\* What any step leaves of the past.
LEMMA ReplyHistory ==
  ASSUME Safe, NEW r \in Request, pc[r] \in {"lookup", "conflict"}, NEW q \in Existing(r),
         AnswerExisting(r, q)
  PROVE  \A p \in Request : \/ answer'[p] = answer[p]
                            \/ answer'[p].code # 409
                            \/ style[p] # None /\ \E o \in Existing(p) : ~Matches(p, o)
<1>1. style[r] # None /\ answer \in [Request -> [code: {0, 202, 404, 409, 500, 503},
                                                job: Request \union {None}]]
  BY NoneAssumption DEF Safe, TypeOK
<1>2. CASE Matches(r, q)
  BY <1>1, <1>2 DEF AnswerExisting, Reply
<1>3. CASE ~Matches(r, q)
  BY <1>1, <1>3 DEF AnswerExisting, Reply
<1>. QED  BY <1>2, <1>3

LEMMA AnswersOfAStep ==
  ASSUME Safe, [Next]_vars
  PROVE  \A p \in Request : \/ answer'[p] = answer[p]
                            \/ answer'[p].code # 409
                            \/ style[p] # None /\ \E o \in Existing(p) : ~Matches(p, o)
<1>1. answer \in [Request -> [code: {0, 202, 404, 409, 500, 503},
                              job: Request \union {None}]]
  BY DEF Safe, TypeOK
<1>2. ASSUME NEW r \in Request, LookUp(r) \/ LookUpAgain(r)
      PROVE  \A p \in Request : \/ answer'[p] = answer[p]
                                \/ answer'[p].code # 409
                                \/ style[p] # None /\ \E o \in Existing(p) : ~Matches(p, o)
  <2>1. CASE \E q \in Existing(r) : AnswerExisting(r, q)
    BY <1>2, <2>1, ReplyHistory DEF LookUp, LookUpAgain
  <2>2. CASE Existing(r) = {}
    BY <1>1, <1>2, <2>2 DEF LookUp, LookUpAgain, Goto, Reply
  <2>. QED  BY <1>2, <2>1, <2>2 DEF LookUp, LookUpAgain
<1>3. ASSUME NEW r \in Request,
             \/ Arrive(r) \/ GetImageForUser(r) \/ ReadSettings(r) \/ FindContent(r)
             \/ CreateImageGeneration(r) \/ EnqueueImageGeneration(r) \/ Commit(r) \/ Fail(r)
      PROVE  \A p \in Request : answer'[p] = answer[p] \/ answer'[p].code # 409
  <2>1. \/ UNCHANGED answer
        \/ \E code \in {202, 404, 500, 503}, job \in Request \union {None} : Reply(r, code, job)
    BY <1>3 DEF Arrive, GetImageForUser, ReadSettings, FindContent, CreateImageGeneration,
       EnqueueImageGeneration, Commit, Fail, Goto
  <2>. QED  BY <1>1, <2>1 DEF Reply
<1>4. CASE \/ \E r \in Request : Work(r) \/ UpdateGeneration(r)
           \/ \E s \in Style : UpdateSettings(s)
           \/ \E x \in Request \union Content : SoftDelete(x)
           \/ UNCHANGED vars
  BY <1>4 DEF Work, Claim, Settle, UpdateGeneration, UpdateSettings, SoftDelete, vars, request
<1>. QED  BY <1>2, <1>3, <1>4 DEF Next, Serve

LEMMA PastOfAStep ==
  ASSUME Safe, [Next]_vars
  PROVE  /\ UNCHANGED ask
         /\ Committed \subseteq Committed'
         /\ edited \subseteq edited' /\ ("edit" \notin Faults => UNCHANGED edited)
         /\ "settings" \notin Faults => UNCHANGED visualStyle
         /\ "soft_delete" \notin Faults => UNCHANGED deleted
         /\ \A p \in Request : \/ style'[p] = style[p]
                               \/ /\ pc[p] = "settings" /\ style'[p] = ResolvedStyle(p)
                                  /\ UNCHANGED <<answer, visualStyle>>
<1>1. style \in [Request -> Style \union {None}] /\ status \in
          [Request -> {"absent", "PENDING", "PROCESSING", "COMPLETED", "FAILED"}]
  BY DEF Safe, TypeOK
<1>2. ASSUME NEW r \in Request, Arrive(r) \/ Serve(r) \/ Fail(r)
      PROVE  /\ UNCHANGED <<ask, edits>>
             /\ status' = status \/ status' = [status EXCEPT ![r] = "PENDING"]
             /\ \A p \in Request : \/ style'[p] = style[p]
                                   \/ /\ pc[p] = "settings" /\ style'[p] = ResolvedStyle(p)
                                      /\ UNCHANGED answer
  BY <1>1, <1>2 DEF Arrive, Serve, GetImageForUser, ReadSettings, LookUp, FindContent,
     CreateImageGeneration, LookUpAgain, EnqueueImageGeneration, Commit, Fail, Goto
<1>3. ASSUME NEW r \in Request, Arrive(r) \/ Serve(r) \/ Fail(r)
      PROVE  Committed \subseteq Committed'
  BY <1>1, <1>2, <1>3 DEF Committed
<1>4. ASSUME NEW r \in Request, Work(r)
      PROVE  UNCHANGED <<request, edits>> /\ Committed \subseteq Committed'
  BY <1>1, <1>4 DEF Work, Claim, Settle, Committed
<1>5. CASE \/ \E r \in Request : UpdateGeneration(r)
           \/ \E s \in Style : UpdateSettings(s)
           \/ \E x \in Request \union Content : SoftDelete(x)
           \/ UNCHANGED vars
  BY <1>5 DEF UpdateGeneration, UpdateSettings, SoftDelete, vars, request, edits, Committed
<1>. QED  BY <1>2, <1>3, <1>4, <1>5 DEF Next, request, edits

LEMMA NextHistory == Safe /\ History /\ [Next]_vars => History'
<1>. SUFFICES ASSUME Safe, History, [Next]_vars PROVE History'
  OBVIOUS
<1>1. \A p \in Request : SettingsKept(p)' => SettingsKept(p) /\ ResolvedStyle(p)' = ResolvedStyle(p)
  BY PastOfAStep DEF SettingsKept, ResolvedStyle, KeptStyle
<1>2. StylesKept'
  BY <1>1, PastOfAStep DEF History, StylesKept
<1>3. ConflictsExplained'
  <2>1. ASSUME NEW r \in Request, answer'[r].code = 409
        PROVE  /\ style[r] # None /\ style'[r] = style[r]
               /\ \E q \in Committed : ExternalId(q) = ExternalId(r) /\ ~Matches(r, q)
    <3>1. pc[r] = "settings" => answer[r].code = 0
      BY DEF Safe, CommitsLast, NoAnswer
    <3>2. style[r] # None /\ \E q \in Committed : ExternalId(q) = ExternalId(r) /\ ~Matches(r, q)
      BY <2>1, AnswersOfAStep DEF History, ConflictsExplained, Existing
    <3>. QED  BY <2>1, <3>1, <3>2, PastOfAStep
  <2>2. \A q \in Committed : style'[q] = style[q]
    BY PastOfAStep DEF Safe, CommitsLast, Committed
  <2>3. \A r \in Request, q \in Committed :
            style'[r] = style[r] /\ ~Matches(r, q) => ~Matches(r, q)' /\ q \in Committed'
    BY <2>2, PastOfAStep DEF Matches, Fingerprint
  <2>. QED  BY <2>1, <2>3, PastOfAStep DEF ConflictsExplained, ExternalId
<1>4. "edit" \notin Faults => edited' = {}
  BY PastOfAStep DEF History
<1>. QED  BY <1>2, <1>3, <1>4 DEF History

LEMMA HistoryAlways == Spec => []History
  BY SafeAlways, InitHistory, NextHistory, PTL DEF Spec

\* A request that asks what an accepted one asked, and read the same settings
\* or none, conflicts only with an edited job.
LEMMA OnlyEditsConflict ==
  ASSUME Safe, History, NEW q \in Request, NEW r \in Request, ask[q] = ask[r],
         SettingsKept(q), answer[q].code = 202, answer[r].code = 409
  PROVE  answer[q].job \in edited
<1>1. PICK p \in Committed : /\ answer[q].job = p /\ ExternalId(p) = ExternalId(q)
                             /\ Fingerprint(p) = Fingerprint(q)
  BY DEF Safe, AcceptedJobMatches
<1>2. PICK o \in Committed : ExternalId(o) = ExternalId(r) /\ ~Matches(r, o)
  BY DEF History, ConflictsExplained
<1>3. o = p
  BY <1>1, <1>2 DEF Safe, KeysApart, ExternalId
<1>4. style[q] # None /\ style[r] # None
  BY <1>1, NoneAssumption DEF Safe, CommitsLast, Fingerprint, History, ConflictsExplained,
     Committed
<1>5. style[q] = style[r]
  BY <1>4 DEF History, StylesKept, SettingsKept, ResolvedStyle, KeptStyle
<1>. QED  BY <1>1, <1>2, <1>3, <1>5 DEF Matches, Fingerprint

\* A request that names its style and repeats an accepted one is never refused
\* with a conflict, unless the job it would be told of was edited meanwhile,
\* whatever fails and whatever becomes of the User's settings.
THEOREM RepeatedStyle == Spec => []RepeatedStyleNeverConflicts
<1>1. Safe /\ History => RepeatedStyleNeverConflicts
  BY OnlyEditsConflict DEF RepeatedStyleNeverConflicts, SettingsKept
<1>. QED  BY <1>1, SafeAlways, HistoryAlways, PTL

\* What documentation says of every request holds if nobody changes her
\* settings or edits a Generation: a request repeated word for word is told of
\* the same job.  These two are all that can refute it.
THEOREM RepeatedRequest ==
  ASSUME Faults \intersect {"settings", "edit"} = {}
  PROVE  Spec => []SameRequestNeverConflicts
<1>1. Safe /\ History => SameRequestNeverConflicts
  BY OnlyEditsConflict DEF History, SameRequestNeverConflicts, SettingsKept
<1>. QED  BY <1>1, SafeAlways, HistoryAlways, PTL

\* An INSERT that failed finds the job it collided with.
Found == /\ deleted = {}
         /\ \A r \in Request : pc[r] = "conflict" => Taken(r)
         /\ DocumentedAnswer

\* Without deletions, a collision on the key is always answered with the job
\* that holds it: an undocumented 500 takes a database that fails, or a
\* deletion of what the key belongs to.
THEOREM AnswersDocumented ==
  ASSUME Faults \intersect {"soft_delete", "commit", "commit_lost", "error"} = {}
  PROVE  Spec => []DocumentedAnswer
<1>1. Init => Found
  BY DEF Init, Found, DocumentedAnswer, NoAnswer
<1>2. Safe /\ Found /\ [Next]_vars => Found'
  <2>. SUFFICES ASSUME Safe, Found, [Next]_vars PROVE Found'
    OBVIOUS
  <2>1. /\ pc \in [Request -> {"idle", "image", "settings", "lookup", "content", "insert",
                               "conflict", "enqueue", "commit", "done"}]
        /\ answer \in [Request -> [code: {0, 202, 404, 409, 500, 503},
                                   job: Request \union {None}]]
    BY DEF Safe, TypeOK
  <2>2. deleted' = {} /\ UNCHANGED ask /\ Committed \subseteq Committed'
    BY PastOfAStep DEF Found
  <2>3. ASSUME NEW r \in Request, Arrive(r) \/ Serve(r)
        PROVE  /\ \A p \in Request : pc'[p] = "conflict" => pc[p] = "conflict" \/ Taken(p)
               /\ DocumentedAnswer'
    <3>1. \/ \E where \in {"image", "settings", "lookup", "content", "insert", "enqueue", "commit"} :
                 Goto(r, where)
          \/ Goto(r, "conflict") /\ Taken(r)
          \/ \E code \in {202, 404, 409, 503}, job \in Request \union {None} : Reply(r, code, job)
      <4>1. pc[r] = "conflict" => Existing(r) # {}
        BY DEF Found, Taken, Existing
      <4>2. \A q \in Existing(r) : AnswerExisting(r, q) =>
                \E code \in {202, 409}, job \in Request \union {None} : Reply(r, code, job)
        BY DEF AnswerExisting, Existing, Committed
      <4>3. CASE LookUp(r) \/ LookUpAgain(r)
        BY <4>1, <4>2, <4>3 DEF LookUp, LookUpAgain
      <4>4. CASE CreateImageGeneration(r)
        BY <4>4 DEF CreateImageGeneration
      <4>5. CASE \/ Arrive(r) \/ GetImageForUser(r) \/ ReadSettings(r) \/ FindContent(r)
                 \/ EnqueueImageGeneration(r) \/ Commit(r)
        BY <4>5 DEF Arrive, GetImageForUser, ReadSettings, FindContent, EnqueueImageGeneration,
           Commit
      <4>. QED  BY <2>3, <4>3, <4>4, <4>5 DEF Serve
    <3>. QED  BY <2>1, <3>1 DEF Goto, Reply, Found, DocumentedAnswer
  <2>4. ASSUME \/ \E r \in Request : Work(r) \/ Fail(r) \/ UpdateGeneration(r)
               \/ \E s \in Style : UpdateSettings(s)
               \/ \E x \in Request \union Content : SoftDelete(x)
               \/ UNCHANGED vars
        PROVE  UNCHANGED <<pc, answer>>
    BY <2>4 DEF Work, Claim, Settle, Fail, UpdateGeneration, UpdateSettings, SoftDelete, vars,
       request
  <2>5. /\ \A p \in Request : pc'[p] = "conflict" => pc[p] = "conflict" \/ Taken(p)
        /\ DocumentedAnswer'
    BY <2>3, <2>4 DEF Next, Found, DocumentedAnswer
  <2>. QED  BY <2>2, <2>5 DEF Found, Taken, ExternalId
<1>3. Found => DocumentedAnswer
  BY DEF Found
<1>. QED  BY <1>1, <1>2, <1>3, SafeAlways, PTL DEF Spec
==================================================================================
