------------------------------- MODULE GeminiRequests -------------------------------
(***************************************************************************)
(* What is sent to Gemini, and how often: the prompt of a regeneration is  *)
(* cut until it fits the columns it is stored in, then each execution of   *)
(* the image worker calls the provider in a retry loop of its own, inside  *)
(* the attempts of the job.  A text endpoint runs the same loop while its  *)
(* caller waits.                                                           *)
(*                                                                         *)
(* One behaviour is one request.  A text is known by the length of what    *)
(* the template makes of its prefixes.  What else befalls an execution is  *)
(* in ImageWorker; here RQ may interrupt it for its timeout.               *)
(***************************************************************************)
EXTENDS Integers

CONSTANTS Limit,     \* MAX_GENERATION_PROMPT_LENGTH
          Slack,     \* what a round cuts beyond the overflow: 256
          Marker,    \* rendered length of "\n[truncated to fit ...]"
          Heaviest,  \* rendered length of the longest character: "\\u0023"
          Newline,   \* rendered length of "\n"
          Prompt,    \* the prompts of the images to regenerate, as the template takes them
          Config,    \* the settings that may be in force
          Event,     \* what may be raised while Gemini is called
          None       \* no draft, no event

\* width[k] is the length at which the first k characters are rendered: blanks at the
\* front are stripped, every other character counts.  The last tail characters are
\* blanks, and stripped too.
IsPrompt(p) ==
    /\ p.template \in Nat /\ p.length \in Nat \ {0} /\ p.tail \in 0..p.length
    /\ p.width \in [0..p.length -> Nat]
    /\ p.width[0] = 0 /\ p.width[1] <= Heaviest
    /\ \A a \in 0..p.length : \A b \in a..p.length :
           p.width[a] = 0 \/ p.width[b] - p.width[a] >= b - a

\* The locals of the loop; it counts rounds up to three.
Draft == [prompt: Prompt, kept: Nat \ {0}, marked: BOOLEAN, rounds: 0..3]

Kind == {"blocked", "invalid", "timeout", "network", "api", "protocol", "alarm"}
Alarm == [kind |-> "alarm", code |-> 0]

ASSUME LengthsAssumption ==
    /\ Limit \in Nat /\ Slack \in Nat /\ Heaviest \in Nat
    /\ Newline \in Nat /\ Marker \in Nat /\ Newline <= Marker
ASSUME PromptAssumption == \A p \in Prompt : IsPrompt(p)
ASSUME ConfigAssumption ==
    Config \subseteq [retries: Nat, initial: Nat, max: Nat, attempts: Nat \ {0}, key: BOOLEAN]
ASSUME EventAssumption ==
    /\ Event \subseteq [kind: Kind \ {"alarm"}, code: Nat]
    /\ None \notin Draft \union Event \union {Alarm}

VARIABLES config,    \* the settings
          pc,        \* where the request is
          draft,     \* the prompt of a regeneration until it is stored
          status,    \* generation_jobs.status of a regeneration
          attempts,  \* generation_jobs.attempt_count
          tries,     \* calls of Gemini that this execution's loop has completed
          raised,    \* what the last of them, or the sleep after it, raised
          slept,     \* tenths of a second this loop has slept
          calls,     \* calls of Gemini of all executions
          answer     \* the status code of the request's response

loop == <<tries, raised, slept>>
vars == <<config, pc, draft, status, attempts, loop, calls, answer>>

Job == status # "none"

Init == /\ config \in Config
        /\ \/ /\ pc = "render"
              /\ \E p \in Prompt :
                     draft = [prompt |-> p, kept |-> p.length, marked |-> FALSE, rounds |-> 0]
           \/ pc = "begin" /\ draft = None
        /\ status = "none"
        /\ attempts = 0 /\ tries = 0 /\ raised = None /\ slept = 0 /\ calls = 0
        /\ answer = 0
-----------------------------------------------------------------------------
(* build_image_regeneration_prompt, and the row that stores what it returns. *)

Rendered(d) ==
    LET text == d.prompt.width[IF d.marked THEN d.kept ELSE d.kept - d.prompt.tail]
        mark == IF ~d.marked THEN 0 ELSE IF text = 0 THEN Marker - Newline ELSE Marker
    IN  d.prompt.template + text + mark

TooLongOnce(d) == Rendered(d) > Limit /\ d.kept > 1 /\ ~d.marked
TooLongStill(d) == Rendered(d) > Limit
TooLong(d) == Rendered(d) > Limit /\ d.kept > 1

\* The number of characters the next round keeps, and that is one at least.
CutFreely(d) == d.kept - (Rendered(d) - Limit) - Slack
CutTwice(d) == IF d.kept - 2 * (Rendered(d) - Limit) - Slack < 1 THEN 1
               ELSE d.kept - 2 * (Rendered(d) - Limit) - Slack
CutBySlack(d) == IF d.kept - Slack < 1 THEN 1 ELSE d.kept - Slack
Cut(d) == LET kept == d.kept - (Rendered(d) - Limit) - Slack IN IF kept < 1 THEN 1 ELSE kept

Shortened(d) == [d EXCEPT !.kept = Cut(d), !.marked = TRUE,
                          !.rounds = IF @ < 3 THEN @ + 1 ELSE 3]

Truncate ==
    /\ pc = "render" /\ TooLong(draft)
    /\ draft' = Shortened(draft)
    /\ UNCHANGED <<config, pc, status, attempts, loop, calls, answer>>

\* The CHECK of generations.prompt refuses a longer one.
Submit ==
    /\ pc = "render" /\ ~TooLong(draft)
    /\ IF Rendered(draft) > Limit
       THEN /\ pc' = "done" /\ answer' = 500
            /\ UNCHANGED <<draft, status>>
       ELSE /\ pc' = "queued" /\ answer' = 202
            /\ draft' = None /\ status' = "PENDING"
    /\ UNCHANGED <<config, attempts, loop, calls>>
-----------------------------------------------------------------------------
(* _classify_error and _retry_delay. *)

TransientCodes == {408, 429, 500, 502, 503, 504}

ClassAlarmAsTimeout(e) ==
    IF e.kind \in {"alarm", "timeout"} THEN "timeout" ELSE IF e.kind = "network" THEN "transient"
    ELSE IF e.kind = "api" /\ e.code \in TransientCodes THEN "quota" ELSE "provider"
Class(e) ==
    CASE e.kind \in {"blocked", "invalid", "timeout"}                -> e.kind
      [] e.kind = "network"                                          -> "transient"
      [] e.kind = "api" /\ e.code \in {401, 403}                     -> "authentication"
      [] e.kind = "api" /\ e.code = 429                              -> "quota"
      [] e.kind = "api" /\ e.code = 408                              -> "timeout"
      [] e.kind = "api" /\ e.code \in TransientCodes \ {408, 429}    -> "transient"
      [] OTHER                                                       -> "provider"

Retryable == {"quota", "timeout", "transient"}

RetryDelayUncapped(completed) == config.initial * 2^(completed - 1)
RetryDelay(completed) ==
    LET base == config.initial * 2^(completed - 1)
    IN  IF base \in 0..config.max THEN base ELSE config.max
-----------------------------------------------------------------------------
(* What becomes of an error that leaves the loop. *)

StatusCode == [authentication |-> 500, quota |-> 429, blocked |-> 422, invalid |-> 502,
               timeout |-> 504, transient |-> 503, provider |-> 503]

\* The worker lets RQ schedule the job again, or fails it; an endpoint answers.
ReschedulesLess(retryable) == retryable /\ attempts + 1 < config.attempts
ReschedulesAll(retryable) == attempts < config.attempts
ReschedulesForever(retryable) == retryable
Reschedules(retryable) == retryable /\ attempts < config.attempts

Raise(retryable, class) ==
    /\ \/ ~Job /\ pc' = "done" /\ answer' = StatusCode[class] /\ UNCHANGED status
       \/ Job /\ Reschedules(retryable) /\ pc' = "queued" /\ UNCHANGED <<status, answer>>
       \/ /\ Job /\ ~Reschedules(retryable)
          /\ pc' = "done" /\ status' = "FAILED"
          /\ UNCHANGED answer
    /\ UNCHANGED <<config, draft, attempts>>
-----------------------------------------------------------------------------
(* run_image_generation, and generate or generate_text. *)

Claim ==
    /\ pc = "queued"
    /\ pc' = "begin" /\ status' = "PROCESSING"
    /\ attempts' = attempts + 1
    /\ tries' = 0 /\ raised' = None /\ slept' = 0
    /\ UNCHANGED <<config, draft, calls, answer>>

\* Without a key there is no client; with no retry attempts, no call.
Begin ==
    /\ pc = "begin"
    /\ \/ ~config.key /\ Raise(FALSE, "authentication")
       \/ config.key /\ config.retries = 0 /\ Raise(FALSE, "invalid")
       \/ /\ config.key /\ config.retries > 0
          /\ pc' = "call"
          /\ UNCHANGED <<config, draft, status, attempts, answer>>
    /\ UNCHANGED <<loop, calls>>

\* What is done with the image is in ImageWorker, with the text in Catalog.
Respond ==
    /\ pc = "call"
    /\ pc' = "done" /\ tries' = tries + 1 /\ calls' = calls + 1 /\ raised' = None
    /\ IF Job THEN status' = "COMPLETED" /\ UNCHANGED answer
       ELSE answer' = 200 /\ UNCHANGED status
    /\ UNCHANGED <<config, draft, attempts, slept>>

\* "except Exception" around the call takes RQ's JobTimeoutException as well.
Except ==
    /\ pc = "call"
    /\ tries' = tries + 1 /\ calls' = calls + 1
    /\ \E e \in Event \union (IF Job THEN {Alarm} ELSE {}) :
           /\ raised' = e
           /\ \/ /\ Class(e) \in Retryable /\ tries' < config.retries
                 /\ pc' = "sleep"
                 /\ UNCHANGED <<config, draft, status, attempts, answer>>
              \/ /\ ~(Class(e) \in Retryable /\ tries' < config.retries)
                 /\ Raise(Class(e) \in Retryable, Class(e))
    /\ UNCHANGED slept

\* random.uniform(0, delay * 0.1), in steps of a tenth of a second.
Sleep ==
    /\ pc = "sleep"
    /\ \E jitter \in 0..RetryDelay(tries) : slept' = slept + 10 * RetryDelay(tries) + jitter
    /\ pc' = "call"
    /\ UNCHANGED <<config, draft, status, attempts, tries, raised, calls, answer>>

\* Nothing in the loop catches an exception raised while it sleeps.
Interrupt ==
    /\ pc = "sleep" /\ Job
    /\ raised' = Alarm
    /\ Raise(TRUE, "provider")
    /\ UNCHANGED <<tries, slept, calls>>
-----------------------------------------------------------------------------
Next == Truncate \/ Submit \/ Claim \/ Begin \/ Respond \/ Except \/ Sleep \/ Interrupt

\* Endpoints and work-horses run, RQ's scheduler puts scheduled jobs back on the queue,
\* and the client's own timeout ends each call.
Spec == Init /\ [][Next]_vars /\ WF_vars(Next)
-----------------------------------------------------------------------------
\* The values of the variables; a draft keeps at least one character.
TypeOK ==
    /\ config \in Config
    /\ pc \in {"render", "queued", "begin", "call", "sleep", "done"}
    /\ draft \in Draft \union {None}
    /\ draft # None => draft.kept <= draft.prompt.length
    /\ status \in {"none", "PENDING", "PROCESSING", "COMPLETED", "FAILED"}
    /\ attempts \in 0..config.attempts
    /\ tries \in 0..config.retries
    /\ raised \in Event \union {Alarm, None}
    /\ slept \in Nat /\ calls \in Nat
    /\ answer \in {0, 200, 202, 422, 429, 500, 502, 503, 504}

\* The style leaves room for one character and the marker.
Room(d) == d.prompt.template + Heaviest + Marker <= Limit

\* A regeneration is never refused for the length of its prompt, as long as the style
\* leaves any room: however much longer escaping makes what is kept, it fits in the end.
PromptFits == pc = "done" /\ draft # None => ~Room(draft)

\* Two rounds are enough, whatever the characters weigh and however many blanks end the
\* prompt, although the marker comes on top of what the first one has measured.
TruncatesAtMostTwice == draft # None /\ Room(draft) => draft.rounds <= 2

\* Of a prompt whose characters are rendered as they are, no more is lost than the slack.
Plain(p) == \A k \in 0..p.length : p.width[k] = k
PlainPromptsLoseLittle ==
    draft # None /\ draft.marked /\ Plain(draft.prompt) => Rendered(draft) >= Limit - Slack

\* The errors that the code's classes take for passing: a response that is broken off, say, is none.
Transient(e) == e.kind \in {"timeout", "network"} \/ (e.kind = "api" /\ e.code \in TransientCodes)

\* Nobody gives up on a transient error early: a job fails, or an endpoint answers, with
\* one only when the calls of this loop and the attempts of the job are used up.
TransientErrorsAreRetried ==
    pc = "done" /\ raised # None /\ Transient(raised) =>
        /\ tries = config.retries
        /\ Job => attempts = config.attempts

\* And nobody repeats a call that failed for good: the loop sleeps, and RQ schedules the job
\* again, for a transient error or an interrupted sleep only.
PermanentErrorsAreNot ==
    raised # None /\ pc # "done" => Transient(raised) \/ (raised = Alarm /\ pc = "queued")

\* The two retry loops multiply, and no more: attempts of the job times calls of a loop.
CallsBounded == calls <= config.retries * (IF Job THEN config.attempts ELSE 1)

\* RQ's timeout ends the execution: nothing takes it for a timeout of Gemini and goes on.
AlarmEndsExecution == raised = Alarm => pc \notin {"call", "sleep"}

\* However often it doubles, the delay stays under its cap and a tenth of jitter on top.
SleepBounded == slept <= 11 * config.max * (IF config.retries > 0 THEN config.retries - 1 ELSE 0)

\* Every request is settled: truncation ends and so do the retries.
Settles == <>(pc = "done")
=====================================================================================
