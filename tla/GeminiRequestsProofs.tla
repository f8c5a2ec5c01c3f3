---------------------------- MODULE GeminiRequestsProofs ----------------------------
(***************************************************************************)
(* For all lengths, prompts and settings: a regeneration's prompt fits     *)
(* after two rounds, and the calls of Gemini keep to their budget, are     *)
(* repeated for transient errors only and end with RQ's timeout.           *)
(***************************************************************************)
EXTENDS GeminiRequests, TLAPS

\* Where the registers of a request stand, by pc.
Places ==
    /\ pc = "render" => draft # None /\ ~Job
    /\ draft # None => pc \in {"render", "done"} /\ ~Job /\ raised = None
    /\ pc \in {"render", "begin"} => tries = 0 /\ raised = None /\ slept = 0
    /\ pc = "queued" => Job /\ attempts < config.attempts
    /\ pc \in {"call", "sleep"} => tries < config.retries
    /\ pc = "sleep" => tries > 0
    /\ pc \in {"call", "sleep"} /\ raised # None => Class(raised) \in Retryable
    /\ Job /\ pc # "queued" => attempts > 0
    /\ ~Job => attempts = 0

\* What is known of a draft between two rounds.
Drafted ==
    draft # None =>
        /\ ~draft.marked => draft.rounds = 0 /\ draft.kept = draft.prompt.length
        /\ Room(draft) /\ draft.rounds >= 2 => Rendered(draft) <= Limit
        /\ pc = "done" => Rendered(draft) > Limit /\ draft.kept = 1

\* The calls of this execution come on top of those of the earlier ones.
Counted ==
    calls <= IF pc = "queued" THEN config.retries * attempts
             ELSE IF Job THEN config.retries * (attempts - 1) + tries
             ELSE tries

\* A loop that has not ended with a sleep has slept once less than it has called.
Sleeps == IF pc = "call" THEN tries ELSE IF tries = 0 THEN 0 ELSE tries - 1
Sleeping == slept <= 11 * config.max * Sleeps

IInv == /\ TypeOK /\ Places /\ Drafted /\ Counted /\ Sleeping
        /\ TruncatesAtMostTwice /\ PlainPromptsLoseLittle
        /\ TransientErrorsAreRetried /\ PermanentErrorsAreNot
-----------------------------------------------------------------------------
(* Lengths. *)

\* A draft as the loop makes it.
Drawn(d) ==
    /\ d \in Draft /\ d.kept <= d.prompt.length
    /\ ~d.marked => d.kept = d.prompt.length

LEMMA PromptFacts ==
    ASSUME NEW d, Drawn(d)
    PROVE  /\ IsPrompt(d.prompt)
           /\ d.prompt.template \in Nat /\ d.prompt.length \in Nat \ {0}
           /\ d.kept \in 1..d.prompt.length /\ d.marked \in BOOLEAN
           /\ d.prompt.width[d.kept] \in Nat
           /\ ~d.marked => d.prompt.tail \in 0..d.kept
           /\ ~d.marked => d.prompt.width[d.kept - d.prompt.tail] \in Nat
<1>1. d.prompt \in Prompt /\ d.kept \in Nat \ {0} /\ d.marked \in BOOLEAN
  BY DEF Drawn, Draft
<1>2. IsPrompt(d.prompt)
  BY <1>1, PromptAssumption
<1>3. d.kept \in 1..d.prompt.length
  BY <1>1, <1>2 DEF IsPrompt, Drawn
<1>4. d.prompt.width[d.kept] \in Nat
  BY <1>2, <1>3 DEF IsPrompt
<1>5. ASSUME ~d.marked
      PROVE  d.prompt.tail \in 0..d.kept /\ d.kept - d.prompt.tail \in 0..d.prompt.length
  BY <1>2, <1>3, <1>5 DEF IsPrompt, Drawn
<1>6. ASSUME ~d.marked
      PROVE  d.prompt.width[d.kept - d.prompt.tail] \in Nat
  BY <1>2, <1>5, <1>6 DEF IsPrompt
<1> QED
  BY <1>1, <1>2, <1>3, <1>4, <1>5, <1>6 DEF IsPrompt

LEMMA RenderedLength ==
    ASSUME NEW d, Drawn(d)
    PROVE  /\ Rendered(d) \in Int
           /\ d.marked => LET all == d.prompt.template + d.prompt.width[d.kept] + Marker
                          IN  /\ Rendered(d) <= all
                              /\ d.prompt.width[d.kept] # 0 => Rendered(d) = all
           /\ ~d.marked => Rendered(d) = d.prompt.template + d.prompt.width[d.kept - d.prompt.tail]
<1>1. CASE d.marked
  <2>1. Rendered(d) = d.prompt.template + d.prompt.width[d.kept]
                      + (IF d.prompt.width[d.kept] = 0 THEN Marker - Newline ELSE Marker)
    BY <1>1 DEF Rendered
  <2> QED
    BY <1>1, <2>1, PromptFacts, LengthsAssumption
<1>2. CASE ~d.marked
  <2>1. Rendered(d) = d.prompt.template + d.prompt.width[d.kept - d.prompt.tail] + 0
    BY <1>2 DEF Rendered
  <2> QED
    BY <1>2, <2>1, PromptFacts
<1> QED
  BY <1>1, <1>2

\* Between two numbers of characters, the rendered length grows by their distance at least.
LEMMA Grows ==
    ASSUME NEW p, IsPrompt(p), NEW b \in 0..p.length, NEW a \in 0..b
    PROVE  /\ p.width[a] \in Nat /\ p.width[b] \in Nat
           /\ p.width[a] = 0 \/ p.width[b] - p.width[a] >= b - a
<1>1. a \in 0..p.length /\ b \in a..p.length
  BY DEF IsPrompt
<1> QED
  BY <1>1 DEF IsPrompt

\* What one round makes of a draft.
LEMMA RoundShape ==
    ASSUME NEW d, Drawn(d), TooLong(d), NEW e, e = Shortened(d)
    PROVE  /\ Drawn(e) /\ e.marked /\ e.prompt = d.prompt /\ e.kept < d.kept
           /\ e.kept = IF d.kept - (Rendered(d) - Limit) - Slack < 1 THEN 1
                       ELSE d.kept - (Rendered(d) - Limit) - Slack
           /\ e.rounds = IF d.rounds < 3 THEN d.rounds + 1 ELSE 3
<1>1. d \in Draft /\ d.kept \in 1..d.prompt.length /\ d.prompt.length \in Nat
  BY PromptFacts DEF Drawn
<1>2. Rendered(d) \in Int /\ Rendered(d) > Limit /\ d.kept > 1
  BY RenderedLength DEF TooLong
<1>3. Cut(d) \in Nat \ {0} /\ Cut(d) < d.kept
  BY <1>1, <1>2, LengthsAssumption DEF Cut
<1>4. /\ e.prompt = d.prompt /\ e.kept = Cut(d) /\ e.marked = TRUE
      /\ e.rounds = IF d.rounds < 3 THEN d.rounds + 1 ELSE 3
  BY <1>1 DEF Shortened, Draft
<1>5. e \in Draft
  <2> DEFINE n == IF d.rounds < 3 THEN d.rounds + 1 ELSE 3
  <2>1. n \in 0..3
    BY <1>1 DEF Draft
  <2>2. e = [prompt |-> d.prompt, kept |-> Cut(d), marked |-> TRUE, rounds |-> n]
    BY <1>1 DEF Shortened, Draft
  <2> QED
    BY <1>1, <1>3, <2>1, <2>2 DEF Draft
<1> QED
  BY <1>1, <1>3, <1>4, <1>5 DEF Cut, Drawn

\* The second round leaves a prompt that fits.
LEMMA SecondRound ==
    ASSUME NEW d, Drawn(d), TooLong(d), d.marked, Room(d), NEW e, e = Shortened(d)
    PROVE  Rendered(e) <= Limit
<1>1. /\ Drawn(e) /\ e.marked /\ e.prompt = d.prompt /\ e.kept < d.kept
      /\ e.kept = IF d.kept - (Rendered(d) - Limit) - Slack < 1 THEN 1
                  ELSE d.kept - (Rendered(d) - Limit) - Slack
  BY RoundShape
<1> DEFINE p == d.prompt
           over == Rendered(d) - Limit
<1>2. /\ IsPrompt(p) /\ p.template \in Nat
      /\ d.kept \in 1..p.length /\ e.kept \in 1..p.length /\ p.length \in Nat
  BY <1>1, PromptFacts
<1>3. /\ p.width[e.kept] \in Nat /\ p.width[d.kept] \in Nat
      /\ p.width[e.kept] = 0 \/ p.width[d.kept] - p.width[e.kept] >= d.kept - e.kept
  BY <1>1, <1>2, Grows
<1>4. Rendered(d) \in Int /\ Rendered(d) <= p.template + p.width[d.kept] + Marker
  BY RenderedLength
<1>5. Rendered(d) > Limit
  BY DEF TooLong
<1>6. Rendered(e) \in Int /\ Rendered(e) <= p.template + p.width[e.kept] + Marker
  BY <1>1, RenderedLength
<1>7. p.template + Heaviest + Marker <= Limit
  BY DEF Room
<1>8. CASE p.width[e.kept] = 0
  BY <1>2, <1>6, <1>7, <1>8, LengthsAssumption
<1>9. CASE e.kept = 1
  <2>1. p.width[e.kept] <= Heaviest
    BY <1>2, <1>9 DEF IsPrompt
  <2> QED
    BY <1>2, <1>3, <1>6, <1>7, <2>1, LengthsAssumption
<1>10. CASE e.kept # 1 /\ p.width[e.kept] # 0
  <2>1. e.kept = d.kept - over - Slack
    BY <1>1, <1>10
  <2>2. p.width[e.kept] <= p.width[d.kept] - over - Slack
    BY <1>2, <1>3, <1>4, <1>10, <2>1, LengthsAssumption
  <2>3. p.width[d.kept] + p.template + Marker >= over + Limit
    BY <1>2, <1>3, <1>4, LengthsAssumption
  <2>4. p.width[d.kept] \in Nat /\ Rendered(d) = p.template + p.width[d.kept] + Marker
    <3>1. p.width[d.kept] # 0
      BY <1>2, <1>3, <1>10, <1>1
    <3> QED
      BY <1>3, <3>1, RenderedLength
  <2> QED
    BY <1>2, <1>3, <1>6, <2>2, <2>4, LengthsAssumption
<1> QED
  BY <1>8, <1>9, <1>10

\* Of a plain prompt a round leaves all but the slack.
LEMMA PlainRound ==
    ASSUME NEW d, Drawn(d), TooLong(d), Plain(d.prompt), NEW e, e = Shortened(d)
    PROVE  Rendered(e) >= Limit - Slack
<1>1. /\ Drawn(e) /\ e.marked /\ e.prompt = d.prompt
      /\ e.kept = IF d.kept - (Rendered(d) - Limit) - Slack < 1 THEN 1
                  ELSE d.kept - (Rendered(d) - Limit) - Slack
  BY RoundShape
<1> DEFINE p == d.prompt
<1>2. /\ IsPrompt(p) /\ p.template \in Nat /\ p.length \in Nat
      /\ d.kept \in 1..p.length /\ e.kept \in 1..p.length
      /\ ~d.marked => p.tail \in 0..d.kept
  BY <1>1, PromptFacts
<1>3. p.width[e.kept] = e.kept /\ p.width[d.kept] = d.kept
  BY <1>2 DEF Plain
<1>4. ~d.marked => p.width[d.kept - p.tail] = d.kept - p.tail
  BY <1>2 DEF Plain
<1>5. Rendered(d) \in Int /\ Rendered(d) <= p.template + d.kept + Marker
  BY <1>2, <1>3, <1>4, RenderedLength, LengthsAssumption
<1>6. Rendered(e) = p.template + e.kept + Marker
  BY <1>1, <1>2, <1>3, RenderedLength
<1> QED
  BY <1>1, <1>2, <1>5, <1>6, LengthsAssumption
-----------------------------------------------------------------------------
(* The retry loop. *)

Answers == {0, 200, 202, 422, 429, 500, 502, 503, 504}

LEMMA NoneFacts ==
    /\ \A d \in Draft : d # None
    /\ \A e \in Event \union {Alarm} : e # None
BY EventAssumption

LEMMA ClassFacts ==
    ASSUME NEW e \in Event \union {Alarm}
    PROVE  /\ Class(e) \in Retryable <=> Transient(e)
           /\ Class(e) \in DOMAIN StatusCode
           /\ ~Transient(Alarm)
<1>1. e.kind \in Kind
  BY EventAssumption DEF Alarm, Kind
<1>2. Class(e) \in Retryable <=> Transient(e)
  BY <1>1 DEF Class, Retryable, Transient, TransientCodes, Kind
<1>3. Class(e) \in DOMAIN StatusCode
  BY <1>1 DEF Class, StatusCode, TransientCodes, Kind
<1> QED
  BY <1>2, <1>3 DEF Transient, Alarm

LEMMA DelayFacts ==
    ASSUME config \in Config, NEW k
    PROVE  config.max \in Nat /\ RetryDelay(k) \in 0..config.max
BY ConfigAssumption DEF RetryDelay

LEMMA ConfigFacts ==
    ASSUME config \in Config
    PROVE  /\ config.retries \in Nat /\ config.attempts \in Nat \ {0}
           /\ config.max \in Nat /\ config.key \in BOOLEAN
BY ConfigAssumption

\* What Raise may lead to.
LEMMA RaiseFacts ==
    ASSUME NEW retryable \in BOOLEAN, NEW class, Raise(retryable, class)
    PROVE  /\ UNCHANGED <<config, draft, attempts>>
           /\ pc' \in {"queued", "done"}
           /\ pc' = "queued" => /\ Job /\ retryable /\ attempts < config.attempts
                                /\ status' = status /\ answer' = answer
           /\ pc' = "done" /\ Job => /\ status' = "FAILED" /\ answer' = answer
                                     /\ ~(retryable /\ attempts < config.attempts)
           /\ pc' = "done" /\ ~Job => status' = status /\ answer' = StatusCode[class]
           /\ Job' = Job
BY DEF Raise, Reschedules, Job

LEMMA InitType == Init => TypeOK
<1> SUFFICES ASSUME Init PROVE TypeOK
  OBVIOUS
<1>1. config.attempts \in Nat \ {0} /\ config.retries \in Nat /\ config \in Config
  BY ConfigFacts DEF Init
<1>2. draft \in Draft \union {None} /\ (draft # None => draft.kept <= draft.prompt.length)
  <2>1. CASE draft = None
    BY <2>1
  <2>2. CASE \E p \in Prompt :
                 draft = [prompt |-> p, kept |-> p.length, marked |-> FALSE, rounds |-> 0]
    <3>1. PICK p \in Prompt :
              draft = [prompt |-> p, kept |-> p.length, marked |-> FALSE, rounds |-> 0]
      BY <2>2
    <3>2. p.length \in Nat \ {0}
      BY PromptAssumption DEF IsPrompt
    <3> QED
      BY <3>1, <3>2 DEF Draft
  <2> QED
    BY <2>1, <2>2 DEF Init
<1> QED
  BY <1>1, <1>2 DEF Init, TypeOK

LEMMA InitIInv == Init => IInv
<1> SUFFICES ASSUME Init PROVE IInv
  OBVIOUS
<1>1. TypeOK
  BY InitType
<1>2. config.max \in Nat /\ config.retries \in Nat /\ config \in Config
  BY ConfigFacts DEF Init
<1>3. Places
  <2>1. pc = "render" => draft # None
    <3> SUFFICES ASSUME pc = "render" PROVE draft # None
      OBVIOUS
    <3>1. PICK p \in Prompt :
              draft = [prompt |-> p, kept |-> p.length, marked |-> FALSE, rounds |-> 0]
      BY DEF Init
    <3>2. p.length \in Nat \ {0}
      BY PromptAssumption DEF IsPrompt
    <3>3. draft \in Draft
      BY <3>1, <3>2 DEF Draft
    <3> QED
      BY <3>3, NoneFacts
  <2> QED
    BY <2>1 DEF Init, Places, Job
<1>4. Drafted /\ TruncatesAtMostTwice /\ PlainPromptsLoseLittle
  <2>1. CASE draft = None
    BY <2>1 DEF Drafted, TruncatesAtMostTwice, PlainPromptsLoseLittle
  <2>2. CASE pc = "render" /\ \E p \in Prompt :
                 draft = [prompt |-> p, kept |-> p.length, marked |-> FALSE, rounds |-> 0]
    BY <2>2 DEF Drafted, TruncatesAtMostTwice, PlainPromptsLoseLittle
  <2> QED
    BY <2>1, <2>2 DEF Init
<1>5. Counted /\ Sleeping
  BY <1>2 DEF Init, Counted, Sleeping, Sleeps, Job
<1>6. TransientErrorsAreRetried /\ PermanentErrorsAreNot
  BY DEF Init, TransientErrorsAreRetried, PermanentErrorsAreNot
<1> QED
  BY <1>1, <1>3, <1>4, <1>5, <1>6 DEF IInv
-----------------------------------------------------------------------------
(* The steps. *)

\* How a step may leave the loop: RQ schedules the job again, or the request is done.
Leaves(retryable) ==
    /\ UNCHANGED <<config, draft, attempts>>
    /\ Job' = Job
    /\ pc' \in {"queued", "done"}
    /\ pc' = "queued" => /\ Job /\ retryable /\ attempts < config.attempts
                         /\ status' = status /\ answer' = answer
    /\ pc' = "done" => /\ status' \in {status, "FAILED"} /\ answer' \in Answers
                       /\ Job => ~(retryable /\ attempts < config.attempts)

LEMMA RaiseLeaves ==
    ASSUME TypeOK, NEW retryable \in BOOLEAN, NEW class \in DOMAIN StatusCode,
           Raise(retryable, class)
    PROVE  Leaves(retryable)
<1>1. answer \in Answers /\ StatusCode[class] \in Answers
  BY DEF TypeOK, Answers, StatusCode
<1> QED
  BY <1>1, RaiseFacts DEF Leaves

LEMMA BeginFacts ==
    ASSUME TypeOK, Begin
    PROVE  /\ pc = "begin" /\ UNCHANGED <<loop, calls>>
           /\ \/ Leaves(FALSE)
              \/ /\ config.retries > 0 /\ pc' = "call"
                 /\ UNCHANGED <<config, draft, status, attempts, answer>>
<1>1. CASE Raise(FALSE, "authentication")
  BY <1>1, RaiseLeaves DEF Begin, StatusCode
<1>2. CASE Raise(FALSE, "invalid")
  BY <1>2, RaiseLeaves DEF Begin, StatusCode
<1> QED
  BY <1>1, <1>2 DEF Begin

LEMMA ExceptFacts ==
    ASSUME TypeOK, Except
    PROVE  /\ pc = "call" /\ tries' = tries + 1 /\ calls' = calls + 1 /\ slept' = slept
           /\ raised' \in Event \union {Alarm}
           /\ \/ /\ Class(raised') \in Retryable /\ tries' < config.retries
                 /\ pc' = "sleep"
                 /\ UNCHANGED <<config, draft, status, attempts, answer>>
              \/ /\ ~(Class(raised') \in Retryable /\ tries' < config.retries)
                 /\ Leaves(Class(raised') \in Retryable)
<1>1. PICK e \in Event \union {Alarm} :
          /\ raised' = e
          /\ \/ /\ Class(e) \in Retryable /\ tries' < config.retries
                /\ pc' = "sleep"
                /\ UNCHANGED <<config, draft, status, attempts, answer>>
             \/ /\ ~(Class(e) \in Retryable /\ tries' < config.retries)
                /\ Raise(Class(e) \in Retryable, Class(e))
  BY DEF Except
<1>2. Class(e) \in DOMAIN StatusCode
  BY ClassFacts
<1>3. ASSUME Raise(Class(e) \in Retryable, Class(e))
      PROVE  Leaves(Class(e) \in Retryable)
  <2>1. (Class(e) \in Retryable) \in BOOLEAN
    OBVIOUS
  <2> QED
    BY <1>2, <1>3, <2>1, RaiseLeaves, Zenon
<1> QED
  BY <1>1, <1>3 DEF Except

LEMMA InterruptFacts ==
    ASSUME TypeOK, Interrupt
    PROVE  /\ pc = "sleep" /\ Job /\ raised' = Alarm /\ UNCHANGED <<tries, slept, calls>>
           /\ Leaves(TRUE)
BY RaiseLeaves DEF Interrupt, StatusCode

\* The draft of a request that is being rendered.
LEMMA DraftFacts ==
    ASSUME TypeOK, Places, Drafted, pc = "render"
    PROVE  Drawn(draft) /\ draft # None
BY DEF TypeOK, Places, Drafted, Drawn

LEMMA TypeStep ==
    ASSUME TypeOK, Places, Drafted, [Next]_vars
    PROVE  TypeOK'
<1>c. /\ config \in Config /\ config.retries \in Nat /\ config.attempts \in Nat \ {0}
      /\ config.max \in Nat
  BY ConfigFacts DEF TypeOK
<1>t. /\ attempts \in Nat /\ tries \in Nat /\ slept \in Nat /\ calls \in Nat
      /\ attempts <= config.attempts /\ tries <= config.retries
  BY <1>c DEF TypeOK
<1>1. CASE Truncate
  <2>1. Drawn(draft) /\ TooLong(draft) /\ draft # None
    BY <1>1, DraftFacts DEF Truncate
  <2>2. Drawn(draft')
    BY <1>1, <2>1, RoundShape DEF Truncate
  <2> QED
    BY <1>1, <2>2 DEF Truncate, TypeOK, Drawn, loop
<1>2. CASE Submit
  BY <1>2 DEF Submit, TypeOK, loop
<1>3. CASE Claim
  <2>1. attempts < config.attempts
    BY <1>3 DEF Claim, Places
  <2> QED
    BY <1>3, <1>c, <1>t, <2>1 DEF Claim, TypeOK
<1>4. CASE Begin
  BY <1>4, BeginFacts DEF TypeOK, Leaves, Answers, loop
<1>5. CASE Respond
  <2>1. tries < config.retries
    BY <1>5 DEF Respond, Places
  <2> QED
    BY <1>5, <1>c, <1>t, <2>1 DEF Respond, TypeOK
<1>6. CASE Except
  <2>1. /\ pc = "call" /\ tries' = tries + 1 /\ calls' = calls + 1 /\ slept' = slept
        /\ raised' \in Event \union {Alarm}
    BY <1>6, ExceptFacts
  <2>2. tries' \in 0..config.retries /\ calls' \in Nat
    BY <1>c, <1>t, <2>1 DEF Places
  <2>3. CASE pc' = "sleep" /\ UNCHANGED <<config, draft, status, attempts, answer>>
    BY <2>1, <2>2, <2>3 DEF TypeOK
  <2>4. CASE Leaves(Class(raised') \in Retryable)
    BY <2>1, <2>2, <2>4 DEF TypeOK, Leaves, Answers
  <2> QED
    BY <1>6, <2>3, <2>4, ExceptFacts
<1>7. CASE Sleep
  <2>1. slept' \in Nat
    BY <1>7, <1>c, <1>t, DelayFacts DEF Sleep
  <2> QED
    BY <1>7, <2>1 DEF Sleep, TypeOK
<1>8. CASE Interrupt
  BY <1>8, InterruptFacts DEF TypeOK, Leaves, Answers
<1>9. CASE UNCHANGED vars
  BY <1>9 DEF vars, loop, TypeOK
<1> QED
  BY <1>1, <1>2, <1>3, <1>4, <1>5, <1>6, <1>7, <1>8, <1>9 DEF Next

LEMMA PlacesStep ==
    ASSUME TypeOK, Places, Drafted, [Next]_vars
    PROVE  Places'
<1>c. /\ config \in Config /\ config.retries \in Nat /\ config.attempts \in Nat \ {0}
  BY ConfigFacts DEF TypeOK
<1>t. attempts \in Nat /\ tries \in Nat
  BY <1>c DEF TypeOK
<1>1. CASE Truncate
  <2>1. Drawn(draft) /\ TooLong(draft)
    BY <1>1, DraftFacts DEF Truncate
  <2>2. draft' \in Draft
    BY <1>1, <2>1, RoundShape DEF Truncate, Drawn
  <2> QED
    BY <1>1, <2>2, NoneFacts DEF Truncate, Places, Job, loop
<1>2. CASE Submit
  <2>1. status = "none" /\ attempts = 0 /\ raised = None
    BY <1>2 DEF Submit, Places, Job
  <2> QED
    BY <1>2, <1>c, <2>1 DEF Submit, Places, Job, loop
<1>3. CASE Claim
  BY <1>3, <1>t DEF Claim, Places, Job
<1>4. CASE Begin
  BY <1>4, <1>c, BeginFacts DEF Places, Leaves, Job, loop
<1>5. CASE Respond
  BY <1>5 DEF Respond, Places, Job
<1>6. CASE Except
  <2>1. /\ pc = "call" /\ tries' = tries + 1 /\ calls' = calls + 1 /\ slept' = slept
        /\ raised' \in Event \union {Alarm}
    BY <1>6, ExceptFacts
  <2>2. draft = None /\ (Job => attempts > 0) /\ (~Job => attempts = 0)
    BY <2>1 DEF Places
  <2>3. CASE /\ Class(raised') \in Retryable /\ tries' < config.retries
             /\ pc' = "sleep" /\ UNCHANGED <<config, draft, status, attempts, answer>>
    BY <1>t, <2>1, <2>2, <2>3 DEF Places, Job
  <2>4. CASE Leaves(Class(raised') \in Retryable)
    BY <2>1, <2>2, <2>4 DEF Places, Leaves
  <2> QED
    BY <1>6, <2>3, <2>4, ExceptFacts
<1>7. CASE Sleep
  BY <1>7 DEF Sleep, Places, Job
<1>8. CASE Interrupt
  BY <1>8, InterruptFacts DEF Places, Leaves
<1>9. CASE UNCHANGED vars
  BY <1>9 DEF vars, loop, Places, Job
<1> QED
  BY <1>1, <1>2, <1>3, <1>4, <1>5, <1>6, <1>7, <1>8, <1>9 DEF Next

\* A step other than Truncate and Submit leaves a draft where it is.
LEMMA DraftStep ==
    ASSUME TypeOK, Places, Drafted, TruncatesAtMostTwice, PlainPromptsLoseLittle, [Next]_vars
    PROVE  Drafted' /\ TruncatesAtMostTwice' /\ PlainPromptsLoseLittle'
<1>1. CASE Truncate
  <2>1. Drawn(draft) /\ TooLong(draft) /\ pc = "render" /\ draft # None
    BY <1>1, DraftFacts DEF Truncate
  <2>2. draft' = Shortened(draft) /\ pc' = "render"
    BY <1>1 DEF Truncate
  <2>3. /\ Drawn(draft') /\ draft'.marked /\ draft'.prompt = draft.prompt
        /\ draft'.rounds = IF draft.rounds < 3 THEN draft.rounds + 1 ELSE 3
    BY <2>1, <2>2, RoundShape
  <2>4. Room(draft') <=> Room(draft)
    BY <2>3 DEF Room
  <2>5. draft.rounds \in 0..3 /\ draft.marked \in BOOLEAN
    BY <2>1 DEF Drawn, Draft
  <2>6. Room(draft) => draft.rounds < 2
    <3>1. Rendered(draft) \in Int /\ Rendered(draft) > Limit
      BY <2>1, RenderedLength DEF TooLong
    <3> QED
      BY <2>1, <2>5, <3>1, LengthsAssumption DEF Drafted
  <2>7. ASSUME Room(draft'), draft'.rounds >= 2
        PROVE  Rendered(draft') <= Limit
    <3>1. draft.marked
      BY <2>1, <2>3, <2>5, <2>7 DEF Drafted
    <3> QED
      BY <2>1, <2>2, <2>4, <2>7, <3>1, SecondRound
  <2>8. ASSUME Plain(draft'.prompt)
        PROVE  Rendered(draft') >= Limit - Slack
    BY <2>1, <2>2, <2>3, <2>8, PlainRound
  <2>9. Drafted'
    BY <2>2, <2>3, <2>7 DEF Drafted
  <2>10. TruncatesAtMostTwice'
    BY <2>3, <2>4, <2>5, <2>6 DEF TruncatesAtMostTwice
  <2> QED
    BY <2>8, <2>9, <2>10 DEF PlainPromptsLoseLittle
<1>2. CASE Submit
  <2>1. Drawn(draft) /\ ~TooLong(draft)
    BY <1>2, DraftFacts DEF Submit
  <2>2. CASE draft' = None
    BY <2>2 DEF Drafted, TruncatesAtMostTwice, PlainPromptsLoseLittle
  <2>3. CASE Rendered(draft) > Limit /\ draft' = draft
    <3>1. draft.kept = 1
      BY <2>1, <2>3, PromptFacts DEF TooLong
    <3> QED
      BY <2>3, <3>1 DEF Drafted, TruncatesAtMostTwice, PlainPromptsLoseLittle
  <2> QED
    BY <1>2, <2>2, <2>3 DEF Submit
<1>3. CASE draft' = None
  BY <1>3 DEF Drafted, TruncatesAtMostTwice, PlainPromptsLoseLittle
<1>4. CASE draft' = draft /\ pc' = pc
  BY <1>4 DEF Drafted, TruncatesAtMostTwice, PlainPromptsLoseLittle
<1>5. ASSUME Claim \/ Begin \/ Respond \/ Except \/ Sleep \/ Interrupt
      PROVE  draft' = None
  <2>1. pc \in {"queued", "begin", "call", "sleep"}
    BY <1>5 DEF Claim, Begin, Respond, Except, Sleep, Interrupt
  <2>2. draft = None
    BY <2>1 DEF Places
  <2>3. Begin \/ Except \/ Interrupt => draft' = draft
    BY BeginFacts, ExceptFacts, InterruptFacts DEF Leaves
  <2> QED
    BY <1>5, <2>2, <2>3 DEF Claim, Respond, Sleep
<1>6. UNCHANGED vars => draft' = draft /\ pc' = pc
  BY DEF vars
<1> QED
  BY <1>1, <1>2, <1>3, <1>4, <1>5, <1>6 DEF Next

LEMMA Product ==
    ASSUME NEW a \in Nat, NEW b \in Nat, NEW n \in Nat, a <= b
    PROVE  /\ n * a \in Nat /\ n * a <= n * b
           /\ n * (a + 1) = n * a + n
           /\ n * ((a + 1) - 1) = n * a
BY SMT

LEMMA Account ==
    ASSUME NEW u \in Nat, NEW c \in Nat, NEW t \in Nat, NEW d \in Nat, NEW s \in Nat,
           c <= u + t, d - s <= c - t
    PROVE  d <= u + s /\ \A r \in Nat : s <= r => d <= u + r
OBVIOUS

LEMMA AccountOfOne ==
    ASSUME NEW c \in Nat, NEW t \in Nat, NEW d \in Nat, NEW s \in Nat, c <= t, d - s <= c - t
    PROVE  d <= s
OBVIOUS

LEMMA CountStep ==
    ASSUME TypeOK, Places, Drafted, Counted, [Next]_vars
    PROVE  Counted'
<1>c. /\ config \in Config /\ config.retries \in Nat /\ config.attempts \in Nat \ {0}
  BY ConfigFacts DEF TypeOK
<1>t. /\ attempts \in Nat /\ tries \in Nat /\ calls \in Nat /\ tries <= config.retries
  BY <1>c DEF TypeOK
<1> DEFINE used == config.retries * (attempts - 1)
<1>p. /\ config.retries * attempts \in Nat
      /\ attempts > 0 => used \in Nat /\ config.retries * attempts = used + config.retries
  <2>1. CASE attempts = 0
    BY <1>c, <1>t, <2>1
  <2>2. CASE attempts > 0
    <3>1. attempts - 1 \in Nat /\ (attempts - 1) + 1 = attempts
      BY <1>t, <2>2
    <3> QED
      BY <1>c, <3>1, Product
  <2> QED
    BY <1>t, <2>1, <2>2
\* Scheduling the job again closes the account of this execution.
<1>q. ASSUME Job, pc # "queued", pc' = "queued", config' = config, attempts' = attempts,
             tries' \in 0..config.retries, calls' - tries' <= calls - tries, calls' \in Nat
      PROVE  Counted'
  <2>1. attempts > 0 /\ calls <= used + tries
    BY <1>q DEF Places, Counted
  <2>2. calls' <= used + config.retries
    <3>1. used \in Nat
      BY <1>p, <2>1
    <3>2. tries' \in Nat /\ tries' <= config.retries
      BY <1>c, <1>q
    <3> HIDE DEF used
    <3> QED
      BY <1>c, <1>t, <1>q, <2>1, <3>1, <3>2, Account
  <2> QED
    BY <1>p, <1>q, <2>1, <2>2 DEF Counted
\* Otherwise each call is counted by tries.
<1>n. ASSUME pc # "queued", pc' # "queued", config' = config, attempts' = attempts, Job' = Job,
             tries' \in Nat, calls' \in Nat, calls' - tries' <= calls - tries
      PROVE  Counted'
  <2>1. Job => attempts > 0
    BY <1>n DEF Places
  <2>2. CASE Job
    <3>1. used \in Nat /\ calls <= used + tries
      BY <1>p, <1>n, <2>1, <2>2 DEF Counted
    <3>2. calls' <= used + tries'
      <4> HIDE DEF used
      <4> QED
        BY <1>t, <1>n, <3>1, Account
    <3> QED
      BY <1>n, <2>2, <3>2 DEF Counted
  <2>3. CASE ~Job
    <3>1. calls <= tries
      BY <1>t, <1>n, <2>3 DEF Counted
    <3>2. calls' <= tries'
      BY <1>t, <1>n, <3>1, AccountOfOne
    <3>3. ~Job' /\ pc' # "queued"
      BY <1>n, <2>3
    <3> QED
      BY <3>2, <3>3 DEF Counted
  <2> QED
    BY <2>2, <2>3
<1>1. CASE Truncate
  BY <1>1, <1>n, <1>t DEF Truncate, loop, Job
<1>2. CASE Submit
  <2>1. pc = "render" /\ ~Job /\ tries = 0 /\ attempts = 0
    BY <1>2 DEF Submit, Places
  <2>2. calls = 0
    BY <1>t, <2>1 DEF Counted
  <2> QED
    BY <1>2, <1>c, <1>t, <1>p, <2>1, <2>2 DEF Submit, Counted, loop, Job
<1>3. CASE Claim
  <2>1. config.retries * ((attempts + 1) - 1) = config.retries * attempts
    BY <1>c, <1>t, Product
  <2>2. calls <= config.retries * attempts
    BY <1>3 DEF Claim, Counted
  <2>3. /\ attempts' = attempts + 1 /\ tries' = 0 /\ Job' /\ pc' = "begin" /\ calls' = calls
        /\ config' = config
    BY <1>3 DEF Claim, Job
  <2>4. config'.retries * (attempts' - 1) + tries' = config.retries * attempts
    BY <1>p, <2>1, <2>3
  <2> QED
    BY <2>2, <2>3, <2>4 DEF Counted
<1>4. CASE Begin
  <2>1. /\ pc = "begin" /\ tries' = tries /\ calls' = calls /\ config' = config
        /\ attempts' = attempts /\ Job' = Job
        /\ (pc' = "queued" => Job)
    BY <1>4, BeginFacts DEF Leaves, loop, Job
  <2> QED
    BY <1>c, <1>t, <1>q, <1>n, <2>1
<1>5. CASE Respond
  <2>1. Job' = Job
    BY <1>5 DEF Respond, Job
  <2> QED
    BY <1>5, <1>t, <1>n, <2>1 DEF Respond
<1>6. CASE Except
  <2>1. /\ pc = "call" /\ tries' = tries + 1 /\ calls' = calls + 1 /\ config' = config
        /\ attempts' = attempts /\ Job' = Job
        /\ (pc' = "queued" => Job)
    BY <1>6, ExceptFacts DEF Leaves, Job
  <2>2. tries' \in 0..config.retries
    BY <1>c, <1>t, <2>1 DEF Places
  <2> QED
    BY <1>c, <1>t, <1>q, <1>n, <2>1, <2>2
<1>7. CASE Sleep
  BY <1>7, <1>t, <1>n DEF Sleep, Job
<1>8. CASE Interrupt
  <2>1. /\ pc = "sleep" /\ tries' = tries /\ calls' = calls /\ config' = config
        /\ attempts' = attempts /\ Job' = Job /\ Job
    BY <1>8, InterruptFacts DEF Leaves
  <2> QED
    BY <1>c, <1>t, <1>q, <1>n, <2>1
<1>9. CASE UNCHANGED vars
  BY <1>9 DEF vars, loop, Counted, Job
<1> QED
  BY <1>1, <1>2, <1>3, <1>4, <1>5, <1>6, <1>7, <1>8, <1>9 DEF Next

LEMMA SleepStep ==
    ASSUME TypeOK, Places, Drafted, Sleeping, [Next]_vars
    PROVE  Sleeping'
<1>c. config \in Config /\ config.max \in Nat
  BY ConfigFacts DEF TypeOK
<1>t. tries \in Nat /\ slept \in Nat
  BY ConfigFacts DEF TypeOK
<1> DEFINE most == 11 * config.max
<1>m. most \in Nat /\ most * 0 = 0 /\ \A n \in Nat : most * n \in Nat /\ most * (n + 1) = most * n + most
  BY <1>c, Product
<1>a. slept <= most * Sleeps /\ Sleeps \in Nat
  BY <1>t DEF Sleeping, Sleeps
<1> HIDE DEF most
<1>k. ASSUME config' = config, slept' = slept, Sleeps' = Sleeps
      PROVE  Sleeping'
  BY <1>a, <1>k DEF Sleeping, most
<1>1. CASE Truncate \/ Submit
  BY <1>1, <1>k DEF Truncate, Submit, Sleeps, loop
<1>3. CASE Claim
  <2>1. slept' = 0 /\ Sleeps' = 0 /\ config' = config
    BY <1>3 DEF Claim, Sleeps
  <2> QED
    BY <1>m, <2>1 DEF Sleeping, most
<1>4. CASE Begin
  <2>1. pc = "begin" /\ tries' = tries /\ slept' = slept /\ config' = config /\ tries = 0
    BY <1>4, BeginFacts DEF Leaves, loop, Places
  <2>2. Sleeps' = Sleeps
    BY <2>1 DEF Sleeps
  <2> QED
    BY <1>k, <2>1, <2>2
<1>5. CASE Respond
  <2>1. Sleeps' = Sleeps
    BY <1>5, <1>t DEF Respond, Sleeps
  <2> QED
    BY <1>5, <1>k, <2>1 DEF Respond
<1>6. CASE Except
  <2>1. /\ pc = "call" /\ tries' = tries + 1 /\ slept' = slept /\ config' = config
        /\ pc' # "call"
    BY <1>6, ExceptFacts DEF Leaves
  <2>2. Sleeps' = Sleeps
    BY <1>t, <2>1 DEF Sleeps
  <2> QED
    BY <1>k, <2>1, <2>2
<1>7. CASE Sleep
  <2>1. /\ pc = "sleep" /\ pc' = "call" /\ tries' = tries /\ tries > 0 /\ config' = config
    BY <1>7 DEF Sleep, Places
  <2>2. PICK jitter \in 0..RetryDelay(tries) : slept' = slept + 10 * RetryDelay(tries) + jitter
    BY <1>7 DEF Sleep
  <2>3. RetryDelay(tries) \in 0..config.max
    BY <1>c, DelayFacts
  <2>4. slept' <= slept + most
    BY <1>c, <1>t, <2>2, <2>3 DEF most
  <2>5. Sleeps' = Sleeps + 1
    BY <1>t, <2>1 DEF Sleeps
  <2>6. most * Sleeps' = most * Sleeps + most /\ most * Sleeps \in Nat
    BY <1>a, <1>m, <2>5
  <2>7. slept' \in Int
    BY <1>t, <2>2, <2>3, <1>c
  <2>8. slept' <= most * Sleeps'
    BY <1>a, <1>m, <1>t, <2>4, <2>6, <2>7
  <2> QED
    BY <2>1, <2>8 DEF Sleeping, most
<1>8. CASE Interrupt
  <2>1. /\ pc = "sleep" /\ pc' # "call" /\ tries' = tries /\ slept' = slept /\ config' = config
        /\ tries > 0
    BY <1>8, InterruptFacts DEF Leaves, Places
  <2>2. Sleeps' = Sleeps
    BY <2>1 DEF Sleeps
  <2> QED
    BY <1>k, <2>1, <2>2
<1>9. CASE UNCHANGED vars
  BY <1>9, <1>k DEF vars, loop, Sleeps
<1> QED
  BY <1>1, <1>3, <1>4, <1>5, <1>6, <1>7, <1>8, <1>9 DEF Next

LEMMA RetryStep ==
    ASSUME TypeOK, Places, Drafted, TransientErrorsAreRetried, PermanentErrorsAreNot, [Next]_vars
    PROVE  TransientErrorsAreRetried' /\ PermanentErrorsAreNot'
<1>c. config.retries \in Nat /\ config.attempts \in Nat \ {0}
  BY ConfigFacts DEF TypeOK
<1>t. /\ attempts \in Nat /\ attempts <= config.attempts
      /\ tries \in Nat /\ raised \in Event \union {Alarm, None}
  BY <1>c DEF TypeOK
<1>1. CASE raised' = None
  BY <1>1 DEF TransientErrorsAreRetried, PermanentErrorsAreNot
<1>2. CASE Begin \/ Truncate \/ Submit
  <2>1. raised' = raised
    BY <1>2 DEF Begin, Truncate, Submit, loop
  <2>2. pc \in {"begin", "render"}
    BY <1>2 DEF Begin, Truncate, Submit
  <2>3. raised = None
    BY <2>2 DEF Places
  <2> QED
    BY <1>1, <2>1, <2>3
<1>3. CASE Claim \/ Respond
  BY <1>1, <1>3 DEF Claim, Respond
<1>4. CASE Except
  <2>0. config' = config
    BY <1>4, ExceptFacts DEF Leaves
  <2>1. /\ pc = "call" /\ tries' = tries + 1
        /\ raised' \in Event \union {Alarm}
        /\ \/ /\ Class(raised') \in Retryable /\ pc' = "sleep"
           \/ /\ ~(Class(raised') \in Retryable /\ tries' < config.retries)
              /\ Leaves(Class(raised') \in Retryable)
    BY <1>4, ExceptFacts
  <2>2. Class(raised') \in Retryable <=> Transient(raised')
    BY <2>1, ClassFacts
  <2>3. tries' <= config.retries
    BY <1>c, <1>t, <2>1 DEF Places
  <2>4. CASE Class(raised') \in Retryable /\ pc' = "sleep"
    BY <2>2, <2>4 DEF TransientErrorsAreRetried, PermanentErrorsAreNot
  <2>5. CASE /\ ~(Class(raised') \in Retryable /\ tries' < config.retries)
             /\ Leaves(Class(raised') \in Retryable)
    <3>1. Transient(raised') => tries' = config.retries
      BY <1>c, <1>t, <2>1, <2>2, <2>3, <2>5
    <3>2. pc' = "queued" => Transient(raised')
      BY <2>2, <2>5 DEF Leaves
    <3>3. pc' = "done" /\ Transient(raised') /\ Job' => attempts' = config'.attempts
      BY <1>c, <1>t, <2>0, <2>2, <2>5 DEF Leaves
    <3>4. pc' \in {"queued", "done"}
      BY <2>5 DEF Leaves
    <3> QED
      BY <2>0, <2>1, <3>1, <3>2, <3>3, <3>4 DEF TransientErrorsAreRetried, PermanentErrorsAreNot
  <2> QED
    BY <2>1, <2>4, <2>5
<1>5. CASE Sleep
  <2>1. pc = "sleep" /\ pc' = "call" /\ raised' = raised
    BY <1>5 DEF Sleep
  <2>2. raised # None => Transient(raised)
    BY <2>1 DEF PermanentErrorsAreNot
  <2> QED
    BY <2>1, <2>2 DEF TransientErrorsAreRetried, PermanentErrorsAreNot, Transient
<1>6. CASE Interrupt
  <2>1. raised' = Alarm /\ pc' \in {"queued", "done"} /\ ~Transient(Alarm)
    BY <1>6, InterruptFacts, ClassFacts DEF Leaves
  <2>2. ~Transient(raised')
    BY <2>1
  <2> QED
    BY <2>1, <2>2 DEF TransientErrorsAreRetried, PermanentErrorsAreNot
<1>7. CASE UNCHANGED vars
  BY <1>7 DEF vars, loop, TransientErrorsAreRetried, PermanentErrorsAreNot, Job, Transient
<1> QED
  BY <1>2, <1>3, <1>4, <1>5, <1>6, <1>7 DEF Next
-----------------------------------------------------------------------------
LEMMA StepIInv == IInv /\ [Next]_vars => IInv'
BY TypeStep, PlacesStep, DraftStep, CountStep, SleepStep, RetryStep DEF IInv

LEMMA Invariance == Spec => []IInv
BY InitIInv, StepIInv, PTL DEF Spec

\* The variables hold values of their types in every reachable state.
THEOREM TypeCorrect == Spec => []TypeOK
<1>1. IInv => TypeOK
  BY DEF IInv
<1> QED
  BY Invariance, <1>1, PTL

\* A regeneration whose style leaves room for one character is never refused for its length:
\* a refused draft has one character left, and still does not fit.
THEOREM PromptsFit == Spec => []PromptFits
<1>1. IInv => PromptFits
  <2> SUFFICES ASSUME IInv, pc = "done", draft # None, Room(draft)
               PROVE  FALSE
    BY DEF PromptFits
  <2>1. Drawn(draft) /\ Rendered(draft) > Limit /\ draft.kept = 1
    BY DEF IInv, TypeOK, Drafted, Drawn
  <2> DEFINE p == draft.prompt
  <2>2. IsPrompt(p) /\ p.template \in Nat /\ p.length \in Nat \ {0}
    BY <2>1, PromptFacts
  <2>3. p.width[0] = 0 /\ p.width[1] \in Nat /\ p.width[1] <= Heaviest
    BY <2>2 DEF IsPrompt
  <2>4. Rendered(draft) <= p.template + Heaviest + Marker
    <3>1. CASE draft.marked
      BY <2>1, <2>2, <2>3, <3>1, RenderedLength, LengthsAssumption
    <3>2. CASE ~draft.marked
      <4>1. draft.prompt.tail \in 0..1
        BY <2>1, <3>2, PromptFacts
      <4>2. p.width[draft.kept - p.tail] \in Nat /\ p.width[draft.kept - p.tail] <= Heaviest
        BY <2>1, <2>3, <4>1, LengthsAssumption
      <4> QED
        BY <2>1, <2>2, <3>2, <4>2, RenderedLength, LengthsAssumption
    <3> QED
      BY <3>1, <3>2
  <2>5. Rendered(draft) \in Int
    BY <2>1, RenderedLength
  <2> QED
    BY <2>1, <2>2, <2>4, <2>5, LengthsAssumption DEF Room
<1> QED
  BY Invariance, <1>1, PTL

\* Whatever the characters weigh, the loop that cuts a prompt makes two rounds at most.
THEOREM TwoRounds == Spec => []TruncatesAtMostTwice
<1>1. IInv => TruncatesAtMostTwice
  BY DEF IInv
<1> QED
  BY Invariance, <1>1, PTL

\* A prompt whose characters are rendered as they are loses no more than the slack.
THEOREM LittleLost == Spec => []PlainPromptsLoseLittle
<1>1. IInv => PlainPromptsLoseLittle
  BY DEF IInv
<1> QED
  BY Invariance, <1>1, PTL

\* A transient error is final only when every call and every attempt is used up.
THEOREM Retried == Spec => []TransientErrorsAreRetried
<1>1. IInv => TransientErrorsAreRetried
  BY DEF IInv
<1> QED
  BY Invariance, <1>1, PTL

\* Nothing but a transient error or an interrupted sleep is tried again.
THEOREM NotRetried == Spec => []PermanentErrorsAreNot
<1>1. IInv => PermanentErrorsAreNot
  BY DEF IInv
<1> QED
  BY Invariance, <1>1, PTL

\* Gemini is called at most once for each try of each attempt.
THEOREM BoundedCalls == Spec => []CallsBounded
<1>1. IInv => CallsBounded
  <2> SUFFICES ASSUME IInv PROVE CallsBounded
    OBVIOUS
  <2>1. /\ config.retries \in Nat /\ attempts \in Nat /\ config.attempts \in Nat \ {0}
        /\ attempts <= config.attempts
        /\ tries \in Nat /\ tries <= config.retries /\ calls \in Nat
    BY ConfigFacts DEF IInv, TypeOK
  <2>2. config.retries * attempts <= config.retries * config.attempts
    BY <2>1, Product
  <2>3. /\ config.retries * attempts \in Nat /\ config.retries * config.attempts \in Nat
        /\ config.retries * 1 = config.retries
    BY <2>1, Product
  <2>4. CASE ~Job
    BY <2>1, <2>3, <2>4 DEF IInv, Counted, Places, CallsBounded
  <2>5. CASE Job
    <3>1. calls <= config.retries * attempts
      <4>1. CASE pc = "queued"
        BY <4>1 DEF IInv, Counted
      <4>2. CASE pc # "queued"
        <5>1. attempts - 1 \in Nat /\ (attempts - 1) + 1 = attempts
          BY <2>1, <2>5, <4>2 DEF IInv, Places
        <5>2. /\ config.retries * attempts = config.retries * (attempts - 1) + config.retries
              /\ config.retries * (attempts - 1) \in Nat
          <6> DEFINE before == attempts - 1
          <6>1. before \in Nat /\ attempts = before + 1
            BY <5>1
          <6> HIDE DEF before
          <6>2. /\ config.retries * (before + 1) = config.retries * before + config.retries
                /\ config.retries * before \in Nat
            BY <2>1, <6>1, Product
          <6> QED
            BY <6>1, <6>2 DEF before
        <5>3. calls <= config.retries * (attempts - 1) + tries
          BY <2>5, <4>2 DEF IInv, Counted
        <5> QED
          BY <2>1, <5>2, <5>3, Account
      <4> QED
        BY <4>1, <4>2
    <3> QED
      BY <2>1, <2>2, <2>3, <2>5, <3>1 DEF CallsBounded
  <2> QED
    BY <2>4, <2>5
<1> QED
  BY Invariance, <1>1, PTL

\* After RQ's timeout an execution neither calls Gemini again nor sleeps.
THEOREM AlarmEnds == Spec => []AlarmEndsExecution
<1>1. IInv => AlarmEndsExecution
  <2>1. Alarm # None /\ ~Transient(Alarm) /\ (Class(Alarm) \in Retryable <=> Transient(Alarm))
    BY NoneFacts, ClassFacts
  <2> QED
    BY <2>1 DEF IInv, Places, AlarmEndsExecution
<1> QED
  BY Invariance, <1>1, PTL

\* All sleeps of one loop last no longer than its cap, a tenth of jitter each included.
THEOREM BoundedSleep == Spec => []SleepBounded
<1>1. IInv => SleepBounded
  <2> SUFFICES ASSUME IInv PROVE SleepBounded
    OBVIOUS
  <2>1. /\ config.retries \in Nat /\ config.max \in Nat /\ slept \in Nat
        /\ tries \in Nat /\ tries <= config.retries
    BY ConfigFacts DEF IInv, TypeOK
  <2> DEFINE most == 11 * config.max
             times == IF config.retries > 0 THEN config.retries - 1 ELSE 0
  <2>2. Sleeps \in Nat /\ times \in Nat /\ Sleeps <= times /\ most \in Nat
    BY <2>1 DEF IInv, Places, Sleeps
  <2>3. slept <= most * Sleeps
    BY DEF IInv, Sleeping
  <2>4. most * Sleeps <= most * times /\ most * Sleeps \in Nat /\ most * times \in Nat
    <3> HIDE DEF most, times
    <3> QED
      BY <2>2, Product
  <2>5. slept <= most * times
    <3> HIDE DEF most, times
    <3> QED
      BY <2>1, <2>3, <2>4
  <2> QED
    BY <2>5 DEF SleepBounded
<1> QED
  BY Invariance, <1>1, PTL
=====================================================================================
