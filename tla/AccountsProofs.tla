------------------------------- MODULE AccountsProofs -------------------------------
(***************************************************************************)
(* Whatever requests overlap: subjects and emails stay unique, a signup is *)
(* whole, an error leaves nothing behind, an accepted PATCH of settings    *)
(* stays, roles come from administrators and deleted Users stay deleted.   *)
(*                                                                         *)
(* A step of a request changes its own registers and rows, and at most one *)
(* User (UserStep) or one row of settings (SettingsStep).  The invariant   *)
(* says of each request where its registers stand and what it has written. *)
(***************************************************************************)
EXTENDS Accounts, TLAPS

Serving == {"refresh", "profile", "workspace", "settings", "default", "admin", "find", "write"}

\* Where a request may be.
Local(r) ==
    /\ answer[r] = 0 <=> pc[r] # "done"
    /\ pc[r] \in {"start", "lookup", "add"} => me[r] = None
    /\ pc[r] \in Serving => me[r] # None
    /\ pc[r] \in {"profile", "write"} => loaded[r] # None
    /\ pc[r] = "workspace" => ask[r].op = "signup"
    /\ pc[r] \in {"refresh", "profile"} => ask[r].op # "signup" /\ user[r] = None
    /\ pc[r] \in {"settings", "default"} => ask[r].op \in {"settings", "patch"}
    /\ pc[r] \in {"admin", "find", "write"} => ask[r].op \in AdminOp
    /\ pc[r] \in {"find", "write"} => me[r].role = "admin"
    /\ pc[r] = "write" => ask[r].op \in {"update", "delete"} /\ user[ask[r].id] # None

\* The User a request is served for is its Principal's.
IsOwn(r, i) == user[i] # None /\ user[i].subject = ask[r].principal.subject
Served(r) ==
    me[r] # None => \/ IsOwn(r, me[r].id)
                    \/ /\ ask[r].op = "signup" /\ me[r].id = r
                       /\ inflight[r] # None \/ answer[r] >= 400

\* The rows that are named by a request.
Own(r) ==
    /\ inflight[r] # None => /\ pc[r] = "workspace" /\ user[r] = None
                             /\ inflight[r] = New(r) /\ me[r].id = r
    /\ user[r] # None =>
           \/ ask[r].op = "signup" /\ workspace[r] = r
           \/ ask[r].op # "signup" /\ IsOwn(r, r) /\ me[r] = [id |-> r, role |-> "membro"]
           \/ ask[r].op = "create" /\ answer[r] = 201
    /\ workspace[r] # None => ask[r].op = "signup" /\ answer[r] = 200 /\ IsOwn(r, workspace[r])
    /\ ask[r].op = "signup" /\ answer[r] = 200 => workspace[r] # None

\* Who has set a column of settings, and which columns are set.
SetBy(i, f, q) ==
    /\ answer[q] = 200 /\ ask[q].op = "patch" /\ f \in ask[q].set
    /\ me[q] # None /\ me[q].id = i
SettingsOwned ==
    \A i \in Id, f \in Field :
        settings[i] # None /\ settings[i][f] # None => SetBy(i, f, settings[i][f])
HasSet(r) ==
    ask[r].op = "patch" /\ answer[r] = 200 =>
        /\ me[r] # None /\ settings[me[r].id] # None
        /\ \A f \in ask[r].set : settings[me[r].id][f] # None

Requests == \A r \in Request : Local(r) /\ Served(r) /\ Own(r) /\ HasSet(r)
IInv == TypeOK /\ OneUserPerSubject /\ Requests /\ SettingsOwned
-----------------------------------------------------------------------------
(* What a step of one request may do. *)

Alone(r) ==
    /\ ask' = ask
    /\ \A q \in Request \ {r} :
           /\ pc'[q] = pc[q] /\ me'[q] = me[q] /\ loaded'[q] = loaded[q] /\ answer'[q] = answer[q]
           /\ inflight'[q] = inflight[q] /\ workspace'[q] = workspace[q]

Free(r, i, new) == ~Waits(r, new) /\ ~Taken(i, new)

Granted(r, new) ==
    /\ ask[r].op \in {"create", "update"}
    /\ answer[r] = 0 /\ answer'[r] \in {200, 201}
    /\ me[r].role = "admin" /\ ask[r].to.role = new.role

\* Nobody's User; the User a signup holds uncommitted, commits or gives up; one User.
Begins(r, new) == inflight' = [inflight EXCEPT ![r] = new] /\ user' = user /\ Free(r, r, new)
Commits(r) ==
    /\ inflight[r] # None /\ user[r] = None
    /\ user' = [user EXCEPT ![r] = inflight[r]]
    /\ inflight' = [inflight EXCEPT ![r] = None]
Inserts(r, new) ==
    /\ user[r] = None /\ Free(r, r, new)
    /\ new.role # "membro" => Granted(r, new)
    /\ user' = [user EXCEPT ![r] = new]
Rewrites(r, i, new) ==
    /\ user[i] # None /\ new.subject = user[i].subject
    /\ user[i].deleted => new.deleted
    /\ Free(r, i, new) \/ new.email = user[i].email
    /\ new.role # user[i].role => Granted(r, new)
    /\ user' = [user EXCEPT ![i] = new]
UserStep(r) ==
    \/ user' = user /\ inflight' \in {inflight, [inflight EXCEPT ![r] = None]}
    \/ \E new \in Columns : Begins(r, new)
    \/ Commits(r)
    \/ /\ inflight[r] = None /\ inflight' = inflight
       /\ \E new \in Columns : Inserts(r, new) \/ \E i \in Id : Rewrites(r, i, new)

Before(i) == IF settings[i] = None THEN Defaults ELSE settings[i]
SettingsStep(r) ==
    \/ settings' = settings /\ (ask[r].op = "patch" => answer'[r] # 200)
    \/ /\ answer'[r] = 200 /\ me[r] # None /\ me' = me
       /\ settings' = [settings EXCEPT ![me[r].id] = Columned(Before(me[r].id), r)]

Step(r) ==
    /\ pc[r] # "done" /\ Alone(r) /\ UserStep(r) /\ SettingsStep(r)
    /\ Local(r)' /\ Served(r)' /\ Own(r)'
-----------------------------------------------------------------------------
(* Rows. *)

LEMMA AskFacts ==
    ASSUME TypeOK, NEW r \in Request
    PROVE  /\ ask[r] \in Ask
           /\ ask[r].principal \in Principal /\ ask[r].to \in Patch /\ ask[r].set \in SUBSET Field
           /\ ask[r].op = "create" => ask[r].to.subject # None /\ ask[r].to.role # None
           /\ ask[r].op \in {"get", "update", "delete"} => ask[r].id \in Id
<1>1. ask[r] \in Asks
  BY DEF TypeOK
<1>2. ask[r] \in Ask
  BY <1>1, AsksAssumption
<1>3. /\ ask[r].op = "create" => ask[r].to.subject # None /\ ask[r].to.role # None
      /\ ask[r].op \in {"get", "update", "delete"} => ask[r].id # None
  <2>1. IsComplete(ask[r])
    BY <1>1, AsksAssumption
  <2> QED
    BY <2>1 DEF IsComplete
<1>4. /\ ask[r].principal \in Principal /\ ask[r].to \in Patch /\ ask[r].set \in SUBSET Field
      /\ ask[r].id \in Id \union {None}
  BY <1>2 DEF Ask
<1> QED
  BY <1>2, <1>3, <1>4

LEMMA NewRow ==
    ASSUME TypeOK, NEW r \in Request
    PROVE  /\ New(r) \in Columns
           /\ New(r).subject = ask[r].principal.subject
           /\ New(r).role = "membro" /\ New(r).deleted = FALSE
BY AskFacts DEF New, Columns, Principal, GlobalRole

LEMMA GivenRow ==
    ASSUME TypeOK, NEW r \in Request, ask[r].op = "create"
    PROVE  /\ Given(r) \in Columns
           /\ Given(r).role = ask[r].to.role /\ Given(r).deleted = FALSE
BY AskFacts DEF Given, Columns, Patch

LEMMA PatchedRow ==
    ASSUME NEW now \in Columns, NEW old, NEW to \in [subject: Subject \union {None},
               email: Email \union {None}, name: Name \union {None}, role: GlobalRole \union {None}]
    PROVE  /\ Patched(now, old, to) \in Columns
           /\ Patched(now, old, to).subject = now.subject
           /\ Patched(now, old, to).deleted = now.deleted
           /\ Patched(now, old, to).role # now.role => Patched(now, old, to).role = to.role /\ to.role # None
BY DEF Patched, Changed, Columns

LEMMA RowsAreNotNone == /\ \A u \in Columns : u # None
                        /\ \A m \in [id: Id, role: GlobalRole] : m # None
                        /\ \A c \in [Field -> Request \union {None}] : c # None
                        /\ \A i \in Id : i # None
BY NoneAssumption
-----------------------------------------------------------------------------
(* Steps that change no row. *)

Where == {"start", "lookup", "add", "refresh", "profile", "workspace", "settings",
          "default", "admin", "find", "write", "done"}
Errors == {400, 401, 403, 404, 429, 500, 502, 504}
MeType == [id: Id, role: GlobalRole]

\* A request goes to a place, or answers; it learns from its queries; no row changes.
Goes(r, place, code) ==
    /\ pc[r] # "done" /\ ask' = ask
    /\ pc' = [pc EXCEPT ![r] = place] /\ answer' = [answer EXCEPT ![r] = code]
    /\ code = 200 => ask[r].op \notin {"patch", "signup"}
Learns(r) ==
    /\ me' = me \/ (me[r] = None /\ \E m \in MeType : me' = [me EXCEPT ![r] = m] /\ IsOwn(r, m.id))
    /\ loaded' = loaded \/ \E u \in Columns : loaded' = [loaded EXCEPT ![r] = u]
Reads == UNCHANGED <<user, settings, workspace, inflight>>

\* A request writes one User, whom it may then be served for.
MayMeet(r) == me' = me \/ \E m \in MeType : me' = [me EXCEPT ![r] = m]
Writes(r, i, new) ==
    /\ UNCHANGED <<loaded, inflight, settings, workspace>>
    /\ (i = r /\ Inserts(r, new)) \/ Rewrites(r, i, new)

\* get_current_user returns User i.
Meets(r, i, role) ==
    /\ me' = [me EXCEPT ![r] = [id |-> i, role |-> role]]
    /\ [id |-> i, role |-> role] \in MeType
    /\ me'[r] = [id |-> i, role |-> role] /\ me'[r] # None
    /\ Local(r)'
Proceeds(r) == \E place \in Where, code \in {0, 200} : Goes(r, place, code)

LEMMA OwnFacts ==
    ASSUME IInv, NEW r \in Request, pc[r] # "done"
    PROVE  /\ TypeOK /\ Local(r) /\ Served(r) /\ Own(r) /\ HasSet(r) /\ r \in Id
           /\ answer[r] = 0 /\ workspace[r] = None
           /\ pc[r] # "workspace" => inflight[r] = None
           /\ ask[r].op = "signup" => user[r] = None
           /\ user[r] # None => IsOwn(r, r) /\ me[r] = [id |-> r, role |-> "membro"]
<1>1. TypeOK /\ Local(r) /\ Served(r) /\ Own(r) /\ HasSet(r) /\ r \in Id
  BY DEF IInv, Requests, Id
<1>2. answer[r] = 0 /\ workspace[r] = None
  BY <1>1 DEF Local, Own
<1>3. r # None
  BY <1>1, RowsAreNotNone
<1> QED
  BY <1>1, <1>2, <1>3 DEF Own

\* A request is answered; what it holds uncommitted is given up.
Ends(r, code) ==
    /\ pc[r] # "done" /\ Reply(r, code)
    /\ UNCHANGED <<ask, me, loaded, user, settings, workspace>>
    /\ inflight' \in {inflight, [inflight EXCEPT ![r] = None]} /\ inflight'[r] = None
    /\ code = 200 => ask[r].op \notin {"patch", "signup"}

LEMMA EndStep ==
    ASSUME IInv, NEW r \in Request, NEW code \in Errors \union {200}, Ends(r, code)
    PROVE  Step(r) /\ TypeOK'
<1> USE DEF Ends
<1>1. /\ TypeOK /\ Local(r) /\ Served(r) /\ Own(r)
      /\ answer[r] = 0 /\ workspace[r] = None
      /\ ask[r].op = "signup" => user[r] = None
      /\ user[r] # None => IsOwn(r, r) /\ me[r] = [id |-> r, role |-> "membro"]
  BY OwnFacts
<1>2. pc' = [pc EXCEPT ![r] = "done"] /\ answer' = [answer EXCEPT ![r] = code]
  BY DEF Reply
<1>3. pc'[r] = "done" /\ answer'[r] = code
  BY <1>1, <1>2 DEF TypeOK
<1>4. Alone(r)
  BY <1>1, <1>2 DEF Alone, TypeOK
<1>5. Local(r)'
  BY <1>3 DEF Local, Errors, Serving
<1>6. Served(r)'
  BY <1>1, <1>3 DEF Served, IsOwn, Errors
<1>7. Own(r)'
  BY <1>1, <1>3 DEF Own, IsOwn, New
<1>8. UserStep(r) /\ SettingsStep(r)
  BY <1>3 DEF UserStep, SettingsStep, Errors
<1>9. TypeOK'
  <2>1. inflight' \in [Request -> Columns \union {None}]
    BY <1>1 DEF TypeOK
  <2>2. pc' \in [Request -> Where]
    BY <1>1, <1>2 DEF TypeOK, Where
  <2>3. answer' \in [Request -> {0, 200, 201, 400, 401, 403, 404, 429, 500, 502, 504}]
    BY <1>1, <1>2 DEF TypeOK, Errors
  <2> QED
    BY <1>1, <2>1, <2>2, <2>3 DEF TypeOK, Where
<1> QED
  BY <1>4, <1>5, <1>6, <1>7, <1>8, <1>9 DEF Step

LEMMA RefuseStep ==
    ASSUME IInv, NEW r \in Request, NEW here \in Where \ {"done", "workspace"},
           NEW code \in Errors \union {200}, Refuse(r, here, code),
           code = 200 => ask[r].op \notin {"patch", "signup"}
    PROVE  Step(r) /\ TypeOK'
<1>1. pc[r] = here /\ Reply(r, code) /\ UNCHANGED <<ask, me, loaded, user, settings, workspace, inflight>>
  BY DEF Refuse, database
<1>2. inflight[r] = None
  BY <1>1, OwnFacts
<1>3. Ends(r, code)
  BY <1>1, <1>2 DEF Ends
<1> QED
  BY <1>3, EndStep

\* A request goes on, or answers, with what it has learned from its queries.
LEMMA MoveStep ==
    ASSUME IInv, NEW r \in Request, NEW place \in Where, NEW code \in {0, 200},
           Goes(r, place, code), Learns(r), Reads,
           inflight[r] # None => place = "workspace",
           Local(r)'
    PROVE  Step(r) /\ TypeOK'
<1> USE DEF Goes, Learns, Reads
<1>1. /\ TypeOK /\ Local(r) /\ Served(r) /\ Own(r)
      /\ answer[r] = 0 /\ workspace[r] = None
      /\ ask[r].op = "signup" => user[r] = None
      /\ user[r] # None => IsOwn(r, r) /\ me[r] = [id |-> r, role |-> "membro"]
  BY OwnFacts
<1>2. pc'[r] = place /\ answer'[r] = code
  BY <1>1 DEF TypeOK
<1>3. \A q \in Request \ {r} : /\ pc'[q] = pc[q] /\ answer'[q] = answer[q]
                               /\ me'[q] = me[q] /\ loaded'[q] = loaded[q]
  BY <1>1 DEF TypeOK
<1>4. Alone(r)
  BY <1>3 DEF Alone
<1>5. me'[r] = me[r] \/ (me[r] = None /\ IsOwn(r, me'[r].id))
  BY <1>1 DEF TypeOK
<1>6. Served(r)'
  BY <1>1, <1>2, <1>5 DEF Served, IsOwn
<1>7. Own(r)'
  <2>1. me[r] # None => me'[r] = me[r]
    BY <1>5
  <2>2. inflight[r] # None => me[r] # None
    BY <1>1 DEF Own, Local, Serving
  <2>3. user[r] # None => me[r] # None
    <3>1. [id |-> r, role |-> "membro"] # None
      BY <1>1, RowsAreNotNone DEF GlobalRole, Id
    <3> QED
      BY <1>1, <3>1
  <2>4. inflight[r] # None =>
            /\ pc'[r] = "workspace" /\ user'[r] = None /\ inflight'[r] = New(r)' /\ me'[r].id = r
    BY <1>1, <1>2, <2>1, <2>2 DEF Own, New
  <2>5. user[r] # None =>
            ask[r].op # "signup" /\ IsOwn(r, r)' /\ me'[r] = [id |-> r, role |-> "membro"]
    BY <1>1, <2>1, <2>3 DEF IsOwn
  <2> QED
    BY <1>1, <1>2, <2>4, <2>5 DEF Own
<1>8. UserStep(r) /\ SettingsStep(r)
  BY <1>2 DEF UserStep, SettingsStep
<1>9. TypeOK'
  <2>1. me' \in [Request -> MeType \union {None}]
    BY <1>1 DEF TypeOK, MeType
  <2>2. loaded' \in [Request -> Columns \union {None}]
    BY <1>1 DEF TypeOK
  <2>3. pc' \in [Request -> Where]
    BY <1>1 DEF TypeOK, Where
  <2>4. answer' \in [Request -> {0, 200, 201, 400, 401, 403, 404, 429, 500, 502, 504}]
    BY <1>1 DEF TypeOK
  <2> QED
    BY <1>1, <2>1, <2>2, <2>3, <2>4 DEF TypeOK, Where, MeType
<1> QED
  BY <1>4, <1>6, <1>7, <1>8, <1>9 DEF Step
-----------------------------------------------------------------------------
(* Steps that write one User. *)

\* A request writes User i and goes on or answers.
LEMMA WriteStep ==
    ASSUME IInv, NEW r \in Request, NEW place \in Where, NEW code \in {0, 200, 201},
           Goes(r, place, code), inflight[r] = None, MayMeet(r),
           NEW i \in Id, NEW new \in Columns, Writes(r, i, new),
           Local(r)', Served(r)', Own(r)'
    PROVE  Step(r) /\ TypeOK'
<1> USE DEF Goes, MayMeet, Writes
<1>1. TypeOK
  BY DEF IInv
<1>2. Alone(r)
  BY <1>1 DEF Alone, TypeOK
<1>3. answer'[r] = code
  BY <1>1 DEF TypeOK
<1>4. UserStep(r) /\ SettingsStep(r)
  BY <1>3 DEF UserStep, SettingsStep
<1>5. TypeOK'
  <2>1. me' \in [Request -> MeType \union {None}]
    BY <1>1 DEF TypeOK, MeType
  <2>2. user' \in [Id -> Columns \union {None}]
    BY <1>1 DEF TypeOK, Inserts, Rewrites
  <2>3. pc' \in [Request -> Where]
    BY <1>1 DEF TypeOK, Where
  <2>4. answer' \in [Request -> {0, 200, 201, 400, 401, 403, 404, 429, 500, 502, 504}]
    BY <1>1 DEF TypeOK
  <2> QED
    BY <1>1, <2>1, <2>2, <2>3, <2>4 DEF TypeOK, Where, MeType
<1> QED
  BY <1>2, <1>4, <1>5 DEF Step

LEMMA GoesOn ==
    ASSUME TypeOK, NEW r \in Request, pc[r] # "done", answer[r] = 0, ask' = ask,
           NEW place \in Where, Goto(r, place)
    PROVE  Goes(r, place, 0) /\ pc'[r] = place /\ answer'[r] = 0
<1>1. pc' = [pc EXCEPT ![r] = place] /\ answer' = answer
  BY DEF Goto
<1>2. pc'[r] = place /\ answer'[r] = 0 /\ answer' = [answer EXCEPT ![r] = 0]
  BY <1>1 DEF TypeOK
<1>3. 0 = 200 => ask[r].op \notin {"patch", "signup"}
  OBVIOUS
<1>4. Goes(r, place, 0)
  BY ONLY pc[r] # "done", ask' = ask, <1>1, <1>2, <1>3, Zenon DEF Goes
<1> QED
  BY <1>1, <1>2, <1>4

LEMMA Answers ==
    ASSUME TypeOK, NEW r \in Request, pc[r] # "done", ask' = ask,
           NEW code \in {200, 201}, Reply(r, code),
           code = 200 => ask[r].op \notin {"patch", "signup"}
    PROVE  Goes(r, "done", code) /\ pc'[r] = "done" /\ answer'[r] = code /\ "done" \in Where
<1>1. pc' = [pc EXCEPT ![r] = "done"] /\ answer' = [answer EXCEPT ![r] = code]
  BY DEF Reply
<1>2. pc'[r] = "done" /\ answer'[r] = code
  BY <1>1 DEF TypeOK
<1>3. "done" \in Where
  BY DEF Where
<1>4. Goes(r, "done", code)
  BY ONLY pc[r] # "done", ask' = ask, <1>1,
          code = 200 => ask[r].op \notin {"patch", "signup"}, Zenon DEF Goes
<1> QED
  BY <1>2, <1>3, <1>4

\* get_current_user returns.
LEMMA ServePlace ==
    ASSUME TypeOK, NEW r \in Request, pc[r] # "done", answer[r] = 0, ask[r].op # "signup", ask' = ask,
           NEW i \in Id, NEW role \in GlobalRole, Serve(r, i, role)
    PROVE  Meets(r, i, role) /\ Proceeds(r)
<1>1. /\ me' = [me EXCEPT ![r] = [id |-> i, role |-> role]]
      /\ [id |-> i, role |-> role] \in MeType
  BY DEF Serve, MeType
<1>2. me'[r] = [id |-> i, role |-> role] /\ me'[r] # None
  BY <1>1, RowsAreNotNone DEF TypeOK, MeType
<1>3. ask[r].op \in {"me", "settings", "patch"} \union AdminOp
  BY AskFacts DEF Ask
<1>4. CASE ask[r].op = "me"
  <2>1. /\ Goes(r, "done", 200) /\ pc'[r] = "done" /\ answer'[r] = 200
        /\ "done" \in Where
    <3>1. Reply(r, 200) /\ ask[r].op \notin {"patch", "signup"}
      BY <1>4 DEF Serve
    <3> QED
      BY <3>1, Answers
  <2>2. Local(r)'
    BY <1>2, <2>1 DEF Local, Serving
  <2>3. Proceeds(r)
    BY <2>1 DEF Proceeds
  <2> QED
    BY <1>1, <1>2, <2>2, <2>3 DEF Meets
<1>5. CASE ask[r].op # "me"
  <2>1. PICK place \in {"admin", "settings"} :
            /\ place = (IF ask[r].op \in AdminOp THEN "admin" ELSE "settings")
            /\ Goto(r, place)
    BY <1>5 DEF Serve
  <2>2. place \in Where
    BY DEF Where
  <2>3. Goes(r, place, 0) /\ pc'[r] = place /\ answer'[r] = 0
    BY <2>1, <2>2, GoesOn
  <2>4. Local(r)'
    BY <1>2, <1>3, <1>5, <2>1, <2>3 DEF Local, Serving
  <2>5. Proceeds(r)
    BY <2>2, <2>3 DEF Proceeds
  <2> QED
    BY <1>1, <1>2, <2>4, <2>5 DEF Meets
<1> QED
  BY <1>4, <1>5
-----------------------------------------------------------------------------
(* get_principal and get_current_user. *)

LEMMA GetPrincipalStep ==
    ASSUME IInv, NEW r \in Request, GetPrincipal(r)
    PROVE  Step(r) /\ TypeOK'
<1>1. ask[r].op # "signup" /\ pc[r] = "start" /\ pc[r] # "done"
  BY DEF GetPrincipal, Refuse
<1>2. TypeOK /\ Local(r) /\ answer[r] = 0 /\ me[r] = None /\ inflight[r] = None
  BY <1>1, OwnFacts DEF Local
<1>3. CASE Goto(r, "lookup") /\ UNCHANGED <<ask, me, loaded, database>>
  <2>1. ask' = ask /\ me' = me /\ Learns(r) /\ Reads /\ "lookup" \in Where
    BY <1>3 DEF database, Learns, Reads, Where
  <2>2. Goes(r, "lookup", 0) /\ pc'[r] = "lookup" /\ answer'[r] = 0
    BY <1>1, <1>2, <1>3, <2>1, GoesOn
  <2>3. Local(r)'
    BY <1>2, <2>1, <2>2 DEF Local, Serving
  <2> QED
    BY <1>2, <2>1, <2>2, <2>3, MoveStep
<1>4. CASE \E code \in {401, 500} : Refuse(r, "start", code)
  BY <1>4, RefuseStep DEF Where, Errors
<1> QED
  BY <1>3, <1>4 DEF GetPrincipal

LEMMA GetByExternalIdStep ==
    ASSUME IInv, NEW r \in Request, GetByExternalId(r)
    PROVE  Step(r) /\ TypeOK'
<1>1. ask[r].op # "signup" /\ pc[r] = "lookup" /\ pc[r] # "done"
  BY DEF GetByExternalId
<1>2. /\ TypeOK /\ Local(r) /\ answer[r] = 0 /\ me[r] = None /\ inflight[r] = None
      /\ r \in Id
  BY <1>1, OwnFacts DEF Local
<1>3. user[r] = None
  <2>1. [id |-> r, role |-> "membro"] # None
    BY <1>2, RowsAreNotNone DEF GlobalRole
  <2> QED
    BY <1>1, <1>2, <2>1, OwnFacts
<1>4. ask' = ask /\ loaded' = loaded /\ Reads
  BY DEF GetByExternalId, database, Reads
<1>5. CASE Goto(r, "add") /\ UNCHANGED me
  <2>1. Learns(r) /\ "add" \in Where
    BY <1>4, <1>5 DEF Learns, Where
  <2>2. Goes(r, "add", 0) /\ pc'[r] = "add" /\ answer'[r] = 0
    BY <1>1, <1>2, <1>4, <1>5, <2>1, GoesOn
  <2>3. Local(r)'
    BY <1>1, <1>2, <1>4, <1>5, <2>2 DEF Local, Serving, Reads
  <2> QED
    BY <1>2, <1>4, <2>1, <2>2, <2>3, MoveStep
<1>6. ASSUME NEW i \in ByExternalId(r),
             IF user[i].deleted THEN Reply(r, 401) /\ UNCHANGED me
             ELSE IF Refreshes(r, i)
             THEN /\ Goto(r, "refresh")
                  /\ me' = [me EXCEPT ![r] = [id |-> i, role |-> user[i].role]]
             ELSE Serve(r, i, user[i].role)
      PROVE  Step(r) /\ TypeOK'
  <2>1. i \in Id /\ IsOwn(r, i) /\ user[i].role \in GlobalRole
    BY <1>2 DEF ByExternalId, IsOwn, TypeOK, Columns
  <2>2. [id |-> i, role |-> user[i].role] \in MeType /\ [id |-> i, role |-> user[i].role] # None
    BY <2>1, RowsAreNotNone DEF MeType
  <2>3. ASSUME me' = [me EXCEPT ![r] = [id |-> i, role |-> user[i].role]]
        PROVE  Learns(r)
    BY <1>2, <1>4, <2>1, <2>2, <2>3 DEF Learns
  <2>4. CASE Reply(r, 401) /\ UNCHANGED me
    <3>1. Refuse(r, "lookup", 401)
      BY <1>1, <1>4, <2>4 DEF Refuse, database, Reads
    <3> QED
      BY <3>1, RefuseStep DEF Where, Errors
  <2>5. CASE Goto(r, "refresh") /\ me' = [me EXCEPT ![r] = [id |-> i, role |-> user[i].role]]
    <3>1. Learns(r) /\ "refresh" \in Where
      BY <2>3, <2>5 DEF Where
    <3>2. Goes(r, "refresh", 0) /\ pc'[r] = "refresh" /\ answer'[r] = 0
      BY <1>1, <1>2, <1>4, <2>5, <3>1, GoesOn
    <3>3. me'[r] # None
      BY <1>2, <2>2, <2>5 DEF TypeOK
    <3>4. Local(r)'
      BY <1>1, <1>2, <1>3, <1>4, <3>2, <3>3 DEF Local, Serving, Reads
    <3> QED
      BY <1>2, <1>4, <3>1, <3>2, <3>4, MoveStep
  <2>6. CASE Serve(r, i, user[i].role)
    <3>1. PICK role \in GlobalRole : role = user[i].role
      BY <2>1
    <3>2. Serve(r, i, role)
      BY <2>6, <3>1
    <3>3. Meets(r, i, role) /\ Proceeds(r)
      BY <1>1, <1>2, <1>4, <2>1, <3>2, ServePlace
    <3>4. Learns(r) /\ Local(r)'
      BY <2>3, <3>1, <3>3 DEF Meets
    <3>5. PICK place \in Where, code \in {0, 200} : Goes(r, place, code)
      BY <3>3 DEF Proceeds
    <3> QED
      BY <1>2, <1>4, <3>4, <3>5, MoveStep
  <2> QED
    BY <1>6, <2>4, <2>5, <2>6
<1> QED
  BY <1>5, <1>6 DEF GetByExternalId

LEMMA AddUserStep ==
    ASSUME IInv, NEW r \in Request, AddUser(r)
    PROVE  Step(r) /\ TypeOK'
<1>1. ask[r].op # "signup" /\ pc[r] = "add" /\ pc[r] # "done"
  BY DEF AddUser, Refuse
<1>2. /\ TypeOK /\ Local(r) /\ answer[r] = 0 /\ me[r] = None /\ inflight[r] = None
      /\ r \in Id /\ workspace[r] = None
  BY <1>1, OwnFacts DEF Local
<1>3. user[r] = None
  <2>1. [id |-> r, role |-> "membro"] # None
    BY <1>2, RowsAreNotNone DEF GlobalRole
  <2> QED
    BY <1>1, <1>2, <2>1, OwnFacts
<1>4. CASE /\ ~Waits(r, New(r)) /\ ~Taken(r, New(r))
           /\ user' = [user EXCEPT ![r] = New(r)]
           /\ Serve(r, r, "membro")
           /\ UNCHANGED <<ask, loaded, inflight, settings, workspace>>
  <2>1. Meets(r, r, "membro") /\ Proceeds(r)
    <3>1. "membro" \in GlobalRole /\ ask' = ask
      BY <1>4 DEF GlobalRole
    <3> QED
      BY <1>1, <1>2, <1>4, <3>1, ServePlace
  <2>2. /\ New(r) \in Columns /\ New(r).role = "membro" /\ New(r) # None
        /\ New(r).subject = ask[r].principal.subject
    BY <1>2, NewRow, RowsAreNotNone
  <2>3. Inserts(r, New(r))
    BY <1>3, <1>4, <2>2 DEF Inserts, Free
  <2>4. IsOwn(r, r)'
    <3>1. user'[r] = New(r)
      BY <1>2, <1>4 DEF TypeOK
    <3> QED
      BY <1>4, <2>2, <3>1 DEF IsOwn
  <2>5. Served(r)' /\ Own(r)'
    BY <1>1, <1>2, <1>4, <2>1, <2>4 DEF Served, Own, Meets
  <2>6. MayMeet(r) /\ Writes(r, r, New(r)) /\ Local(r)'
    BY <1>4, <2>1, <2>3 DEF MayMeet, Writes, Meets
  <2>7. PICK place \in Where, code \in {0, 200} : Goes(r, place, code)
    BY <2>1 DEF Proceeds
  <2> QED
    BY <1>2, <2>2, <2>5, <2>6, <2>7, WriteStep
<1>5. CASE Refuse(r, "add", 500)
  BY <1>5, RefuseStep DEF Where, Errors
<1> QED
  BY <1>4, <1>5 DEF AddUser

LEMMA UpdateProfileStep ==
    ASSUME IInv, NEW r \in Request, UpdateProfile(r)
    PROVE  Step(r) /\ TypeOK'
<1>1. pc[r] \in {"refresh", "profile"} /\ pc[r] # "done" /\ ask' = ask
  BY DEF UpdateProfile, Load, Refuse
<1>2. /\ TypeOK /\ Local(r) /\ Served(r) /\ answer[r] = 0 /\ inflight[r] = None
      /\ workspace[r] = None
  BY <1>1, OwnFacts
<1>3. me[r] # None /\ ask[r].op # "signup" /\ user[r] = None
  BY <1>1, <1>2 DEF Local, Serving
<1>4. PICK i \in Id : i = me[r].id
  BY <1>2, <1>3 DEF TypeOK
<1>5. IsOwn(r, i)
  BY <1>2, <1>3, <1>4 DEF Served
<1>6. CASE Load(r, "refresh", i, "profile", 500)
  <2>1. CASE Reply(r, 500) /\ UNCHANGED loaded
    <3>1. Refuse(r, "refresh", 500)
      BY <1>6, <2>1 DEF Refuse, Load
    <3> QED
      BY <3>1, RefuseStep DEF Where, Errors
  <2>2. CASE user[i] # None /\ loaded' = [loaded EXCEPT ![r] = user[i]] /\ Goto(r, "profile")
    <3>1. me' = me /\ Learns(r) /\ Reads /\ "profile" \in Where /\ loaded'[r] # None
      <4>1. me' = me /\ Reads /\ "profile" \in Where
        BY <1>6 DEF Load, database, Reads, Where
      <4>2. user[i] \in Columns
        BY <1>2, <2>2 DEF TypeOK
      <4>3. loaded'[r] = user[i]
        BY <1>2, <2>2 DEF TypeOK
      <4>4. Learns(r)
        BY <2>2, <4>1, <4>2 DEF Learns
      <4> QED
        BY <2>2, <4>1, <4>3, <4>4
    <3>2. Goes(r, "profile", 0) /\ pc'[r] = "profile" /\ answer'[r] = 0
      BY <1>1, <1>2, <2>2, <3>1, GoesOn
    <3>3. Local(r)'
      BY <1>1, <1>3, <3>1, <3>2 DEF Local, Serving, Reads
    <3> QED
      BY <1>2, <3>1, <3>2, <3>3, MoveStep
  <2> QED
    BY <1>6, <2>1, <2>2 DEF Load
<1>7. ASSUME NEW new, new = Patched(user[i], loaded[r], Profile(r)), pc[r] = "profile",
             ~Waits(r, new), ~Taken(i, new), user' = [user EXCEPT ![i] = new],
             Serve(r, i, loaded[r].role),
             UNCHANGED <<ask, loaded, inflight, settings, workspace>>
      PROVE  Step(r) /\ TypeOK'
  <2>1. user[i] \in Columns /\ user[i] # None
    BY <1>2, <1>5 DEF TypeOK, IsOwn
  <2>2. PICK role \in GlobalRole : role = loaded[r].role
    BY <1>2, <1>7 DEF Local, TypeOK, Columns
  <2>3. Meets(r, i, role) /\ Proceeds(r)
    <3>1. Serve(r, i, role)
      BY <1>7, <2>2
    <3> QED
      BY <1>1, <1>2, <1>3, <3>1, ServePlace
  <2>4. /\ new \in Columns /\ new.subject = user[i].subject /\ new.deleted = user[i].deleted
        /\ new.role = user[i].role /\ new # None
    <3>1. ask[r].principal \in Principal
      BY <1>2, AskFacts
    <3>2. Profile(r) \in [subject: Subject \union {None}, email: Email \union {None},
                          name: Name \union {None}, role: GlobalRole \union {None}]
      BY <3>1 DEF Profile, Principal
    <3>3. Profile(r).role = None
      BY DEF Profile
    <3> QED
      BY <1>7, <2>1, <3>2, <3>3, PatchedRow, RowsAreNotNone
  <2>5. Rewrites(r, i, new)
    BY <1>7, <2>1, <2>4 DEF Rewrites, Free
  <2>6. MayMeet(r) /\ Writes(r, i, new) /\ Local(r)'
    BY <1>7, <2>3, <2>5 DEF MayMeet, Writes, Meets
  <2>7. IsOwn(r, i)'
    <3>1. user'[i] = new
      BY <1>2, <1>7 DEF TypeOK
    <3> QED
      BY <1>5, <1>7, <2>4, <3>1 DEF IsOwn
  <2>8. Served(r)'
    BY <2>3, <2>7 DEF Served, Meets
  <2>9. Own(r)'
    <3>1. i # r /\ r \in Id
      BY <1>3, <2>1 DEF Id
    <3>2. user'[r] = None
      BY <1>2, <1>3, <1>7, <3>1 DEF TypeOK
    <3> QED
      BY <1>2, <1>3, <1>7, <3>2 DEF Own
  <2>10. PICK place \in Where, code \in {0, 200} : Goes(r, place, code)
    BY <2>3 DEF Proceeds
  <2> QED
    BY <1>2, <2>4, <2>6, <2>8, <2>9, <2>10, WriteStep
<1>8. CASE Refuse(r, "profile", 500)
  BY <1>8, RefuseStep DEF Where, Errors
<1> QED
  BY <1>4, <1>6, <1>7, <1>8 DEF UpdateProfile
-----------------------------------------------------------------------------
(* Signup. *)

LEMMA SignUpStep ==
    ASSUME IInv, NEW r \in Request, ask[r].op = "signup", SignUp(r)
    PROVE  Step(r) /\ TypeOK'
<1>1. pc[r] = "start" /\ pc[r] # "done" /\ ask' = ask /\ me' = me /\ Learns(r) /\ Reads
  BY DEF SignUp, Learns, Reads, database
<1>2. TypeOK /\ Local(r) /\ answer[r] = 0 /\ inflight[r] = None /\ me[r] = None
  BY <1>1, OwnFacts DEF Local
<1>3. CASE Goto(r, "lookup")
  <2>1. Goes(r, "lookup", 0) /\ pc'[r] = "lookup" /\ answer'[r] = 0 /\ "lookup" \in Where
    BY <1>1, <1>2, <1>3, GoesOn DEF Where
  <2>2. Local(r)'
    BY <1>1, <1>2, <2>1 DEF Local, Serving
  <2> QED
    BY <1>1, <1>2, <2>1, <2>2, MoveStep
<1>4. ASSUME NEW error \in SignupErrors, Reply(r, SignupErrorCode[error])
      PROVE  Step(r) /\ TypeOK'
  <2>1. PICK code \in Errors : code = SignupErrorCode[error]
    BY SettingsAssumption DEF SignupErrorCode, Errors
  <2>2. Refuse(r, "start", code)
    BY <1>1, <1>4, <2>1 DEF Refuse, SignUp
  <2>3. code # 200 /\ "start" \in Where \ {"done", "workspace"}
    BY DEF Errors, Where
  <2> QED
    BY <2>2, <2>3, RefuseStep
<1> QED
  BY <1>3, <1>4 DEF SignUp

LEMMA FindSignupStep ==
    ASSUME IInv, NEW r \in Request, ask[r].op = "signup", FindSignup(r)
    PROVE  Step(r) /\ TypeOK'
<1>1. pc[r] = "lookup" /\ pc[r] # "done"
  BY DEF FindSignup, Refuse
<1>2. TypeOK /\ Local(r) /\ answer[r] = 0 /\ inflight[r] = None /\ me[r] = None
  BY <1>1, OwnFacts DEF Local
<1>3. CASE /\ Goto(r, "add") /\ UNCHANGED <<ask, me, loaded, database>>
  <2>1. ask' = ask /\ me' = me /\ Learns(r) /\ Reads
    BY <1>3 DEF Learns, Reads, database
  <2>2. Goes(r, "add", 0) /\ pc'[r] = "add" /\ answer'[r] = 0 /\ "add" \in Where
    BY <1>1, <1>2, <1>3, <2>1, GoesOn DEF Where
  <2>3. Local(r)'
    BY <1>1, <1>2, <2>1, <2>2 DEF Local, Serving
  <2> QED
    BY <1>2, <2>1, <2>2, <2>3, MoveStep
<1>4. ASSUME NEW i \in ByExternalId(r), Goto(r, "workspace"), UNCHANGED <<ask, loaded, database>>,
             me' = [me EXCEPT ![r] = [id |-> i, role |-> user[i].role]]
      PROVE  Step(r) /\ TypeOK'
  <2>1. i \in Id /\ IsOwn(r, i) /\ user[i].role \in GlobalRole
    BY <1>2 DEF ByExternalId, IsOwn, TypeOK, Columns
  <2>2. [id |-> i, role |-> user[i].role] \in MeType /\ [id |-> i, role |-> user[i].role] # None
    BY <2>1, RowsAreNotNone DEF MeType
  <2>3. ask' = ask /\ Reads
    BY <1>4 DEF Reads, database
  <2>4. Learns(r) /\ me'[r] # None
    <3>1. me'[r] # None
      BY <1>2, <1>4, <2>2 DEF TypeOK
    <3>2. loaded' = loaded
      BY <1>4
    <3> QED
      BY <1>2, <1>4, <2>1, <2>2, <3>1, <3>2 DEF Learns
  <2>5. Goes(r, "workspace", 0) /\ pc'[r] = "workspace" /\ answer'[r] = 0 /\ "workspace" \in Where
    BY <1>1, <1>2, <1>4, <2>3, GoesOn DEF Where
  <2>6. Local(r)'
    BY <1>2, <2>3, <2>4, <2>5 DEF Local, Serving
  <2> QED
    BY <1>2, <2>3, <2>4, <2>5, <2>6, MoveStep
<1>5. CASE Refuse(r, "lookup", 500)
  BY <1>5, RefuseStep DEF Where, Errors
<1> QED
  BY <1>3, <1>4, <1>5 DEF FindSignup

LEMMA AddSignupStep ==
    ASSUME IInv, NEW r \in Request, ask[r].op = "signup", AddSignup(r)
    PROVE  Step(r) /\ TypeOK'
<1>1. pc[r] = "add" /\ pc[r] # "done"
  BY DEF AddSignup, Refuse
<1>2. /\ TypeOK /\ Local(r) /\ answer[r] = 0 /\ inflight[r] = None /\ me[r] = None
      /\ user[r] = None /\ workspace[r] = None /\ r \in Id
  BY <1>1, OwnFacts DEF Local
<1>3. CASE Refuse(r, "add", 500)
  BY <1>3, RefuseStep DEF Where, Errors
<1>4. CASE /\ ~Waits(r, New(r)) /\ ~Taken(r, New(r))
           /\ inflight' = [inflight EXCEPT ![r] = New(r)]
           /\ me' = [me EXCEPT ![r] = [id |-> r, role |-> "membro"]]
           /\ Goto(r, "workspace")
           /\ UNCHANGED <<ask, loaded, user, settings, workspace>>
  <2>1. New(r) \in Columns /\ New(r) # None
    BY <1>2, NewRow, RowsAreNotNone
  <2>2. inflight'[r] = New(r) /\ New(r)' = New(r)
    BY <1>2, <1>4 DEF TypeOK, New
  <2>3. [id |-> r, role |-> "membro"] \in MeType /\ [id |-> r, role |-> "membro"] # None
    BY <1>2, RowsAreNotNone DEF MeType, GlobalRole
  <2>4. me'[r] = [id |-> r, role |-> "membro"]
    BY <1>2, <1>4 DEF TypeOK
  <2>5. /\ Goes(r, "workspace", 0) /\ pc'[r] = "workspace" /\ answer'[r] = 0
        /\ "workspace" \in Where /\ ask' = ask
    BY <1>1, <1>2, <1>4, GoesOn DEF Where
  <2>6. Local(r)'
    BY <1>2, <2>3, <2>4, <2>5 DEF Local, Serving
  <2>7. Served(r)' /\ Own(r)'
    BY <1>2, <1>4, <2>1, <2>2, <2>4, <2>5 DEF Served, Own
  <2>8. Alone(r)
    BY <1>2, <1>4, <2>5 DEF Alone, TypeOK, Goes
  <2>9. UserStep(r) /\ SettingsStep(r)
    BY <1>4, <2>1, <2>5 DEF UserStep, Begins, Free, SettingsStep
  <2>10. TypeOK'
    <3>1. inflight' \in [Request -> Columns \union {None}]
      BY <1>2, <1>4, <2>1 DEF TypeOK
    <3>2. me' \in [Request -> MeType \union {None}]
      BY <1>2, <1>4, <2>3 DEF TypeOK, MeType
    <3>3. pc' \in [Request -> Where]
      BY <1>2, <2>5 DEF TypeOK, Where, Goes
    <3>4. answer' = answer
      BY <1>4 DEF Goto
    <3> QED
      BY <1>2, <1>4, <3>1, <3>2, <3>3, <3>4 DEF TypeOK, Where, MeType
  <2> QED
    BY <1>1, <2>6, <2>7, <2>8, <2>9, <2>10 DEF Step
<1> QED
  BY <1>3, <1>4 DEF AddSignup

LEMMA CreateWorkspaceStep ==
    ASSUME IInv, NEW r \in Request, ask[r].op = "signup", CreateWorkspace(r)
    PROVE  Step(r) /\ TypeOK'
<1>1. /\ pc[r] = "workspace" /\ pc[r] # "done"
      /\ ask' = ask /\ me' = me /\ loaded' = loaded /\ settings' = settings
      /\ workspace' = [workspace EXCEPT ![r] = me[r].id]
      /\ inflight' = [inflight EXCEPT ![r] = None]
  BY DEF CreateWorkspace
<1>2. /\ TypeOK /\ Local(r) /\ Served(r) /\ Own(r) /\ answer[r] = 0
      /\ user[r] = None /\ workspace[r] = None /\ r \in Id
  BY <1>1, OwnFacts
<1>3. me[r] # None /\ me[r] \in MeType /\ me[r].id \in Id
  BY <1>1, <1>2 DEF Local, Serving, TypeOK, MeType
<1>4. /\ pc' = [pc EXCEPT ![r] = "done"] /\ answer' = [answer EXCEPT ![r] = 200]
      /\ pc'[r] = "done" /\ answer'[r] = 200
  BY <1>1, <1>2 DEF CreateWorkspace, Reply, TypeOK
<1>5. workspace'[r] = me[r].id /\ inflight'[r] = None
  BY <1>1, <1>2 DEF TypeOK
<1>6. UserStep(r) /\ user' \in [Id -> Columns \union {None}]
  <2>1. CASE inflight[r] = None
    <3>1. user' = user
      BY <2>1 DEF CreateWorkspace
    <3> QED
      BY <1>1, <1>2, <3>1 DEF UserStep, TypeOK
  <2>2. CASE inflight[r] # None
    <3>1. user' = [user EXCEPT ![r] = inflight[r]]
      BY <2>2 DEF CreateWorkspace
    <3> QED
      BY <1>1, <1>2, <2>2, <3>1 DEF UserStep, Commits, TypeOK
  <2> QED
    BY <2>1, <2>2
<1>7. IsOwn(r, me[r].id)' /\ (user'[r] # None => me[r].id = r)
  <2>1. CASE inflight[r] = None
    <3>1. user' = user
      BY <2>1 DEF CreateWorkspace
    <3>2. IsOwn(r, me[r].id)
      BY <1>2, <1>3, <2>1 DEF Served
    <3> QED
      BY <1>1, <1>2, <3>1, <3>2 DEF IsOwn
  <2>2. CASE inflight[r] # None
    <3>1. user' = [user EXCEPT ![r] = inflight[r]]
      BY <2>2 DEF CreateWorkspace
    <3>2. me[r].id = r /\ user'[r] = New(r)
      BY <1>2, <2>2, <3>1 DEF Own, TypeOK
    <3>3. New(r).subject = ask[r].principal.subject /\ New(r) # None
      BY <1>2, NewRow, RowsAreNotNone
    <3> QED
      BY <1>1, <3>2, <3>3 DEF IsOwn
  <2> QED
    BY <2>1, <2>2
<1>8. Local(r)'
  BY <1>4 DEF Local, Serving
<1>9. Served(r)'
  BY <1>1, <1>7 DEF Served
<1>10. Own(r)'
  <2>1. me[r].id # None
    BY <1>3, RowsAreNotNone
  <2>2. IsOwn(r, workspace[r])'
    BY <1>1, <1>5, <1>7 DEF IsOwn
  <2> QED
    BY <1>1, <1>4, <1>5, <1>7, <2>1, <2>2 DEF Own
<1>11. Alone(r) /\ SettingsStep(r)
  <2>1. Alone(r)
    BY <1>1, <1>2, <1>4 DEF Alone, TypeOK
  <2> QED
    BY <1>1, <2>1 DEF SettingsStep
<1>12. TypeOK'
  <2>1. /\ workspace' \in [Request -> Id \union {None}]
        /\ inflight' \in [Request -> Columns \union {None}]
    BY <1>1, <1>2, <1>3 DEF TypeOK
  <2>2. pc' \in [Request -> Where]
    BY <1>2, <1>4 DEF TypeOK, Where
  <2>3. answer' \in [Request -> {0, 200, 201, 400, 401, 403, 404, 429, 500, 502, 504}]
    BY <1>2, <1>4 DEF TypeOK
  <2> QED
    BY <1>1, <1>2, <1>6, <2>1, <2>2, <2>3 DEF TypeOK, Where
<1> QED
  BY <1>1, <1>6, <1>8, <1>9, <1>10, <1>11, <1>12 DEF Step

LEMMA FailBootstrapStep ==
    ASSUME IInv, NEW r \in Request, ask[r].op = "signup", FailBootstrap(r)
    PROVE  Step(r) /\ TypeOK'
<1>1. /\ pc[r] # "done" /\ Reply(r, 500) /\ 500 \in Errors
      /\ UNCHANGED <<ask, me, loaded, user, settings, workspace>>
      /\ inflight' = [inflight EXCEPT ![r] = None]
  BY DEF FailBootstrap, Errors
<1>2. inflight \in [Request -> Columns \union {None}]
  BY DEF IInv, TypeOK
<1>3. inflight'[r] = None
  BY <1>1, <1>2
<1>4. Ends(r, 500)
  BY <1>1, <1>3 DEF Ends
<1> QED
  BY <1>1, <1>4, EndStep

LEMMA SignupStep ==
    ASSUME IInv, NEW r \in Request, Signup(r)
    PROVE  Step(r) /\ TypeOK'
BY SignUpStep, FindSignupStep, AddSignupStep, CreateWorkspaceStep, FailBootstrapStep DEF Signup
-----------------------------------------------------------------------------
(* Settings. *)

\* The columns a request leaves, over those of the row or the defaults.
LEMMA ColumnedFacts ==
    ASSUME TypeOK, NEW r \in Request, NEW i \in Id
    PROVE  /\ Columned(Before(i), r) \in [Field -> Request \union {None}]
           /\ Columned(Before(i), r) # None
           /\ Before(i) \in [Field -> Request \union {None}]
           /\ \A f \in Field : Columned(Before(i), r)[f] =
                  IF ask[r].op = "patch" /\ f \in ask[r].set THEN r ELSE Before(i)[f]
<1>1. Before(i) \in [Field -> Request \union {None}]
  BY DEF Before, Defaults, TypeOK
<1>2. Columned(Before(i), r) \in [Field -> Request \union {None}]
  BY <1>1 DEF Columned
<1>3. Columned(Before(i), r) # None
  BY <1>2, RowsAreNotNone
<1> QED
  BY <1>1, <1>2, <1>3 DEF Columned

\* A request writes its caller's row of settings and is answered.
LEMMA SetStep ==
    ASSUME IInv, NEW r \in Request, pc[r] \in {"settings", "default"},
           settings' = [settings EXCEPT ![me[r].id] = Columned(Before(me[r].id), r)],
           Reply(r, 200), UNCHANGED <<ask, me, loaded, inflight, user, workspace>>
    PROVE  Step(r) /\ TypeOK'
<1>1. pc[r] # "done" /\ pc[r] # "workspace"
  OBVIOUS
<1>2. /\ TypeOK /\ Local(r) /\ Served(r) /\ Own(r) /\ answer[r] = 0
      /\ inflight[r] = None /\ workspace[r] = None
  BY <1>1, OwnFacts
<1>3. me[r] # None /\ ask[r].op \in {"settings", "patch"} /\ me[r].id \in Id
  BY <1>2 DEF Local, Serving, TypeOK
<1>4. /\ pc' = [pc EXCEPT ![r] = "done"] /\ answer' = [answer EXCEPT ![r] = 200]
      /\ pc'[r] = "done" /\ answer'[r] = 200
  BY <1>2 DEF Reply, TypeOK
<1>5. Local(r)'
  BY <1>4 DEF Local, Serving
<1>6. Served(r)'
  BY <1>2, <1>3 DEF Served, IsOwn
<1>7. Own(r)'
  BY <1>2, <1>3 DEF Own, IsOwn, New
<1>8. Alone(r)
  BY <1>2, <1>4 DEF Alone, TypeOK
<1>9. UserStep(r)
  BY DEF UserStep
<1>10. SettingsStep(r)
  BY <1>3, <1>4 DEF SettingsStep
<1>11. TypeOK'
  <2>1. settings' \in [Id -> [Field -> Request \union {None}] \union {None}]
    BY <1>2, <1>3, ColumnedFacts DEF TypeOK
  <2>2. pc' \in [Request -> Where]
    BY <1>2, <1>4 DEF TypeOK, Where
  <2>3. answer' \in [Request -> {0, 200, 201, 400, 401, 403, 404, 429, 500, 502, 504}]
    BY <1>2, <1>4 DEF TypeOK
  <2> QED
    BY <1>2, <2>1, <2>2, <2>3 DEF TypeOK, Where
<1> QED
  BY <1>1, <1>5, <1>6, <1>7, <1>8, <1>9, <1>10, <1>11 DEF Step

LEMMA MySettingsStep ==
    ASSUME IInv, NEW r \in Request, MySettings(r)
    PROVE  Step(r) /\ TypeOK'
<1>1. /\ pc[r] \in {"settings", "default"} /\ pc[r] # "done" /\ pc[r] # "workspace"
      /\ ask' = ask /\ me' = me /\ UNCHANGED <<ask, me, loaded, inflight, user, workspace>>
  BY DEF MySettings, UpdateSettings, CreateForUser
<1>2. /\ TypeOK /\ Local(r) /\ answer[r] = 0 /\ inflight[r] = None
      /\ ask[r].op \in {"settings", "patch"}
  BY <1>1, OwnFacts DEF MySettings
<1>3. me[r] # None
  BY <1>1, <1>2 DEF Local, Serving
<1>4. CASE Goto(r, "default") /\ UNCHANGED settings
  <2>1. Learns(r) /\ Reads /\ "default" \in Where
    BY <1>1, <1>4 DEF Learns, Reads, Where
  <2>2. Goes(r, "default", 0) /\ pc'[r] = "default" /\ answer'[r] = 0
    BY <1>1, <1>2, <1>4, <2>1, GoesOn
  <2>3. Local(r)'
    BY <1>1, <1>2, <1>3, <2>2 DEF Local, Serving
  <2> QED
    BY <1>2, <2>1, <2>2, <2>3, MoveStep
<1>5. CASE Reply(r, 500) /\ UNCHANGED settings
  <2>1. 500 \in Errors /\ Ends(r, 500)
    BY <1>1, <1>2, <1>5 DEF Errors, Ends
  <2> QED
    BY <2>1, EndStep
<1>6. CASE /\ settings' = [settings EXCEPT ![me[r].id] = Columned(Before(me[r].id), r)]
           /\ Reply(r, 200)
  BY <1>1, <1>6, SetStep
<1>7. CASE UpdateSettings(r)
  BY <1>4, <1>5, <1>6, <1>7 DEF UpdateSettings, Before
<1>8. CASE CreateForUser(r)
  BY <1>5, <1>6, <1>8 DEF CreateForUser, Before
<1> QED
  BY <1>7, <1>8 DEF MySettings
-----------------------------------------------------------------------------
(* Administration. *)

LEMMA RequireAdminStep ==
    ASSUME IInv, NEW r \in Request, ask[r].op \in AdminOp, RequireAdmin(r)
    PROVE  Step(r) /\ TypeOK'
<1>1. pc[r] = "admin" /\ pc[r] # "done"
  BY DEF RequireAdmin, Refuse
<1>2. TypeOK /\ Local(r) /\ answer[r] = 0 /\ inflight[r] = None
  BY <1>1, OwnFacts
<1>3. me[r] # None /\ ask[r].op # "signup"
  BY <1>1, <1>2 DEF Local, Serving, AdminOp
<1>4. CASE me[r].role = "admin" /\ Goto(r, "find") /\ UNCHANGED <<ask, me, loaded, database>>
  <2>1. ask' = ask /\ me' = me /\ user' = user /\ Learns(r) /\ Reads /\ "find" \in Where
    BY <1>4 DEF Learns, Reads, Where, database
  <2>2. Goes(r, "find", 0) /\ pc'[r] = "find" /\ answer'[r] = 0
    BY <1>1, <1>2, <1>4, <2>1, GoesOn
  <2>3. Local(r)'
    BY <1>2, <1>3, <1>4, <2>1, <2>2 DEF Local, Serving
  <2> QED
    BY <1>2, <2>1, <2>2, <2>3, MoveStep
<1>5. CASE Refuse(r, "admin", 403)
  BY <1>5, RefuseStep DEF Where, Errors
<1> QED
  BY <1>4, <1>5 DEF RequireAdmin

LEMMA GetUserStep ==
    ASSUME IInv, NEW r \in Request, GetUser(r)
    PROVE  Step(r) /\ TypeOK'
<1>1. PICK code \in Errors \union {200} : Refuse(r, "find", code)
  <2>1. \E code \in {200, 404} : Refuse(r, "find", code)
    BY DEF GetUser, Refuse
  <2> QED
    BY <2>1 DEF Errors
<1>2. ask[r].op \notin {"patch", "signup"} /\ "find" \in Where \ {"done", "workspace"}
  BY DEF GetUser, Where
<1> QED
  BY <1>1, <1>2, RefuseStep

\* An administrator's request writes User i and is answered.
LEMMA AdminStep ==
    ASSUME IInv, NEW r \in Request, pc[r] \in {"find", "write"}, NEW code \in {200, 201},
           NEW i \in Id, NEW new \in Columns, Writes(r, i, new), Reply(r, code),
           ask' = ask, me' = me, code = 201 <=> ask[r].op = "create", i = r => code = 201
    PROVE  Step(r) /\ TypeOK'
<1>1. pc[r] # "done" /\ pc[r] # "workspace"
  OBVIOUS
<1>2. /\ TypeOK /\ Local(r) /\ Served(r) /\ Own(r) /\ answer[r] = 0 /\ workspace[r] = None
      /\ inflight[r] = None /\ r \in Id
  BY <1>1, OwnFacts
<1>3. ask[r].op \in AdminOp /\ ask[r].op \notin {"patch", "signup"}
  BY <1>2 DEF Local, AdminOp
<1>4. Goes(r, "done", code) /\ pc'[r] = "done" /\ answer'[r] = code /\ "done" \in Where
  BY <1>1, <1>2, <1>3, Answers
<1>5. Local(r)'
  BY <1>4 DEF Local, Serving
<1>6. \A j \in Id : IsOwn(r, j) => IsOwn(r, j)'
  <2>1. CASE i = r /\ Inserts(r, new)
    BY <1>2, <2>1 DEF Inserts, IsOwn, TypeOK
  <2>2. CASE Rewrites(r, i, new)
    <3>1. new # None
      BY RowsAreNotNone
    <3> QED
      BY <1>2, <2>2, <3>1 DEF Rewrites, IsOwn, TypeOK
  <2> QED
    BY <2>1, <2>2 DEF Writes
<1>7. Served(r)'
  <2>1. me[r] # None => me[r].id \in Id
    BY <1>2 DEF TypeOK
  <2> QED
    BY <1>2, <1>3, <1>6, <2>1 DEF Served
<1>8. Own(r)'
  <2>1. inflight'[r] = None /\ workspace'[r] = None
    BY <1>2 DEF Writes
  <2>2. user'[r] # None => user[r] # None \/ i = r
    BY <1>2 DEF Writes, Inserts, Rewrites, TypeOK
  <2>3. user[r] # None => IsOwn(r, r)' /\ me'[r] = [id |-> r, role |-> "membro"]
    BY <1>1, <1>2, <1>6, OwnFacts
  <2> QED
    BY <1>3, <1>4, <2>1, <2>2, <2>3 DEF Own
<1>9. MayMeet(r)
  BY DEF MayMeet
<1> QED
  BY <1>2, <1>4, <1>5, <1>7, <1>8, <1>9, WriteStep

LEMMA CreateUserStep ==
    ASSUME IInv, NEW r \in Request, CreateUser(r)
    PROVE  Step(r) /\ TypeOK'
<1>1. ask[r].op = "create" /\ pc[r] = "find" /\ pc[r] # "done" /\ pc[r] # "workspace"
  BY DEF CreateUser, Refuse
<1>2. TypeOK /\ Local(r) /\ answer[r] = 0 /\ inflight[r] = None /\ r \in Id
  BY <1>1, OwnFacts
<1>3. CASE /\ ~Waits(r, Given(r)) /\ ~Taken(r, Given(r))
           /\ user' = [user EXCEPT ![r] = Given(r)]
           /\ Reply(r, 201)
           /\ UNCHANGED <<ask, me, loaded, inflight, settings, workspace>>
  <2>1. Given(r) \in Columns /\ Given(r).role = ask[r].to.role
    BY <1>1, <1>2, GivenRow
  <2>2. me[r].role = "admin"
    BY <1>1, <1>2 DEF Local
  <2>3. user[r] = None
    <3>1. user[r] # None => me[r] = [id |-> r, role |-> "membro"]
      BY <1>1, OwnFacts
    <3> QED
      BY <2>2, <3>1
  <2>4. answer'[r] = 201
    BY <1>2, <1>3 DEF Reply, TypeOK
  <2>5. Granted(r, Given(r))
    BY <1>1, <1>2, <2>1, <2>2, <2>4 DEF Granted
  <2>6. Writes(r, r, Given(r))
    BY <1>3, <2>3, <2>5 DEF Writes, Inserts, Free
  <2> QED
    BY <1>1, <1>2, <1>3, <2>1, <2>6, AdminStep
<1>4. CASE Refuse(r, "find", 500)
  BY <1>4, RefuseStep DEF Where, Errors
<1> QED
  BY <1>3, <1>4 DEF CreateUser

\* session.get finds the User or not.
LEMMA LoadStep ==
    ASSUME IInv, NEW r \in Request, ask[r].op \in {"update", "delete"},
           Load(r, "find", ask[r].id, "write", 404)
    PROVE  Step(r) /\ TypeOK'
<1>1. pc[r] = "find" /\ pc[r] # "done" /\ pc[r] # "workspace"
  BY DEF Load
<1>2. TypeOK /\ Local(r) /\ answer[r] = 0 /\ inflight[r] = None /\ ask[r].id \in Id
  BY <1>1, OwnFacts, AskFacts
<1>3. CASE Reply(r, 404) /\ UNCHANGED loaded
  <2>1. Refuse(r, "find", 404)
    BY <1>3 DEF Refuse, Load
  <2> QED
    BY <2>1, RefuseStep DEF Where, Errors
<1>4. CASE /\ user[ask[r].id] # None /\ loaded' = [loaded EXCEPT ![r] = user[ask[r].id]]
           /\ Goto(r, "write")
  <2>1. ask' = ask /\ me' = me /\ user' = user /\ Reads /\ "write" \in Where
    BY DEF Load, Reads, Where, database
  <2>2. user[ask[r].id] \in Columns
    BY <1>2, <1>4 DEF TypeOK
  <2>3. Learns(r)
    BY <1>4, <2>1, <2>2 DEF Learns
  <2>4. loaded'[r] # None
    BY <1>2, <1>4 DEF TypeOK
  <2>5. Goes(r, "write", 0) /\ pc'[r] = "write" /\ answer'[r] = 0
    BY <1>1, <1>2, <1>4, <2>1, GoesOn
  <2>6. ask[r].op \in AdminOp /\ me[r] # None /\ me[r].role = "admin"
    BY <1>1, <1>2 DEF Local, Serving, AdminOp
  <2>7. Local(r)'
    BY <1>4, <2>1, <2>4, <2>5, <2>6 DEF Local, Serving
  <2> QED
    BY <1>2, <2>1, <2>3, <2>5, <2>7, MoveStep
<1> QED
  BY <1>3, <1>4 DEF Load

\* A User that the administrator's request has loaded is not the one that request inserted.
LEMMA WriteFacts ==
    ASSUME IInv, NEW r \in Request, pc[r] = "write"
    PROVE  /\ pc[r] # "done" /\ pc[r] # "workspace" /\ TypeOK /\ answer[r] = 0
           /\ ask[r].id \in Id /\ user[ask[r].id] \in Columns /\ user[ask[r].id] # None
           /\ ask[r].id # r /\ me[r].role = "admin"
<1>1. pc[r] # "done" /\ pc[r] # "workspace"
  OBVIOUS
<1>2. TypeOK /\ Local(r) /\ answer[r] = 0
  BY <1>1, OwnFacts
<1>3. ask[r].id \in Id /\ user[ask[r].id] # None /\ me[r].role = "admin"
  BY <1>2, AskFacts DEF Local
<1>4. user[ask[r].id] \in Columns
  BY <1>2, <1>3 DEF TypeOK
<1>5. ask[r].id # r
  <2>1. user[r] # None => me[r] = [id |-> r, role |-> "membro"]
    BY <1>1, OwnFacts
  <2> QED
    BY <1>3, <2>1
<1> QED
  BY <1>1, <1>2, <1>3, <1>4, <1>5

LEMMA UpdateUserStep ==
    ASSUME IInv, NEW r \in Request, UpdateUser(r)
    PROVE  Step(r) /\ TypeOK'
<1>1. ask[r].op = "update"
  BY DEF UpdateUser
<1>2. CASE Load(r, "find", ask[r].id, "write", 404)
  BY <1>1, <1>2, LoadStep
<1>3. CASE Refuse(r, "write", 500)
  BY <1>3, RefuseStep DEF Where, Errors
<1>4. ASSUME NEW new, new = Patched(user[ask[r].id], loaded[r], ask[r].to), pc[r] = "write",
             ~Waits(r, new), ~Taken(ask[r].id, new),
             user' = [user EXCEPT ![ask[r].id] = new], Reply(r, 200),
             UNCHANGED <<ask, me, loaded, inflight, settings, workspace>>
      PROVE  Step(r) /\ TypeOK'
  <2> DEFINE i == ask[r].id
  <2>1. /\ TypeOK /\ answer[r] = 0 /\ i \in Id /\ user[i] \in Columns /\ user[i] # None
        /\ i # r /\ me[r].role = "admin"
    BY <1>4, WriteFacts
  <2>2. ask[r].to \in [subject: Subject \union {None}, email: Email \union {None},
                       name: Name \union {None}, role: GlobalRole \union {None}]
    BY <2>1, AskFacts DEF Patch
  <2>3. /\ new \in Columns /\ new.subject = user[i].subject /\ new.deleted = user[i].deleted
        /\ new.role # user[i].role => new.role = ask[r].to.role
    BY <1>4, <2>1, <2>2, PatchedRow
  <2>4. answer'[r] = 200
    BY <1>4, <2>1 DEF Reply, TypeOK
  <2>5. new.role # user[i].role => Granted(r, new)
    BY <1>1, <2>1, <2>3, <2>4 DEF Granted
  <2>6. Rewrites(r, i, new)
    BY <1>4, <2>1, <2>3, <2>5 DEF Rewrites, Free
  <2>7. Writes(r, i, new)
    BY <1>4, <2>6 DEF Writes
  <2> HIDE DEF i
  <2> QED
    BY <1>1, <1>4, <2>1, <2>3, <2>7, AdminStep
<1> QED
  BY <1>2, <1>3, <1>4 DEF UpdateUser

LEMMA DeleteUserStep ==
    ASSUME IInv, NEW r \in Request, DeleteUser(r)
    PROVE  Step(r) /\ TypeOK'
<1>1. ask[r].op = "delete"
  BY DEF DeleteUser
<1>2. CASE Load(r, "find", ask[r].id, "write", 404)
  BY <1>1, <1>2, LoadStep
<1>3. CASE /\ pc[r] = "write" /\ Reply(r, 200)
           /\ user' = [user EXCEPT ![ask[r].id].deleted = TRUE]
           /\ UNCHANGED <<ask, me, loaded, inflight, settings, workspace>>
  <2> DEFINE i   == ask[r].id
             new == [user[i] EXCEPT !.deleted = TRUE]
  <2>1. TypeOK /\ i \in Id /\ user[i] \in Columns /\ user[i] # None /\ i # r
    BY <1>3, WriteFacts
  <2>2. /\ new \in Columns /\ new.subject = user[i].subject /\ new.deleted
        /\ new.role = user[i].role /\ new.email = user[i].email
    BY <2>1 DEF Columns
  <2>3. user' = [user EXCEPT ![i] = new]
    BY <1>3, <2>1 DEF TypeOK
  <2> HIDE DEF new
  <2>4. Rewrites(r, i, new)
    BY <2>1, <2>2, <2>3 DEF Rewrites
  <2>5. Writes(r, i, new)
    BY <1>3, <2>4 DEF Writes
  <2> HIDE DEF i
  <2> QED
    BY <1>1, <1>3, <2>1, <2>2, <2>5, AdminStep
<1> QED
  BY <1>2, <1>3 DEF DeleteUser

LEMMA NextStep ==
    ASSUME IInv, Next
    PROVE  TypeOK' /\ \E r \in Request : Step(r)
<1>1. PICK r \in Request : GetCurrentUser(r) \/ Signup(r) \/ MySettings(r) \/ Administration(r)
  BY DEF Next
<1>2. GetCurrentUser(r) => Step(r) /\ TypeOK'
  BY GetPrincipalStep, GetByExternalIdStep, AddUserStep, UpdateProfileStep DEF GetCurrentUser
<1>3. Administration(r) => Step(r) /\ TypeOK'
  BY RequireAdminStep, CreateUserStep, GetUserStep, UpdateUserStep, DeleteUserStep
     DEF Administration
<1> QED
  BY <1>1, <1>2, <1>3, SignupStep, MySettingsStep
-----------------------------------------------------------------------------
(* What the step of a request keeps. *)

\* A User stays, with its subject, and is not restored; only the request's own row is new.
LEMMA UsersKept ==
    ASSUME TypeOK, NEW r \in Request, UserStep(r)
    PROVE  /\ \A i \in Id : user[i] # None =>
                  /\ user'[i] # None /\ user'[i].subject = user[i].subject
                  /\ user[i].deleted => user'[i].deleted
           /\ \A i \in Id \ {r} : user[i] = None => user'[i] = None
<1>1. CASE user' = user
  BY <1>1
<1>2. CASE Commits(r)
  BY <1>2 DEF Commits, TypeOK
<1>3. ASSUME NEW new \in Columns, Inserts(r, new)
      PROVE  /\ \A i \in Id : user[i] # None => user'[i] = user[i]
             /\ \A i \in Id \ {r} : user[i] = None => user'[i] = None
  BY <1>3 DEF Inserts, TypeOK
<1>4. ASSUME NEW new \in Columns, NEW j \in Id, Rewrites(r, j, new)
      PROVE  /\ \A i \in Id : user[i] # None =>
                    /\ user'[i] # None /\ user'[i].subject = user[i].subject
                    /\ user[i].deleted => user'[i].deleted
             /\ \A i \in Id : user[i] = None => user'[i] = None
  <2>1. new # None
    BY RowsAreNotNone
  <2> QED
    BY <1>4, <2>1 DEF Rewrites, TypeOK
<1> QED
  BY <1>1, <1>2, <1>3, <1>4 DEF UserStep, Begins

LEMMA OthersKept ==
    ASSUME IInv, NEW r \in Request, Step(r), NEW q \in Request \ {r}
    PROVE  Local(q)' /\ Served(q)' /\ Own(q)'
<1>1. TypeOK /\ Local(q) /\ Served(q) /\ Own(q) /\ q \in Id
  BY DEF IInv, Requests, Id
<1>2. /\ ask' = ask /\ pc'[q] = pc[q] /\ me'[q] = me[q] /\ loaded'[q] = loaded[q]
      /\ answer'[q] = answer[q] /\ inflight'[q] = inflight[q] /\ workspace'[q] = workspace[q]
  BY DEF Step, Alone
<1>3. /\ \A i \in Id : user[i] # None =>
             user'[i] # None /\ user'[i].subject = user[i].subject
      /\ user'[q] # None <=> user[q] # None
  BY <1>1, UsersKept DEF Step
<1>4. \A i \in Id : IsOwn(q, i) => IsOwn(q, i)'
  BY <1>2, <1>3 DEF IsOwn
<1>5. Local(q)'
  <2>1. ask[q].op \in {"update", "delete"} => ask[q].id \in Id
    BY <1>1, AskFacts
  <2> QED
    BY <1>1, <1>2, <1>3, <2>1 DEF Local
<1>6. Served(q)'
  <2>1. me[q] # None => me[q].id \in Id
    BY <1>1 DEF TypeOK
  <2> QED
    BY <1>1, <1>2, <1>4, <2>1 DEF Served
<1>7. Own(q)'
  <2>1. New(q)' = New(q)
    BY <1>2 DEF New
  <2>2. workspace[q] # None => workspace[q] \in Id
    BY <1>1 DEF TypeOK
  <2>3. workspace[q] # None => IsOwn(q, workspace[q])'
    BY <1>1, <1>2, <1>4, <2>2 DEF Own, IsOwn
  <2> QED
    BY <1>1, <1>2, <1>3, <1>4, <2>1, <2>3 DEF Own
<1> QED
  BY <1>5, <1>6, <1>7

LEMMA ClashIsMutual ==
    ASSUME NEW u, NEW v
    PROVE  Clash(u, v) <=> Clash(v, u)
BY DEF Clash

\* Who waited for nobody and took nobody's place stays alone.
LEMMA UniqueKept ==
    ASSUME IInv, TypeOK', NEW r \in Request, Step(r)
    PROVE  OneUserPerSubject'
<1>1. TypeOK /\ OneUserPerSubject /\ r \in Id /\ UserStep(r) /\ Own(r) /\ Own(r)'
  BY DEF IInv, Requests, Step, Id
<1>2. \A q \in Request \ {r} : inflight'[q] = inflight[q]
  BY DEF Step, Alone
<1>3. CASE user' = user /\ inflight' \in {inflight, [inflight EXCEPT ![r] = None]}
  <2>1. \A q \in Request : inflight'[q] # None => inflight'[q] = inflight[q]
    BY <1>1, <1>3 DEF TypeOK
  <2> QED
    BY <1>1, <1>3, <2>1 DEF OneUserPerSubject, Waits
<1>4. ASSUME NEW new \in Columns, Begins(r, new)
      PROVE  OneUserPerSubject'
  <2>1. inflight'[r] = new /\ user' = user /\ new # None
    BY <1>1, <1>4, RowsAreNotNone DEF Begins, TypeOK
  <2>2. user[r] = None
    BY <1>1, <2>1 DEF Own
  <2>3. \A i \in Id : user[i] # None => ~Clash(new, user[i])
    BY <1>4, <2>2 DEF Begins, Free, Taken
  <2>4. \A q \in Request \ {r} : inflight[q] # None => ~Clash(new, inflight[q]) /\ ~Clash(inflight[q], new)
    BY <1>4, ClashIsMutual DEF Begins, Free, Waits
  <2> QED
    BY <1>1, <1>2, <2>1, <2>3, <2>4 DEF OneUserPerSubject, Waits
<1>5. CASE Commits(r)
  <2>1. /\ user'[r] = inflight[r] /\ inflight'[r] = None /\ inflight[r] # None
        /\ \A i \in Id \ {r} : user'[i] = user[i]
    BY <1>1, <1>5 DEF Commits, TypeOK
  <2>2. \A i \in Id : user[i] # None => ~Clash(inflight[r], user[i]) /\ ~Clash(user[i], inflight[r])
    BY <1>1, <2>1, ClashIsMutual DEF OneUserPerSubject
  <2>3. \A q \in Request \ {r} : inflight[q] # None => ~Clash(inflight[q], inflight[r])
    BY <1>1, <2>1 DEF OneUserPerSubject, Waits
  <2> QED
    BY <1>1, <1>2, <2>1, <2>2, <2>3 DEF OneUserPerSubject, Waits
<1>6. ASSUME NEW new \in Columns, NEW i \in Id, Free(r, i, new), inflight[r] = None,
             inflight' = inflight, user' = [user EXCEPT ![i] = new]
      PROVE  OneUserPerSubject'
  <2>1. user'[i] = new /\ \A j \in Id \ {i} : user'[j] = user[j]
    BY <1>1, <1>6 DEF TypeOK
  <2>2. \A j \in Id \ {i} : user[j] # None => ~Clash(new, user[j]) /\ ~Clash(user[j], new)
    BY <1>6, ClashIsMutual DEF Free, Taken
  <2>3. \A q \in Request : inflight[q] # None => ~Clash(inflight[q], new)
    BY <1>6, ClashIsMutual DEF Free, Waits
  <2> QED
    BY <1>1, <1>6, <2>1, <2>2, <2>3 DEF OneUserPerSubject, Waits
<1>7. ASSUME NEW new \in Columns, NEW i \in Id, user[i] # None, new.subject = user[i].subject,
             new.email = user[i].email, inflight' = inflight, user' = [user EXCEPT ![i] = new]
      PROVE  OneUserPerSubject'
  <2>1. user'[i] = new /\ \A j \in Id \ {i} : user'[j] = user[j]
    BY <1>1, <1>7 DEF TypeOK
  <2>2. \A v : Clash(new, v) <=> Clash(user[i], v)
    BY <1>7 DEF Clash
  <2>3. \A v : Clash(v, new) <=> Clash(v, user[i])
    BY <2>2, ClashIsMutual
  <2> QED
    BY <1>1, <1>7, <2>1, <2>2, <2>3 DEF OneUserPerSubject, Waits
<1> QED
  BY <1>1, <1>3, <1>4, <1>5, <1>6, <1>7 DEF UserStep, Inserts, Rewrites

\* Rows of settings only gain columns, set by the request that is answered with 200.
LEMMA SettingsKeptByStep ==
    ASSUME IInv, TypeOK', NEW r \in Request, Step(r)
    PROVE  SettingsOwned' /\ \A q \in Request : HasSet(q)'
<1>1. /\ TypeOK /\ SettingsOwned /\ answer[r] = 0 /\ ask' = ask /\ SettingsStep(r)
      /\ \A q \in Request : HasSet(q)
  <2>1. answer[r] = 0
    BY OwnFacts DEF Step
  <2> QED
    BY <2>1 DEF IInv, Requests, Step, Alone
<1>2. \A q \in Request \ {r} : me'[q] = me[q] /\ answer'[q] = answer[q]
  BY DEF Step, Alone
<1>3. \A i \in Id, f \in Field, q \in Request : SetBy(i, f, q) => SetBy(i, f, q)'
  <2> SUFFICES ASSUME NEW i \in Id, NEW f \in Field, NEW q \in Request, SetBy(i, f, q)
               PROVE  SetBy(i, f, q)'
    OBVIOUS
  <2>1. q # r
    BY <1>1 DEF SetBy
  <2> QED
    BY <1>1, <1>2, <2>1 DEF SetBy
<1>4. \A i \in Id, f \in Field : settings[i] # None => settings[i][f] \in Request \union {None}
  BY <1>1 DEF TypeOK
<1>5. CASE settings' = settings /\ (ask[r].op = "patch" => answer'[r] # 200)
  <2>1. SettingsOwned'
    <3> SUFFICES ASSUME NEW i \in Id, NEW f \in Field, settings[i] # None, settings[i][f] # None
                 PROVE  SetBy(i, f, settings[i][f])'
      BY <1>5 DEF SettingsOwned
    <3>1. PICK q \in Request : q = settings[i][f]
      BY <1>4
    <3>2. SetBy(i, f, q)
      BY <1>1, <3>1 DEF SettingsOwned
    <3>3. SetBy(i, f, q)'
      BY <1>3, <3>2
    <3> QED
      BY <1>5, <3>1, <3>3 DEF SetBy
  <2>2. \A q \in Request : HasSet(q)'
    BY <1>1, <1>2, <1>5 DEF HasSet
  <2> QED
    BY <2>1, <2>2
<1>6. CASE /\ answer'[r] = 200 /\ me[r] # None /\ me' = me
           /\ settings' = [settings EXCEPT ![me[r].id] = Columned(Before(me[r].id), r)]
  <2>1. PICK j \in Id : j = me[r].id
    BY <1>1, <1>6 DEF TypeOK
  <2>2. /\ Columned(Before(j), r) # None
        /\ \A f \in Field : Columned(Before(j), r)[f] =
               IF ask[r].op = "patch" /\ f \in ask[r].set THEN r ELSE Before(j)[f]
    BY <1>1, ColumnedFacts
  <2>3. /\ settings'[j] = Columned(Before(j), r)
        /\ \A i \in Id \ {j} : settings'[i] = settings[i]
    BY <1>1, <1>6, <2>1 DEF TypeOK
  <2>4. \A f \in Field : Before(j)[f] = IF settings[j] = None THEN None ELSE settings[j][f]
    BY DEF Before, Defaults
  <2>5. r # None /\ ask[r].set \subseteq Field
    BY <1>1, AskFacts, RowsAreNotNone DEF Id
  <2>6. SettingsOwned'
    <3> SUFFICES ASSUME NEW i \in Id, NEW f \in Field, settings'[i] # None, settings'[i][f] # None
                 PROVE  SetBy(i, f, settings[i][f])'
      BY DEF SettingsOwned
    <3>1. CASE i = j /\ ask[r].op = "patch" /\ f \in ask[r].set
      <4>1. settings'[i][f] = r
        BY <2>2, <2>3, <3>1
      <4>2. SetBy(i, f, r)'
        BY <1>1, <1>6, <2>1, <3>1 DEF SetBy
      <4> QED
        BY <4>1, <4>2 DEF SetBy
    <3>2. CASE ~(i = j /\ ask[r].op = "patch" /\ f \in ask[r].set)
      <4>1. settings[i] # None /\ settings[i][f] # None /\ settings'[i][f] = settings[i][f]
        BY <2>2, <2>3, <2>4, <3>2
      <4>2. PICK q \in Request : q = settings[i][f]
        BY <1>4, <4>1
      <4>3. SetBy(i, f, q)
        BY <1>1, <4>1, <4>2 DEF SettingsOwned
      <4>4. SetBy(i, f, q)'
        BY <1>3, <4>3
      <4> QED
        BY <4>1, <4>2, <4>4 DEF SetBy
    <3> QED
      BY <3>1, <3>2
  <2>7. \A i \in Id, f \in Field : settings[i] # None /\ settings[i][f] # None =>
            settings'[i][f] # None
    BY <2>2, <2>3, <2>4, <2>5
  <2>8. \A i \in Id : settings[i] # None => settings'[i] # None
    BY <2>2, <2>3
  <2>9. HasSet(r)'
    BY <1>1, <1>6, <2>1, <2>2, <2>3, <2>5 DEF HasSet
  <2>10. ASSUME NEW q \in Request \ {r}
         PROVE  HasSet(q)'
    <3>1. me[q] # None => me[q].id \in Id
      BY <1>1 DEF TypeOK
    <3>2. ask[q].set \subseteq Field
      BY <1>1, AskFacts
    <3> QED
      BY <1>1, <1>2, <2>7, <2>8, <3>1, <3>2 DEF HasSet
  <2> QED
    BY <2>6, <2>9, <2>10
<1> QED
  BY <1>1, <1>5, <1>6 DEF SettingsStep
-----------------------------------------------------------------------------
(* The invariant. *)

LEMMA InitInv == Init => IInv
<1> SUFFICES ASSUME Init PROVE IInv
  OBVIOUS
<1>1. TypeOK
  BY UsersAssumption DEF Init, TypeOK
<1>2. OneUserPerSubject
  BY UsersAssumption DEF Init, OneUserPerSubject
<1>3. Requests
  <2> SUFFICES ASSUME NEW r \in Request
               PROVE  Local(r) /\ Served(r) /\ Own(r) /\ HasSet(r)
    BY DEF Requests
  <2>1. /\ pc[r] = "start" /\ me[r] = None /\ answer[r] = 0 /\ inflight[r] = None
        /\ workspace[r] = None /\ user[r] = None
    BY UsersAssumption DEF Init
  <2> QED
    BY <2>1 DEF Local, Served, Own, HasSet, Serving
<1>4. SettingsOwned
  BY DEF Init, SettingsOwned
<1> QED
  BY <1>1, <1>2, <1>3, <1>4 DEF IInv

LEMMA StepInv == IInv /\ [Next]_vars => IInv'
<1>1. ASSUME IInv, Next PROVE IInv'
  <2>1. TypeOK' /\ \E r \in Request : Step(r)
    BY <1>1, NextStep
  <2>2. PICK r \in Request : Step(r)
    BY <2>1
  <2>3. OneUserPerSubject'
    BY <1>1, <2>1, <2>2, UniqueKept
  <2>4. SettingsOwned' /\ \A q \in Request : HasSet(q)'
    BY <1>1, <2>1, <2>2, SettingsKeptByStep
  <2>5. \A q \in Request : Local(q)' /\ Served(q)' /\ Own(q)'
    BY <1>1, <2>2, OthersKept DEF Step
  <2> QED
    BY <2>1, <2>3, <2>4, <2>5 DEF IInv, Requests
<1>2. ASSUME IInv, UNCHANGED vars PROVE IInv'
  BY <1>2 DEF vars, request, database, IInv, TypeOK, OneUserPerSubject, Requests, SettingsOwned,
              Local, Served, Own, HasSet, IsOwn, SetBy, New, Waits
<1> QED
  BY <1>1, <1>2

\* Every reachable state satisfies the invariant.
THEOREM Invariance == Spec => []IInv
BY InitInv, StepInv, PTL DEF Spec
-----------------------------------------------------------------------------
(* What it gives. *)

\* Every column, role, response and place of a request is one of those named.
THEOREM TypeCorrect == Spec => []TypeOK
<1>1. IInv => TypeOK
  BY DEF IInv
<1> QED
  BY <1>1, Invariance, PTL

\* A subject has one User, and an email one, however first requests and signups overlap.
THEOREM UniqueUsers == Spec => []OneUserPerSubject
<1>1. IInv => OneUserPerSubject
  BY DEF IInv
<1> QED
  BY <1>1, Invariance, PTL

\* A signup succeeds with its Workspace and its User, or leaves neither.
THEOREM WholeSignups == Spec => []SignupWhole
<1>1. IInv => SignupWhole
  <2> SUFFICES ASSUME IInv, NEW r \in Request, ask[r].op = "signup"
               PROVE  /\ answer[r] = 200 <=> workspace[r] # None
                      /\ user[r] # None => workspace[r] = r
                      /\ workspace[r] # None =>
                             /\ user[workspace[r]] # None
                             /\ user[workspace[r]].subject = ask[r].principal.subject
    BY DEF SignupWhole
  <2>1. Own(r)
    BY DEF IInv, Requests
  <2> QED
    BY <2>1 DEF Own, IsOwn
<1> QED
  BY <1>1, Invariance, PTL

\* An error leaves no Workspace, no settings, nothing uncommitted, and no User but the
\* one that was committed for the caller.
THEOREM NothingOfRefused == Spec => []RefusedLeavesNothing
<1>1. IInv => RefusedLeavesNothing
  <2> SUFFICES ASSUME IInv, NEW r \in Request, answer[r] >= 400
               PROVE  /\ inflight[r] = None /\ workspace[r] = None
                      /\ \A i \in Id : settings[i] # None => \A f \in Field : settings[i][f] # r
                      /\ user[r] # None => /\ ask[r].op # "signup"
                                           /\ user[r].subject = ask[r].principal.subject
    BY DEF RefusedLeavesNothing
  <2>1. TypeOK /\ Local(r) /\ Own(r) /\ SettingsOwned
    BY DEF IInv, Requests
  <2>2. answer[r] # 0 /\ answer[r] # 200 /\ answer[r] # 201
    OBVIOUS
  <2>3. pc[r] = "done"
    BY <2>1, <2>2 DEF Local
  <2>4. inflight[r] = None /\ workspace[r] = None
    BY <2>1, <2>2, <2>3 DEF Own
  <2>5. r # None
    BY RowsAreNotNone DEF Id
  <2>6. \A i \in Id : settings[i] # None => \A f \in Field : settings[i][f] # r
    BY <2>1, <2>2, <2>5 DEF SettingsOwned, SetBy
  <2>7. user[r] # None => ask[r].op # "signup" /\ user[r].subject = ask[r].principal.subject
    BY <2>1, <2>2, <2>4, <2>5 DEF Own, IsOwn
  <2> QED
    BY <2>4, <2>6, <2>7
<1> QED
  BY <1>1, Invariance, PTL

\* The columns of an accepted PATCH are its caller's until the caller sets them again.
THEOREM KeptSettings == Spec => []SettingsKept
<1>1. IInv => SettingsKept
  <2> SUFFICES ASSUME IInv, NEW r \in Request, ask[r].op = "patch", answer[r] = 200
               PROVE  /\ user[me[r].id] # None /\ user[me[r].id].subject = ask[r].principal.subject
                      /\ settings[me[r].id] # None
                      /\ \A f \in ask[r].set :
                             LET last == settings[me[r].id][f]
                             IN  /\ last \in Request /\ f \in ask[last].set /\ answer[last] = 200
                                 /\ ask[last].op = "patch"
                                 /\ ask[last].principal.subject = ask[r].principal.subject
    BY DEF SettingsKept
  <2>1. TypeOK /\ Served(r) /\ HasSet(r) /\ SettingsOwned
    BY DEF IInv, Requests
  <2>2. /\ me[r] # None /\ settings[me[r].id] # None
        /\ \A f \in ask[r].set : settings[me[r].id][f] # None
    BY <2>1 DEF HasSet
  <2>3. PICK i \in Id : i = me[r].id
    BY <2>1, <2>2 DEF TypeOK
  <2>4. IsOwn(r, i)
    BY <2>1, <2>2, <2>3 DEF Served
  <2>5. ASSUME NEW f \in ask[r].set
        PROVE  \E last \in Request :
                   /\ last = settings[i][f] /\ f \in ask[last].set /\ answer[last] = 200
                   /\ ask[last].op = "patch"
                   /\ ask[last].principal.subject = ask[r].principal.subject
    <3>1. f \in Field /\ settings[i] # None /\ settings[i][f] # None
      BY <2>1, <2>2, <2>3, AskFacts
    <3>2. PICK last \in Request : last = settings[i][f]
      BY <2>1, <3>1 DEF TypeOK
    <3>3. SetBy(i, f, last)
      BY <2>1, <3>1, <3>2 DEF SettingsOwned
    <3>4. IsOwn(last, i)
      BY <3>3 DEF SetBy, IInv, Requests, Served
    <3> QED
      BY <2>4, <3>2, <3>3, <3>4 DEF SetBy, IsOwn
  <2> QED
    BY <2>2, <2>3, <2>4, <2>5 DEF IsOwn
<1> QED
  BY <1>1, Invariance, PTL

\* A role other than membro is granted by an administrator's accepted request for it.
THEOREM GrantedRoles == Spec => RolesGrantedByAdmins
<1> DEFINE Grants == \A i \in Id :
          user'[i] # None /\ user'[i].role # (IF user[i] = None THEN "membro" ELSE user[i].role) =>
              \E r \in Request :
                  /\ ask[r].op \in {"create", "update"}
                  /\ answer[r] = 0 /\ answer'[r] \in {200, 201}
                  /\ me[r].role = "admin"
                  /\ ask[r].to.role = user'[i].role
<1>1. IInv /\ [Next]_vars => [Grants]_vars
  <2> SUFFICES ASSUME IInv, Next PROVE Grants
    OBVIOUS
  <2>1. PICK r \in Request : Step(r)
    BY NextStep
  <2>2. TypeOK /\ UserStep(r) /\ Own(r)
    BY <2>1 DEF IInv, Requests, Step
  <2>3. CASE user' = user
    BY <2>3
  <2>4. CASE Commits(r)
    <3>1. inflight[r].role = "membro"
      BY <2>2, <2>4, NewRow DEF Commits, Own
    <3> QED
      BY <2>2, <2>4, <3>1 DEF Commits, TypeOK
  <2>5. ASSUME NEW new \in Columns, Inserts(r, new)
        PROVE  Grants
    <3> SUFFICES ASSUME NEW i \in Id, user'[i] # None,
                        user'[i].role # (IF user[i] = None THEN "membro" ELSE user[i].role)
                 PROVE  \E q \in Request : Granted(q, user'[i])
      BY DEF Granted
    <3>1. i = r /\ user'[i] = new /\ user[i] = None
      BY <2>2, <2>5 DEF Inserts, TypeOK
    <3> QED
      BY <2>5, <3>1 DEF Inserts
  <2>6. ASSUME NEW new \in Columns, NEW j \in Id, Rewrites(r, j, new)
        PROVE  Grants
    <3> SUFFICES ASSUME NEW i \in Id, user'[i] # None,
                        user'[i].role # (IF user[i] = None THEN "membro" ELSE user[i].role)
                 PROVE  \E q \in Request : Granted(q, user'[i])
      BY DEF Granted
    <3>1. i = j /\ user'[i] = new /\ user[i] # None
      BY <2>2, <2>6 DEF Rewrites, TypeOK
    <3> QED
      BY <2>6, <3>1 DEF Rewrites
  <2> QED
    BY <2>2, <2>3, <2>4, <2>5, <2>6 DEF UserStep, Begins
<1>2. Spec => [][Grants]_vars
  BY <1>1, Invariance, PTL DEF Spec
<1> QED
  BY <1>2 DEF RolesGrantedByAdmins

\* A deleted User stays deleted, and nobody else gets its subject.
THEOREM FinalDeletion == Spec => DeletionIsFinal
<1> DEFINE Final == \A i \in Id : user[i] # None /\ user[i].deleted =>
          /\ user'[i] # None /\ user'[i].deleted /\ user'[i].subject = user[i].subject
          /\ \A j \in Id \ {i} : user'[j] # None => user'[j].subject # user[i].subject
<1>1. IInv /\ [Next]_vars => [Final]_vars
  <2> SUFFICES ASSUME IInv, Next PROVE Final
    OBVIOUS
  <2>1. PICK r \in Request : Step(r)
    BY NextStep
  <2>2. TypeOK /\ UserStep(r)
    BY <2>1 DEF IInv, Step
  <2>3. OneUserPerSubject'
    BY <2>1, NextStep, UniqueKept
  <2>4. \A i \in Id : user[i] # None =>
            /\ user'[i] # None /\ user'[i].subject = user[i].subject
            /\ user[i].deleted => user'[i].deleted
    BY <2>2, UsersKept
  <2>5. \A i, j \in Id : i # j /\ user'[i] # None /\ user'[j] # None =>
            user'[i].subject # user'[j].subject
    BY <2>3 DEF OneUserPerSubject, Clash
  <2> QED
    BY <2>4, <2>5
<1>2. Spec => [][Final]_vars
  BY <1>1, Invariance, PTL DEF Spec
<1> QED
  BY <1>2 DEF DeletionIsFinal
=====================================================================================
