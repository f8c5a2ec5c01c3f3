---------------------------------- MODULE Accounts ----------------------------------
(***************************************************************************)
(* The Users behind Principals: get_current_user, which provisions and     *)
(* refreshes them on every request, signup with its first Workspace, the   *)
(* Settings of a User and the administration of Users.                     *)
(*                                                                         *)
(* One step is one statement of a request's transaction (READ COMMITTED)   *)
(* or its call of Supabase.  A statement that writes is one step with the  *)
(* commit that follows it, except in signup, which writes in several and   *)
(* holds its new User uncommitted meanwhile.  A request inserts at most    *)
(* one User and one Workspace, which are named by it.                      *)
(***************************************************************************)
EXTENDS Integers

CONSTANTS Request,        \* executions of the endpoints
          Seed,           \* Users that are there when they begin
          Subject, Email, Name,
          Field,          \* columns of settings
          NotNull,        \* those that a PATCH may name as null although they are NOT NULL
          None,           \* SQL NULL, or a row that is not there
          Asks,           \* what the requests may ask for
          Users,          \* the Users at first
          AuthRequired,   \* the setting AUTH_REQUIRED
          SignupErrors    \* how Supabase may refuse a signup

GlobalRole == {"admin", "gestor", "membro"}
Id == Request \union Seed

Principal == [subject: Subject, email: Email \union {None}, name: Name \union {None}]

\* deleted stands for deleted_at IS NOT NULL.
Columns == [subject: Subject, email: Email \union {None}, name: Name \union {None},
            role: GlobalRole, deleted: BOOLEAN]

\* The columns an endpoint sets; None where the request leaves one out.
Patch == [subject: Subject \union {None}, email: Email \union {None}, name: Name \union {None},
          role: GlobalRole \union {None}]

\* verdict is what the verifier makes of the token; that of a signup is not asked for.
Verdict == {"valid", "absent", "expired", "invalid", "misconfigured"}
AdminOp == {"get", "create", "update", "delete"}
Ask == [op: {"me", "settings", "patch", "signup"} \union AdminOp, verdict: Verdict,
        principal: Principal, id: Id \union {None}, to: Patch,
        set: SUBSET Field, null: SUBSET Field]   \* columns of settings, and which of them to NULL

\* What the schemas of the administration endpoints require.
IsComplete(a) ==
    /\ a.op = "create" => a.to.subject # None /\ a.to.role # None
    /\ a.op \in {"get", "update", "delete"} => a.id # None

\* The response to an error of Supabase Auth.
SignupErrorCode == [configuration |-> 500, rejected |-> 400, rate_limited |-> 429,
                    invalid_response |-> 502, timeout |-> 504, upstream |-> 502]

\* Two Users whose external_id or email is the same, deleted or not.
Clash(u, v) == u.subject = v.subject \/ (u.email # None /\ u.email = v.email)

ASSUME NoneAssumption ==
    None \notin Id \union Subject \union Email \union Name \union GlobalRole \union Columns
                \union [id: Id, role: GlobalRole] \union [Field -> Request \union {None}]
ASSUME IdAssumption == Request \intersect Seed = {}
ASSUME AsksAssumption ==
    /\ Asks \subseteq Ask
    /\ \A a \in Asks : IsComplete(a) /\ a.null \subseteq a.set
ASSUME UsersAssumption ==
    /\ Users \in [Id -> Columns \union {None}]
    /\ \A r \in Request : Users[r] = None
    /\ \A i, j \in Id : i # j /\ Users[i] # None /\ Users[j] # None => ~Clash(Users[i], Users[j])
ASSUME FieldAssumption == NotNull \subseteq Field
ASSUME SettingsAssumption == AuthRequired \in BOOLEAN /\ SignupErrors \subseteq DOMAIN SignupErrorCode

VARIABLES pc,         \* where each request is
          ask,        \* what it asks for
          me,         \* the id and Global Role in the UserRecord it is served for
          loaded,     \* the User it is about to change, as session.get has read it
          answer,     \* the status code of its response
          inflight,   \* the User it has inserted and not committed
          user,       \* the table users
          settings,   \* the table settings: the request that last set each column of a User's
          workspace   \* the owner of the Workspace each signup has made

request  == <<pc, ask, me, loaded, answer>>
database == <<inflight, user, settings, workspace>>
vars     == <<request, database>>

Init == /\ pc = [r \in Request |-> "start"]
        /\ ask \in [Request -> Asks]
        /\ me = [r \in Request |-> None]
        /\ loaded = [r \in Request |-> None]
        /\ answer = [r \in Request |-> 0]
        /\ inflight = [r \in Request |-> None]
        /\ user = Users
        /\ settings = [i \in Id |-> None]
        /\ workspace = [r \in Request |-> None]
-----------------------------------------------------------------------------
(* What the database says. *)

\* The User a statement finds for the request's Principal, deleted ones included.
ByExternalId(r) == {i \in Id : user[i] # None /\ user[i].subject = ask[r].principal.subject}

\* A unique constraint refuses the row u under id i; it waits first for rows that
\* may yet be committed.
WaitsForSubject(r, u) == \E q \in Request \ {r} : inflight[q] # None /\ u.subject = inflight[q].subject
Waits(r, u) == \E q \in Request \ {r} : inflight[q] # None /\ Clash(u, inflight[q])
TakenByLive(i, u) == \E j \in Id \ {i} : user[j] # None /\ ~user[j].deleted /\ Clash(u, user[j])
Taken(i, u) == \E j \in Id \ {i} : user[j] # None /\ Clash(u, user[j])

\* The row that the UPDATE of a loaded User leaves: a column is written when it was
\* given and is not what was loaded.
Changed(given, old) == given # None /\ given # old
Overwritten(now, old, to) ==
    [old EXCEPT !.email = IF to.email # None THEN to.email ELSE @,
                !.name  = IF to.name # None THEN to.name ELSE @,
                !.role  = IF to.role # None THEN to.role ELSE @]
AllPatched(now, old, to) == [now EXCEPT !.email = to.email, !.name = to.name, !.role = to.role]
Patched(now, old, to) ==
    [now EXCEPT !.email = IF Changed(to.email, old.email) THEN to.email ELSE @,
                !.name  = IF Changed(to.name, old.name) THEN to.name ELSE @,
                !.role  = IF Changed(to.role, old.role) THEN to.role ELSE @]
-----------------------------------------------------------------------------
(* The steps the endpoints are made of. *)

Goto(r, where) ==
    /\ pc' = [pc EXCEPT ![r] = where]
    /\ UNCHANGED answer

Reply(r, code) ==
    /\ pc' = [pc EXCEPT ![r] = "done"]
    /\ answer' = [answer EXCEPT ![r] = code]

\* get_current_user returns User i with Global Role role, and the endpoint begins.
Serve(r, i, role) ==
    /\ me' = [me EXCEPT ![r] = [id |-> i, role |-> role]]
    /\ IF ask[r].op = "me" THEN Reply(r, 200)
       ELSE Goto(r, IF ask[r].op \in AdminOp THEN "admin" ELSE "settings")

\* Raises an error that no handler of get_current_user or the endpoint catches.
Refuse(r, here, code) ==
    /\ pc[r] = here
    /\ Reply(r, code)
    /\ UNCHANGED <<ask, me, loaded, database>>

\* session.get of User i, which must be there.
Load(r, here, i, next, code) ==
    /\ pc[r] = here
    /\ IF user[i] # None /\ ~user[i].deleted
       THEN loaded' = [loaded EXCEPT ![r] = user[i]] /\ Goto(r, next)
       ELSE Reply(r, code) /\ UNCHANGED loaded
    /\ UNCHANGED <<ask, me, database>>
-----------------------------------------------------------------------------
(* get_principal and get_current_user. *)

GetPrincipal(r) ==
    /\ ask[r].op # "signup"
    /\ \/ /\ pc[r] = "start" /\ ask[r].verdict = "valid"
          /\ Goto(r, "lookup")
          /\ UNCHANGED <<ask, me, loaded, database>>
       \/ /\ ask[r].verdict # "valid"
          /\ Refuse(r, "start", IF ask[r].verdict = "misconfigured" /\ AuthRequired THEN 500 ELSE 401)

\* The token knows another email or display name than the User.
Refreshes(r, i) ==
    \/ Changed(ask[r].principal.email, user[i].email)
    \/ Changed(ask[r].principal.name, user[i].name)

GetByExternalId(r) ==
    /\ pc[r] = "lookup" /\ ask[r].op # "signup"
    /\ \/ /\ ByExternalId(r) = {}
          /\ Goto(r, "add")
          /\ UNCHANGED me
       \/ \E i \in ByExternalId(r) :
              IF user[i].deleted THEN Reply(r, 401) /\ UNCHANGED me
              ELSE IF Refreshes(r, i)
              THEN /\ Goto(r, "refresh")
                   /\ me' = [me EXCEPT ![r] = [id |-> i, role |-> user[i].role]]
              ELSE Serve(r, i, user[i].role)
    /\ UNCHANGED <<ask, loaded, database>>

New(r) == [subject |-> ask[r].principal.subject, email |-> ask[r].principal.email,
           name |-> IF ask[r].op = "signup" THEN None ELSE ask[r].principal.name,
           role |-> "membro", deleted |-> FALSE]

\* The INSERT that provisions the caller, with a commit of its own.
AddUser(r) ==
    \/ /\ pc[r] = "add" /\ ask[r].op # "signup"
       /\ ~Waits(r, New(r)) /\ ~Taken(r, New(r))
       /\ user' = [user EXCEPT ![r] = New(r)]
       /\ Serve(r, r, "membro")
       /\ UNCHANGED <<ask, loaded, inflight, settings, workspace>>
    \/ /\ ask[r].op # "signup" /\ ~Waits(r, New(r)) /\ Taken(r, New(r))
       /\ Refuse(r, "add", 500)

\* What update_profile writes of the token; the Global Role is not the token's to set.
Profile(r) == [subject |-> None, email |-> ask[r].principal.email, name |-> ask[r].principal.name,
               role |-> None]

UpdateProfile(r) ==
    LET i   == me[r].id
        new == Patched(user[i], loaded[r], Profile(r))
    IN  \/ Load(r, "refresh", i, "profile", 500)
        \/ /\ pc[r] = "profile"
           /\ ~Waits(r, new) /\ ~Taken(i, new)
           /\ user' = [user EXCEPT ![i] = new]
           /\ Serve(r, i, loaded[r].role)
           /\ UNCHANGED <<ask, loaded, inflight, settings, workspace>>
        \/ /\ pc[r] = "profile" /\ ~Waits(r, new) /\ Taken(i, new)
           /\ Refuse(r, "profile", 500)

GetCurrentUser(r) == GetPrincipal(r) \/ GetByExternalId(r) \/ AddUser(r) \/ UpdateProfile(r)
-----------------------------------------------------------------------------
(* Signup. *)

SignUp(r) ==
    /\ pc[r] = "start"
    /\ Goto(r, "lookup") \/ \E error \in SignupErrors : Reply(r, SignupErrorCode[error])
    /\ UNCHANGED <<ask, me, loaded, database>>

\* _bootstrap_signup_workspace, whose errors are answered after a rollback.
FindSignup(r) ==
    \/ /\ pc[r] = "lookup"
       /\ \A i \in ByExternalId(r) : ~user[i].deleted
       /\ Goto(r, IF ByExternalId(r) = {} THEN "add" ELSE "workspace")
       /\ \/ ByExternalId(r) = {} /\ UNCHANGED me
          \/ \E i \in ByExternalId(r) : me' = [me EXCEPT ![r] = [id |-> i, role |-> user[i].role]]
       /\ UNCHANGED <<ask, loaded, database>>
    \/ (\E i \in ByExternalId(r) : user[i].deleted) /\ Refuse(r, "lookup", 500)

AddSignupAtOnce(r) ==
    /\ pc[r] = "add"
    /\ ~Waits(r, New(r)) /\ ~Taken(r, New(r))
    /\ user' = [user EXCEPT ![r] = New(r)]
    /\ me' = [me EXCEPT ![r] = [id |-> r, role |-> "membro"]]
    /\ Goto(r, "workspace")
    /\ UNCHANGED <<ask, loaded, inflight, settings, workspace>>
AddSignup(r) ==
    \/ /\ pc[r] = "add"
       /\ ~Waits(r, New(r)) /\ ~Taken(r, New(r))
       /\ inflight' = [inflight EXCEPT ![r] = New(r)]
       /\ me' = [me EXCEPT ![r] = [id |-> r, role |-> "membro"]]
       /\ Goto(r, "workspace")
       /\ UNCHANGED <<ask, loaded, user, settings, workspace>>
    \/ ~Waits(r, New(r)) /\ Taken(r, New(r)) /\ Refuse(r, "add", 500)

CreateWorkspace(r) ==
    /\ pc[r] = "workspace"
    /\ user' = IF inflight[r] = None THEN user ELSE [user EXCEPT ![r] = inflight[r]]
    /\ workspace' = [workspace EXCEPT ![r] = me[r].id]
    /\ inflight' = [inflight EXCEPT ![r] = None]
    /\ Reply(r, 200)
    /\ UNCHANGED <<ask, me, loaded, settings>>

\* The INSERTs of Workspace and Membership, or the commit, fail: the session is rolled back.
FailWithoutRollback(r) == Refuse(r, "workspace", 500)
FailBootstrap(r) ==
    /\ pc[r] = "workspace"
    /\ inflight' = [inflight EXCEPT ![r] = None]
    /\ Reply(r, 500)
    /\ UNCHANGED <<ask, me, loaded, user, settings, workspace>>

Signup(r) ==
    /\ ask[r].op = "signup"
    /\ SignUp(r) \/ FindSignup(r) \/ AddSignup(r) \/ CreateWorkspace(r) \/ FailBootstrap(r)
-----------------------------------------------------------------------------
(* Settings of the caller. *)

Defaults == [f \in Field |-> None]
Columned(columns, r) ==
    [f \in Field |-> IF ask[r].op = "patch" /\ f \in ask[r].set THEN r ELSE columns[f]]

\* update_partial is to set a NOT NULL column to NULL: its flush fails, and the session
\* is rolled back with all it has written.
Nulls(r) == ask[r].op = "patch" /\ ask[r].null \intersect NotNull # {}

\* SELECT ... FOR UPDATE finds the row, which update_partial then changes under its lock.
UpdateSettings(r) ==
    LET i == me[r].id
    IN  /\ pc[r] = "settings"
        /\ \/ settings[i] = None /\ Goto(r, "default") /\ UNCHANGED settings
           \/ /\ settings[i] # None /\ ~Nulls(r)
              /\ settings' = [settings EXCEPT ![i] = Columned(settings[i], r)]
              /\ Reply(r, 200)
           \/ settings[i] # None /\ Nulls(r) /\ Reply(r, 500) /\ UNCHANGED settings
        /\ UNCHANGED <<ask, me, loaded, inflight, user, workspace>>

\* create_for_user, and update_partial.  The flush that meets another row of the User
\* ends the session's transaction: the SELECT of the except clause fails too.
CreateOrReset(r) ==
    /\ pc[r] = "default" /\ ~Nulls(r)
    /\ settings' = [settings EXCEPT ![me[r].id] = Columned(Defaults, r)]
    /\ Reply(r, 200)
    /\ UNCHANGED <<ask, me, loaded, inflight, user, workspace>>
CreateForUser(r) ==
    LET i == me[r].id
    IN  /\ pc[r] = "default"
        /\ IF settings[i] # None \/ Nulls(r) THEN Reply(r, 500) /\ UNCHANGED settings
           ELSE /\ settings' = [settings EXCEPT ![i] = Columned(Defaults, r)]
                /\ Reply(r, 200)
        /\ UNCHANGED <<ask, me, loaded, inflight, user, workspace>>

MySettings(r) ==
    /\ ask[r].op \in {"settings", "patch"}
    /\ UpdateSettings(r) \/ CreateForUser(r)
-----------------------------------------------------------------------------
(* Administration of Users. *)

\* The Global Role is that of the UserRecord, which may have changed since.
RequireAdmin(r) ==
    \/ /\ pc[r] = "admin" /\ me[r].role = "admin"
       /\ Goto(r, "find")
       /\ UNCHANGED <<ask, me, loaded, database>>
    \/ Refuse(r, "admin", 403) /\ me[r].role # "admin"

Given(r) == [subject |-> ask[r].to.subject, email |-> ask[r].to.email, name |-> ask[r].to.name,
             role |-> ask[r].to.role, deleted |-> FALSE]

CreateUser(r) ==
    /\ ask[r].op = "create"
    /\ \/ /\ pc[r] = "find"
          /\ ~Waits(r, Given(r)) /\ ~Taken(r, Given(r))
          /\ user' = [user EXCEPT ![r] = Given(r)]
          /\ Reply(r, 201)
          /\ UNCHANGED <<ask, me, loaded, inflight, settings, workspace>>
       \/ ~Waits(r, Given(r)) /\ Taken(r, Given(r)) /\ Refuse(r, "find", 500)

GetUser(r) ==
    /\ ask[r].op = "get" /\ pc[r] = "find"
    /\ Reply(r, IF user[ask[r].id] # None /\ ~user[ask[r].id].deleted THEN 200 ELSE 404)
    /\ UNCHANGED <<ask, me, loaded, database>>

UpdateUser(r) ==
    LET i   == ask[r].id
        new == Patched(user[i], loaded[r], ask[r].to)
    IN  /\ ask[r].op = "update"
        /\ \/ Load(r, "find", i, "write", 404)
           \/ /\ pc[r] = "write"
              /\ ~Waits(r, new) /\ ~Taken(i, new)
              /\ user' = [user EXCEPT ![i] = new]
              /\ Reply(r, 200)
              /\ UNCHANGED <<ask, me, loaded, inflight, settings, workspace>>
           \/ /\ pc[r] = "write" /\ ~Waits(r, new) /\ Taken(i, new)
              /\ Refuse(r, "write", 500)

DeleteUser(r) ==
    LET i == ask[r].id
    IN  /\ ask[r].op = "delete"
        /\ \/ Load(r, "find", i, "write", 404)
           \/ /\ pc[r] = "write"
              /\ user' = [user EXCEPT ![i].deleted = TRUE]
              /\ Reply(r, 200)
              /\ UNCHANGED <<ask, me, loaded, inflight, settings, workspace>>

Administration(r) ==
    /\ ask[r].op \in AdminOp
    /\ RequireAdmin(r) \/ CreateUser(r) \/ GetUser(r) \/ UpdateUser(r) \/ DeleteUser(r)
-----------------------------------------------------------------------------
Next == \E r \in Request : GetCurrentUser(r) \/ Signup(r) \/ MySettings(r) \/ Administration(r)

Spec == Init /\ [][Next]_vars
-----------------------------------------------------------------------------
\* The values of the variables; every column, role and response among them.
TypeOK ==
    /\ pc \in [Request -> {"start", "lookup", "add", "refresh", "profile", "workspace", "settings",
                           "default", "admin", "find", "write", "done"}]
    /\ ask \in [Request -> Asks]
    /\ me \in [Request -> [id: Id, role: GlobalRole] \union {None}]
    /\ loaded \in [Request -> Columns \union {None}]
    /\ answer \in [Request -> {0, 200, 201, 400, 401, 403, 404, 429, 500, 502, 504}]
    /\ inflight \in [Request -> Columns \union {None}]
    /\ user \in [Id -> Columns \union {None}]
    /\ settings \in [Id -> [Field -> Request \union {None}] \union {None}]
    /\ workspace \in [Request -> Id \union {None}]

\* However many first requests, signups and administrators overlap, a subject has one
\* User, and no two Users share an email; a signup that is under way counts.
OneUserPerSubject ==
    /\ \A i, j \in Id : i # j /\ user[i] # None /\ user[j] # None => ~Clash(user[i], user[j])
    /\ \A r \in Request : inflight[r] # None =>
           /\ \A i \in Id : user[i] # None => ~Clash(inflight[r], user[i])
           /\ ~Waits(r, inflight[r])

\* A signup is answered with 200 exactly when it has made its Workspace, which belongs to
\* the User of its Principal; it never leaves a User without a Workspace.
SignupWhole ==
    \A r \in Request : ask[r].op = "signup" =>
        /\ answer[r] = 200 <=> workspace[r] # None
        /\ user[r] # None => workspace[r] = r
        /\ workspace[r] # None =>
               /\ user[workspace[r]] # None
               /\ user[workspace[r]].subject = ask[r].principal.subject

\* A request that is answered with an error leaves nothing but the User that
\* get_current_user has committed for its caller.
RefusedLeavesNothing ==
    \A r \in Request : answer[r] >= 400 =>
        /\ inflight[r] = None /\ workspace[r] = None
        /\ \A i \in Id : settings[i] # None => \A f \in Field : settings[i][f] # r
        /\ user[r] # None => ask[r].op # "signup" /\ user[r].subject = ask[r].principal.subject

\* The columns of an accepted PATCH stay, in the row of its caller, until another accepted
\* PATCH of this caller sets them: first requests do not put the defaults back.
SettingsKept ==
    \A r \in Request : ask[r].op = "patch" /\ answer[r] = 200 =>
        /\ user[me[r].id] # None /\ user[me[r].id].subject = ask[r].principal.subject
        /\ settings[me[r].id] # None
        /\ \A f \in ask[r].set :
               LET last == settings[me[r].id][f]
               IN  /\ last \in Request /\ f \in ask[last].set /\ answer[last] = 200
                   /\ ask[last].op = "patch"
                   /\ ask[last].principal.subject = ask[r].principal.subject

\* A Global Role other than membro comes from an administrator's accepted request for this
\* very role: refreshing a profile never takes one back that changed meanwhile.
RolesGrantedByAdmins ==
    [][\A i \in Id :
          user'[i] # None /\ user'[i].role # (IF user[i] = None THEN "membro" ELSE user[i].role) =>
              \E r \in Request :
                  /\ ask[r].op \in {"create", "update"}
                  /\ answer[r] = 0 /\ answer'[r] \in {200, 201}
                  /\ me[r].role = "admin"
                  /\ ask[r].to.role = user'[i].role]_vars

\* A deleted User is not restored by a request that loaded it before, and its subject
\* never gets another User.
DeletionIsFinal ==
    [][\A i \in Id : user[i] # None /\ user[i].deleted =>
          /\ user'[i] # None /\ user'[i].deleted /\ user'[i].subject = user[i].subject
          /\ \A j \in Id \ {i} : user'[j] # None => user'[j].subject # user[i].subject]_vars

\* A request for one's own data is answered as documented: with the data, as unauthorized,
\* or as invalid; unless the service is misconfigured it has no other answer.
OwnAnswersDocumented ==
    \A r \in Request :
        ask[r].op \in {"me", "settings", "patch"} /\ ask[r].verdict # "misconfigured"
            => answer[r] \in {0, 200, 401, 422}
=================================================================================
