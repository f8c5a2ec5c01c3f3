---------------------------------- MODULE Catalog ----------------------------------
(***************************************************************************)
(* Workspaces, their Memberships and the artifacts in them: the create,    *)
(* update and delete endpoints of Workspaces, Brands, Brand Settings,      *)
(* Projects, Contents, Generations and Assets, and the endpoints that      *)
(* generate and improve text, all served concurrently.                     *)
(*                                                                         *)
(* One step is one statement of a request's transaction (READ COMMITTED),  *)
(* or its call of the LLM provider.  The last statement of a request that  *)
(* writes is one step with the commit that follows it: until then its row  *)
(* locks keep others out.  A request inserts at most one row per table,    *)
(* which is named by the request; every column it writes is abstracted to  *)
(* the name of the request that wrote it last.                             *)
(***************************************************************************)
EXTENDS Integers

CONSTANTS User, Workspace,
          Request,       \* executions of the endpoints
          Seed,          \* rows that are there when they begin
          Field,         \* columns a request may set
          None,          \* SQL NULL, or a row that is not there
          Asks,          \* what the requests may ask for
          Memberships,   \* the Role of each User in each Workspace at first
          Rows,          \* the rows at first
          Failures       \* how the LLM provider may fail

ROLE_RANK == [viewer |-> 1, editor |-> 2, admin |-> 3, owner |-> 4]
Role == DOMAIN ROLE_RANK
Kind == {"brand", "brand_settings", "project", "content", "generation", "asset"}
Parent == {"brand", "project", "content"}   \* the kinds of rows others refer to
Id == Request \union Seed
Row == Kind \X Id

\* deleted stands for deleted_at IS NOT NULL, refs for the ids of other rows.
Columns == [workspace: Workspace, refs: [Parent -> Id \union {None}],
            fields: [Field -> Id], deleted: BOOLEAN]

Ask == [op: {"create", "update", "delete", "upsert", "generate", "improve"},
        user: User, kind: Kind \union {"workspace"}, id: Id \union {None},
        workspace: Workspace, refs: [Parent -> Id \union {None}], set: SUBSET Field]

\* The response to an error of the LLM provider.
ErrorCode == [blocked |-> 422, quota |-> 429, authentication |-> 500,
              invalid |-> 502, transient |-> 503, timeout |-> 504]

\* A reference is a foreign key over the id and the workspace_id of its row.
ReferencesExist(rows, columns) ==
    \A k \in Parent : columns.refs[k] # None => rows[<<k, columns.refs[k]>>] # None
ReferencesHold(rows, columns) ==
    \A k \in Parent : columns.refs[k] # None =>
        /\ rows[<<k, columns.refs[k]>>] # None
        /\ rows[<<k, columns.refs[k]>>].workspace = columns.workspace

ASSUME NoneAssumption == None \notin Id \union Role \union Columns \union {"live", "deleted"}
ASSUME IdAssumption == Request \intersect Seed = {}
ASSUME AsksAssumption ==
    Asks \subseteq Ask /\ \A a \in Asks : a.kind = "brand_settings" => a.refs["brand"] = a.id
ASSUME MembershipsAssumption == Memberships \in [Workspace -> [User -> Role \union {None}]]
ASSUME RowsAssumption ==
    /\ Rows \in [Row -> Columns \union {None}]
    /\ \A k \in Kind : \A r \in Request : Rows[<<k, r>>] = None
    /\ \A x \in Row : Rows[x] # None =>
           /\ \E u \in User : Memberships[Rows[x].workspace][u] # None
           /\ ReferencesHold(Rows, Rows[x])
           /\ \A f \in Field : Rows[x].fields[f] \in Seed
    /\ \A x, y \in {"brand_settings"} \X Id :   \* uq_brand_settings_brand_id
           Rows[x] # None /\ Rows[y] # None /\ Rows[x].refs["brand"] = Rows[y].refs["brand"] => x = y
ASSUME FailuresAssumption == Failures \subseteq DOMAIN ErrorCode

VARIABLES pc,      \* where each request is
          ask,     \* what it asks for
          loaded,  \* whether the Brand Settings an upsert has loaded are there, or deleted
          answer,  \* the status code of its response
          state,   \* whether each Workspace is there, or deleted
          role,    \* workspace_memberships: the Role of each live Membership
          name,    \* workspaces.name
          row      \* the rows of the six other tables

request    == <<pc, ask, loaded, answer>>
workspaces == <<state, role, name>>
database   == <<workspaces, row>>
vars       == <<request, database>>

Init == /\ pc = [r \in Request |-> "start"]
        /\ ask \in [Request -> Asks]
        /\ loaded = [r \in Request |-> None]
        /\ answer = [r \in Request |-> 0]
        /\ role = Memberships
        /\ state = [w \in Workspace |-> IF \E u \in User : role[w][u] # None THEN "live" ELSE None]
        /\ name = [w \in Workspace |-> None]
        /\ row = Rows
-----------------------------------------------------------------------------
(* What a request reads. *)

UserHasWorkspaceRole(u, w, minimum_role) ==
    /\ role[w][u] # None
    /\ ROLE_RANK[role[w][u]] >= ROLE_RANK[minimum_role]

UserHasWorkspaceAccess(u, w) == role[w][u] # None /\ state[w] = "live"

\* Which rows User u has in scope: _scoped_resource_select, and that of Contents,
\* which are found through a live Membership, whatever became of the Workspace.
ScopedResource(u, x) == row[x] # None /\ UserHasWorkspaceAccess(u, row[x].workspace)
ScopedContent(u, x)  == row[x] # None /\ role[row[x].workspace][u] # None
Scoped(u, x) == IF x[1] = "content" THEN ScopedContent(u, x) ELSE ScopedResource(u, x)

\* What User u is shown, one by one and in lists.
VisibleTo(u, x) == Scoped(u, x) /\ ~row[x].deleted

\* The row a request is about.  Brand Settings are found by their Brand.
Target(r) ==
    {x \in {ask[r].kind} \X Id :
        /\ row[x] # None
        /\ ask[r].id = IF x[1] = "brand_settings" THEN row[x].refs["brand"] ELSE x[2]}

Finds(r) == \E x \in Target(r) : VisibleTo(ask[r].user, x)
-----------------------------------------------------------------------------
(* The steps the endpoints are made of. *)

Goto(r, where) ==
    /\ pc' = [pc EXCEPT ![r] = where]
    /\ UNCHANGED answer

Reply(r, code) ==
    /\ pc' = [pc EXCEPT ![r] = "done"]
    /\ answer' = [answer EXCEPT ![r] = code]

\* A query on whose result the request goes on, or is answered with an error.
Check(r, here, holds, next, code) ==
    /\ pc[r] = here
    /\ IF holds THEN Goto(r, next) ELSE Reply(r, code)
    /\ UNCHANGED <<ask, loaded, database>>

Refuse(r, here, code) == Check(r, here, FALSE, here, code)

RequireWorkspaceWrite(r, here, w, next) ==
    Check(r, here, UserHasWorkspaceRole(ask[r].user, w, "editor"), next, 403)

\* The row a request adds to a table that has references to the given kinds.
New(r, kinds) ==
    [workspace |-> ask[r].workspace,
     refs |-> [k \in Parent |-> IF k \in kinds THEN ask[r].refs[k] ELSE None],
     fields |-> [f \in Field |-> r], deleted |-> FALSE]

\* A foreign key that fails is a ConcurrencyError, a unique constraint a ConflictError:
\* no endpoint catches either.
Insert(r, new, code) ==
    /\ pc[r] = "insert"
    /\ IF state[new.workspace] # None /\ ReferencesHold(row, new)
       THEN row' = [row EXCEPT ![<<ask[r].kind, r>>] = new] /\ Reply(r, code)
       ELSE Reply(r, 500) /\ UNCHANGED row
    /\ UNCHANGED <<ask, loaded, workspaces>>

\* An UPDATE sets the columns that were assigned, and no other.
AllPatched(x, r) == [row[x] EXCEPT !.fields = [f \in Field |-> r]]
PatchedAndRestored(x, r) ==
    [row[x] EXCEPT !.fields = [f \in Field |-> IF f \in ask[r].set THEN r ELSE @[f]], !.deleted = FALSE]
Patched(x, r) == [row[x] EXCEPT !.fields = [f \in Field |-> IF f \in ask[r].set THEN r ELSE @[f]]]

Wiped(x, r) == [row[x] EXCEPT !.fields = [f \in Field |-> None], !.deleted = TRUE]
Deleted(x, r) == [row[x] EXCEPT !.deleted = TRUE]

Write(r, new(_, _)) ==
    /\ pc[r] = "write"
    /\ \E x \in Target(r) : row' = [row EXCEPT ![x] = new(x, r)]
    /\ Reply(r, 200)
    /\ UNCHANGED <<ask, loaded, workspaces>>
-----------------------------------------------------------------------------
(* Workspaces. *)

CreateForUser(r) ==
    /\ ask[r].op = "create" /\ pc[r] = "start"
    /\ \E w \in Workspace :
           /\ state[w] = None
           /\ state' = [state EXCEPT ![w] = "live"]
           /\ role' = [role EXCEPT ![w][ask[r].user] = "owner"]
           /\ name' = [name EXCEPT ![w] = r]
    /\ Reply(r, 201)
    /\ UNCHANGED <<ask, loaded, row>>

UpdateWorkspace(r) ==
    LET w == ask[r].workspace
    IN  /\ ask[r].op = "update"
        /\ \/ Check(r, "start", UserHasWorkspaceRole(ask[r].user, w, "admin"), "get", 404)
           \/ Check(r, "get", state[w] = "live", "write", 404)
           \/ /\ pc[r] = "write"
              /\ name' = [name EXCEPT ![w] = r]
              /\ Reply(r, 200)
              /\ UNCHANGED <<ask, loaded, state, role, row>>

SoftDeleteWorkspaceOnly(r) ==
    LET w == ask[r].workspace
    IN  /\ ask[r].op = "delete" /\ pc[r] = "start"
        /\ IF role[w][ask[r].user] = "owner" /\ state[w] = "live"
           THEN state' = [state EXCEPT ![w] = "deleted"] /\ Reply(r, 200)
           ELSE Reply(r, 404) /\ UNCHANGED state
        /\ UNCHANGED <<ask, loaded, role, name, row>>

\* SELECT ... FOR UPDATE holds the Workspace until its Memberships are deleted too.
SoftDeleteForUser(r) ==
    LET w == ask[r].workspace
    IN  /\ ask[r].op = "delete" /\ pc[r] = "start"
        /\ IF role[w][ask[r].user] = "owner" /\ state[w] = "live"
           THEN /\ state' = [state EXCEPT ![w] = "deleted"]
                /\ role' = [role EXCEPT ![w] = [u \in User |-> None]]
                /\ Reply(r, 200)
           ELSE Reply(r, 404) /\ UNCHANGED <<state, role>>
        /\ UNCHANGED <<ask, loaded, name, row>>

Workspaces(r) ==
    /\ ask[r].kind = "workspace"
    /\ CreateForUser(r) \/ UpdateWorkspace(r) \/ SoftDeleteForUser(r)
-----------------------------------------------------------------------------
(* Brands, Projects, Generations and Assets. *)

Create(r) ==
    /\ ask[r].op = "create"
    /\ RequireWorkspaceWrite(r, "start", ask[r].workspace, "role")

Add(r, kinds) ==
    /\ ask[r].op = "create"
    /\ \/ Check(r, "role", UserHasWorkspaceRole(ask[r].user, ask[r].workspace, "editor"), "insert", 500)
       \/ Insert(r, New(r, kinds), 201)

Writable(r) ==
    \/ Check(r, "start", Finds(r), "role", 404)
    \/ Check(r, "role", \A x \in Target(r) :
                 UserHasWorkspaceRole(ask[r].user, row[x].workspace, "editor"), "write", 404)

Update(r) == ask[r].op = "update" /\ (Writable(r) \/ Write(r, Patched))

SoftDelete(r) == ask[r].op = "delete" /\ (Writable(r) \/ Write(r, Deleted))

BrandRepository(r)      == Add(r, {}) \/ Update(r) \/ SoftDelete(r)
ProjectRepository(r)    == Add(r, {"brand"}) \/ Update(r) \/ SoftDelete(r)
GenerationRepository(r) == Add(r, {"content", "brand", "project"}) \/ Update(r) \/ SoftDelete(r)

\* storage_path is unique: an Asset may be refused for a path that is taken.
PathTaken(r) ==
    /\ ask[r].op = "create"
    /\ Refuse(r, "insert", 500)

AssetRepository(r) ==
    Add(r, {"brand", "project", "content"}) \/ PathTaken(r) \/ Update(r) \/ SoftDelete(r)

Brands(r)      == ask[r].kind = "brand" /\ (Create(r) \/ BrandRepository(r))
Projects(r)    == ask[r].kind = "project" /\ (Create(r) \/ ProjectRepository(r))
Generations(r) == ask[r].kind = "generation" /\ (Create(r) \/ GenerationRepository(r))
Assets(r)      == ask[r].kind = "asset" /\ (Create(r) \/ AssetRepository(r))
-----------------------------------------------------------------------------
(* Contents. *)

CreateContent(r) ==
    /\ ask[r].op = "create"
    /\ \/ RequireWorkspaceWrite(r, "start", ask[r].workspace, "insert")
       \/ Insert(r, New(r, {"brand", "project"}), 201)

\* The Workspace of the Content that was found is the one whose role is required.
RequireContentWrite(r) ==
    \E x \in Target(r) : RequireWorkspaceWrite(r, "role", row[x].workspace, "get")

Repatched(x, r) ==
    [Patched(x, r) EXCEPT !.refs = [k \in Parent |-> IF ask[r].refs[k] # None THEN ask[r].refs[k] ELSE @[k]]]

UpdateContent(r) ==
    /\ ask[r].op = "update"
    /\ \/ Check(r, "start", Finds(r), "role", 404)
       \/ RequireContentWrite(r)
       \/ Check(r, "get", \A x \in Target(r) : ~row[x].deleted, "write", 404)
       \/ (\A x \in Target(r) : ReferencesHold(row, Repatched(x, r))) /\ Write(r, Repatched)
       \/ /\ \E x \in Target(r) : ~ReferencesHold(row, Repatched(x, r))
          /\ Refuse(r, "write", 500)

\* A Content that is deleted already is found, and left as it is.
DeleteVisibleContent(r) ==
    /\ ask[r].op = "delete"
    /\ \/ Check(r, "start", Finds(r), "role", 404)
       \/ RequireContentWrite(r)
       \/ Check(r, "get", \A x \in Target(r) : ~row[x].deleted, "write", 200)
       \/ Write(r, Deleted)
DeleteContent(r) ==
    /\ ask[r].op = "delete"
    /\ \/ Check(r, "start", \E x \in Target(r) : ScopedContent(ask[r].user, x), "role", 404)
       \/ RequireContentWrite(r)
       \/ Check(r, "get", \A x \in Target(r) : ~row[x].deleted, "write", 200)
       \/ Write(r, Deleted)

Contents(r) == ask[r].kind = "content" /\ (CreateContent(r) \/ UpdateContent(r) \/ DeleteContent(r))
-----------------------------------------------------------------------------
(* Text. *)

CallProvider(r, next) ==
    /\ pc[r] = "provider"
    /\ next \/ \E failure \in Failures : Reply(r, ErrorCode[failure])
    /\ UNCHANGED <<ask, loaded, database>>

\* The Content is flushed before the Generation that refers to it; nobody sees either
\* before the commit.
TextContent(r)    == New(r, {})
TextGeneration(r) == [New(r, {}) EXCEPT !.refs["content"] = r]

\* create_text_generation asks for access again: the Workspace may be gone by now.
\* Of its INSERTs and the commit any may fail, and the rollback leaves no row.
CommitContentFirst(r) ==
    \/ Check(r, "access", UserHasWorkspaceAccess(ask[r].user, ask[r].workspace), "insert", 500)
    \/ /\ pc[r] = "insert"
       /\ \/ /\ row' = [row EXCEPT ![<<"content", r>>] = TextContent(r),
                                   ![<<"generation", r>>] = TextGeneration(r)]
             /\ Reply(r, 200)
          \/ row' = [row EXCEPT ![<<"content", r>>] = TextContent(r)] /\ Reply(r, 500)
       /\ UNCHANGED <<ask, loaded, workspaces>>
CreateTextGeneration(r) ==
    \/ Check(r, "access", UserHasWorkspaceAccess(ask[r].user, ask[r].workspace), "insert", 500)
    \/ /\ pc[r] = "insert"
       /\ row' = [row EXCEPT ![<<"content", r>>] = TextContent(r),
                             ![<<"generation", r>>] = TextGeneration(r)]
       /\ Reply(r, 200)
       /\ UNCHANGED <<ask, loaded, workspaces>>
    \/ Refuse(r, "insert", 500)

GenerateContent(r) ==
    /\ ask[r].op = "generate"
    /\ \/ Check(r, "start", UserHasWorkspaceAccess(ask[r].user, ask[r].workspace), "provider", 403)
       \/ CallProvider(r, Goto(r, "access"))
       \/ CreateTextGeneration(r)

\* The preview of a text or of a Content's text is not stored.  A Content may turn out to
\* have no text.
ImproveContent(r) ==
    /\ ask[r].op = "improve"
    /\ \/ Check(r, "start", UserHasWorkspaceAccess(ask[r].user, ask[r].workspace),
                IF ask[r].id = None THEN "provider" ELSE "find", 403)
       \/ Check(r, "find", Finds(r), "scope", 404)
       \/ Check(r, "scope", \A x \in Target(r) : row[x].workspace = ask[r].workspace, "provider", 403)
       \/ /\ \A x \in Target(r) : row[x].workspace = ask[r].workspace
          /\ Refuse(r, "scope", 502)
       \/ CallProvider(r, Reply(r, 200))

Texts(r) == GenerateContent(r) \/ ImproveContent(r)
-----------------------------------------------------------------------------
(* Brand Settings. *)

\* The row is found by its Brand alone; an unchanged deleted_at is not written.
Revived(x, r) ==
    [Patched(x, r) EXCEPT !.deleted = IF loaded[r] = "deleted" THEN FALSE ELSE @]

LoadSettings(r) ==
    /\ pc[r] = "get"
    /\ loaded' = [loaded EXCEPT ![r] = IF Target(r) = {} THEN None
                      ELSE IF \E x \in Target(r) : row[x].deleted THEN "deleted" ELSE "live"]
    /\ Goto(r, IF Target(r) = {} THEN "insert" ELSE "write")
    /\ UNCHANGED <<ask, database>>

\* brand_id is unique: of two requests that insert, one fails.
Upsert(r) ==
    /\ ask[r].op = "upsert"
    /\ \/ RequireWorkspaceWrite(r, "start", ask[r].workspace, "role")
       \/ Check(r, "role", UserHasWorkspaceRole(ask[r].user, ask[r].workspace, "editor"), "get", 500)
       \/ LoadSettings(r)
       \/ Write(r, Revived)
       \/ Target(r) = {} /\ Insert(r, New(r, {"brand"}), 200)
       \/ Target(r) # {} /\ Refuse(r, "insert", 500)

BrandSettings(r) == ask[r].kind = "brand_settings" /\ (Upsert(r) \/ Update(r) \/ SoftDelete(r))
-----------------------------------------------------------------------------
Next == \E r \in Request : \/ Workspaces(r) \/ Brands(r) \/ BrandSettings(r) \/ Projects(r)
                           \/ Contents(r) \/ Generations(r) \/ Assets(r) \/ Texts(r)

Spec == Init /\ [][Next]_vars
-----------------------------------------------------------------------------
RequestsTyped ==
    /\ pc \in [Request -> {"start", "role", "get", "find", "scope", "provider", "access",
                           "insert", "write", "done"}]
    /\ ask \in [Request -> Asks]
    /\ loaded \in [Request -> {None, "live", "deleted"}]
    /\ answer \in [Request -> {0, 200, 201, 403, 404, 422, 429, 500, 502, 503, 504}]

DatabaseTyped ==
    /\ state \in [Workspace -> {None, "live", "deleted"}]
    /\ role \in [Workspace -> [User -> Role \union {None}]]
    /\ name \in [Workspace -> Request \union {None}]
    /\ row \in [Row -> Columns \union {None}]

\* The values of the variables; every reference, column and response among them.
TypeOK == RequestsTyped /\ DatabaseTyped

\* Memberships end with their Workspace, on which reads of Contents and every
\* check of a role rely: they do not look at the Workspace.
MembersOnlyOfLive == \A w \in Workspace : state[w] # "live" => \A u \in User : role[w][u] = None

\* Whatever overlaps, a row refers to rows of its own Workspace only.
ReferencesWithinWorkspace ==
    \A x \in Row, k \in Parent : row[x] # None /\ row[x].refs[k] # None =>
        /\ row[<<k, row[x].refs[k]>>] # None
        /\ row[<<k, row[x].refs[k]>>].workspace = row[x].workspace

\* What an accepted update set stays until another accepted request sets the
\* same column: updates of different columns do not undo each other.
AcceptedUpdateKept ==
    \A r \in Request : ask[r].op = "update" /\ ask[r].kind \in Kind /\ answer[r] = 200 =>
        \A x \in Target(r) : \A f \in ask[r].set :
            LET last == row[x].fields[f]
            IN  last = r \/ (last \in Request /\ f \in ask[last].set /\ answer[last] = 200)

\* A request that is answered with an error has written nothing.
RefusedWritesNothing ==
    \A r \in Request : answer[r] >= 400 =>
        /\ \A w \in Workspace : name[w] # r
        /\ \A x \in Row : row[x] # None => \A f \in Field : row[x].fields[f] # r

\* Deleting a Content twice, one that is there when both requests begin, is answered
\* like deleting it once, as long as its Workspace is there.
RepeatedDeleteAccepted ==
    \A q, r \in Request :
        /\ ask[q] = ask[r] /\ ask[q].kind = "content" /\ ask[q].op = "delete"
        /\ ask[q].id \in Seed /\ answer[q] = 200
        => answer[r] \in {0, 200} \/ \E x \in Target(q) : state[row[x].workspace] = "deleted"

\* The statements of concurrent requests add up to what CatalogView allows:
\* members see whole changes, what is deleted does not come back, and nothing
\* appears in a deleted Workspace, late INSERTs and UPDATEs included.
Final == (Kind \ {"brand_settings"}) \X Id
Shown == [workspace: Workspace, fields: [Field -> Id]]

LiveMembers == [w \in Workspace |-> {u \in User : role[w][u] # None}]
DeletedWorkspaces == {w \in Workspace : state[w] = "deleted"}
ShownRows == [x \in Row |-> IF \E u \in User : VisibleTo(u, x)
                            THEN [workspace |-> row[x].workspace, fields |-> row[x].fields]
                            ELSE None]
DeletedRows == {x \in Final : row[x] # None /\ row[x].deleted}

ASSUME ShownAssumption == None \notin Shown

View == INSTANCE CatalogView WITH
            Value <- Id, Absent <- None,
            members <- LiveMembers, closed <- DeletedWorkspaces,
            shown <- ShownRows, withdrawn <- DeletedRows

ImplementsView == View!Spec
=================================================================================
