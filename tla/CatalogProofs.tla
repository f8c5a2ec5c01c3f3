------------------------------- MODULE CatalogProofs -------------------------------
(***************************************************************************)
(* Whatever requests overlap: the references of a row stay in its          *)
(* Workspace, Memberships end with their Workspace, an error leaves        *)
(* nothing behind, and Catalog implements CatalogView.                     *)
(*                                                                         *)
(* A step of an endpoint either leaves the database alone or is the last   *)
(* of its request and makes one of six changes (Shape).  The theorems then *)
(* need to look at these changes only.                                     *)
(***************************************************************************)
EXTENDS Catalog, TLAPS

Quiet ==
    /\ UNCHANGED database
    /\ \A q \in Request : /\ pc'[q] # "done" => pc[q] # "done"
                          /\ answer'[q] >= 400 => answer[q] >= 400 \/ pc[q] # "done"

Finishes(r) ==
    /\ pc[r] # "done"
    /\ \E code \in {200, 201} : Reply(r, code)
    /\ UNCHANGED <<ask, loaded>>

AddsRow(r, k, new) ==
    /\ new.fields = [f \in Field |-> r] /\ new.deleted = FALSE
    /\ state[new.workspace] # None
    /\ ReferencesHold(row, new)
    /\ row' = [row EXCEPT ![<<k, r>>] = new]
    /\ UNCHANGED workspaces

Adds(r) == \E k \in Kind, new \in Columns : AddsRow(r, k, new)

AddsText(r) ==
    \E new, generation \in Columns :
        /\ new.workspace = ask[r].workspace
        /\ new.fields = [f \in Field |-> r] /\ new.deleted = FALSE
        /\ new.refs = [k \in Parent |-> None]
        /\ generation = [new EXCEPT !.refs["content"] = r]
        /\ ask[r].op = "generate" /\ pc[r] = "insert"
        /\ row' = [row EXCEPT ![<<"content", r>>] = new, ![<<"generation", r>>] = generation]
        /\ UNCHANGED workspaces

Changes(r) ==
    \E x \in Row, new \in Columns :
        /\ row[x] # None
        /\ new.workspace = row[x].workspace
        /\ new.refs = row[x].refs \/ ReferencesHold(row, new)
        /\ \/ /\ new.deleted = row[x].deleted \/ (x[1] = "brand_settings" /\ new.deleted = FALSE)
              /\ \A f \in Field : new.fields[f] \in {r, row[x].fields[f]}
           \/ new.deleted = TRUE /\ new.fields = row[x].fields
        /\ row' = [row EXCEPT ![x] = new]
        /\ UNCHANGED workspaces

Renames(r) == \E w \in Workspace : name' = [name EXCEPT ![w] = r] /\ UNCHANGED <<state, role, row>>

Opens(r) ==
    \E w \in Workspace, u \in User :
        /\ state[w] = None
        /\ state' = [state EXCEPT ![w] = "live"]
        /\ role' = [role EXCEPT ![w][u] = "owner"]
        /\ name' = [name EXCEPT ![w] = r]
        /\ UNCHANGED row

Closes(r) ==
    \E w \in Workspace :
        /\ state[w] = "live"
        /\ state' = [state EXCEPT ![w] = "deleted"]
        /\ role' = [role EXCEPT ![w] = [u \in User |-> None]]
        /\ UNCHANGED <<name, row>>

Modifies(r) == Adds(r) \/ AddsText(r) \/ Changes(r) \/ Renames(r) \/ Opens(r) \/ Closes(r)

Shape == Quiet \/ \E r \in Request : Finishes(r) /\ Modifies(r)
-----------------------------------------------------------------------------
\* A request asks for a kind of row, and about a Workspace.
LEMMA AskTyped ==
    ASSUME TypeOK, NEW r \in Request
    PROVE  ask[r] \in Asks /\ ask[r] \in Ask /\ ask[r].workspace \in Workspace
           /\ ask[r].user \in User /\ ask[r].refs \in [Parent -> Id \union {None}]
           /\ ask[r].kind \in Kind \union {"workspace"}
  BY AsksAssumption DEF TypeOK, RequestsTyped, Ask

\* Where a request may go on from a query, and how it may be answered instead.
Place == {"role", "get", "find", "scope", "provider", "access", "insert", "write"}
Code  == {200, 201, 403, 404, 422, 429, 500, 502, 503, 504}

\* A step that only moves a request on or answers it.
Moves(r) ==
    /\ pc[r] # "done"
    /\ UNCHANGED <<ask, database>>
    /\ loaded' \in [Request -> {None, "live", "deleted"}]
    /\ \/ \E place \in Place : Goto(r, place)
       \/ \E code \in Code : Reply(r, code)

LEMMA MovesAreQuiet ==
    ASSUME TypeOK, NEW r \in Request, Moves(r)
    PROVE  RequestsTyped' /\ Quiet
  <1>1. ask' = ask /\ UNCHANGED database /\ pc[r] # "done"
    BY DEF Moves
  <1>2. ASSUME NEW place \in Place, Goto(r, place)
        PROVE  RequestsTyped' /\ Quiet
    BY <1>1, <1>2 DEF Moves, Goto, TypeOK, RequestsTyped, Quiet, Place
  <1>3. ASSUME NEW code \in Code, Reply(r, code)
        PROVE  RequestsTyped' /\ Quiet
    BY <1>1, <1>3 DEF Moves, Reply, TypeOK, RequestsTyped, Quiet, Code
  <1> QED BY <1>2, <1>3 DEF Moves

\* The checks of the Brand, Project, Generation and Asset repositories.
LEMMA WritableMoves ==
    ASSUME TypeOK, NEW r \in Request, Writable(r) \/ Create(r)
    PROVE  Moves(r)
  BY DEF Writable, Create, RequireWorkspaceWrite, Check, Moves, Place, Code, TypeOK, RequestsTyped

LEMMA FinishedTyped ==
    ASSUME TypeOK, NEW r \in Request, Finishes(r)
    PROVE  RequestsTyped'
  BY DEF Finishes, Reply, TypeOK, RequestsTyped

LEMMA NewRow ==
    ASSUME TypeOK, NEW r \in Request, NEW kinds \in SUBSET Parent
    PROVE  /\ New(r, kinds) \in Columns
           /\ New(r, kinds).workspace = ask[r].workspace
           /\ New(r, kinds).fields = [f \in Field |-> r]
           /\ New(r, kinds).deleted = FALSE
  BY AskTyped DEF New, Columns, Id

LEMMA InsertAdds ==
    ASSUME TypeOK, NEW r \in Request, NEW new \in Columns, NEW code \in {200, 201},
           new.fields = [f \in Field |-> r], new.deleted = FALSE,
           Insert(r, new, code), ask[r].kind \in Kind
    PROVE  Moves(r) \/ (Finishes(r) /\ Adds(r))
  <1>2. pc[r] = "insert" /\ UNCHANGED <<ask, loaded, workspaces>>
    BY DEF Insert
  <1>3. CASE state[new.workspace] # None /\ ReferencesHold(row, new)
    <2>1. row' = [row EXCEPT ![<<ask[r].kind, r>>] = new] /\ Reply(r, code)
      BY <1>3 DEF Insert
    <2>2. Finishes(r)
      BY <1>2, <2>1 DEF Finishes
    <2>3. AddsRow(r, ask[r].kind, new)
      BY <1>2, <1>3, <2>1 DEF AddsRow
    <2>4. Adds(r)
      BY <2>3 DEF Adds
    <2> QED BY <2>2, <2>4
  <1>4. CASE ~(state[new.workspace] # None /\ ReferencesHold(row, new))
    <2>1. row' = row /\ Reply(r, 500)
      BY <1>4 DEF Insert
    <2> QED BY <1>2, <2>1 DEF Moves, Code, database, TypeOK, RequestsTyped
  <1> QED BY <1>3, <1>4

\* The UPDATE of columns that a request sets, of references as well for a Content.
LEMMA PatchedRow ==
    ASSUME TypeOK, NEW r \in Request, NEW x \in Row, row[x] # None
    PROVE  /\ Patched(x, r) \in Columns
           /\ Patched(x, r).workspace = row[x].workspace
           /\ Patched(x, r).refs = row[x].refs
           /\ Patched(x, r).deleted = row[x].deleted
           /\ \A f \in Field : Patched(x, r).fields[f] \in {r, row[x].fields[f]}
  <1>1. row[x] \in Columns
    BY DEF TypeOK, DatabaseTyped
  <1> QED BY <1>1 DEF Patched, Columns, Id

LEMMA RepatchedRow ==
    ASSUME TypeOK, NEW r \in Request, NEW x \in Row, row[x] # None
    PROVE  /\ Repatched(x, r) \in Columns
           /\ Repatched(x, r).workspace = row[x].workspace
           /\ Repatched(x, r).deleted = row[x].deleted
           /\ \A f \in Field : Repatched(x, r).fields[f] \in {r, row[x].fields[f]}
  <1>1. Patched(x, r) \in Columns /\ ask[r].refs \in [Parent -> Id \union {None}]
    BY PatchedRow, AskTyped
  <1>2. Repatched(x, r) \in Columns
    BY <1>1 DEF Repatched, Columns
  <1>3. /\ Repatched(x, r).workspace = Patched(x, r).workspace
        /\ Repatched(x, r).deleted = Patched(x, r).deleted
        /\ Repatched(x, r).fields = Patched(x, r).fields
    BY <1>1 DEF Repatched, Columns
  <1> QED BY <1>2, <1>3, PatchedRow

\* A write is the last step of its request.
LEMMA WriteFinishes ==
    ASSUME TypeOK, NEW r \in Request, ask[r].kind \in Kind,
           Write(r, Patched) \/ Write(r, Deleted) \/ Write(r, Repatched) \/ Write(r, Revived)
    PROVE  Finishes(r) /\ UNCHANGED workspaces
  BY DEF Write, Finishes

LEMMA TargetIsRow ==
    ASSUME TypeOK, NEW r \in Request, ask[r].kind \in Kind, NEW x \in Target(r)
    PROVE  x \in Row /\ row[x] # None /\ row[x] \in Columns /\ x[1] = ask[r].kind
  BY DEF Target, Row, TypeOK, DatabaseTyped

LEMMA PatchChanges ==
    ASSUME TypeOK, NEW r \in Request, ask[r].kind \in Kind, Write(r, Patched)
    PROVE  Finishes(r) /\ Changes(r)
  <1>1. PICK x \in Target(r) : row' = [row EXCEPT ![x] = Patched(x, r)]
    BY DEF Write
  <1>2. x \in Row /\ row[x] # None
    BY TargetIsRow
  <1> QED BY <1>1, <1>2, PatchedRow, WriteFinishes DEF Changes

LEMMA DeleteChanges ==
    ASSUME TypeOK, NEW r \in Request, ask[r].kind \in Kind, Write(r, Deleted)
    PROVE  Finishes(r) /\ Changes(r)
  <1>1. PICK x \in Target(r) : row' = [row EXCEPT ![x] = Deleted(x, r)]
    BY DEF Write
  <1>2. x \in Row /\ row[x] # None /\ row[x] \in Columns
    BY TargetIsRow
  <1>3. /\ Deleted(x, r) \in Columns
        /\ Deleted(x, r).workspace = row[x].workspace
        /\ Deleted(x, r).refs = row[x].refs
        /\ Deleted(x, r).fields = row[x].fields
        /\ Deleted(x, r).deleted = TRUE
    BY <1>2 DEF Deleted, Columns
  <1> QED BY <1>1, <1>2, <1>3, WriteFinishes DEF Changes

LEMMA RepatchChanges ==
    ASSUME TypeOK, NEW r \in Request, ask[r].kind \in Kind, Write(r, Repatched),
           \A x \in Target(r) : ReferencesHold(row, Repatched(x, r))
    PROVE  Finishes(r) /\ Changes(r)
  <1>1. PICK x \in Target(r) : row' = [row EXCEPT ![x] = Repatched(x, r)]
    BY DEF Write
  <1>2. x \in Row /\ row[x] # None /\ ReferencesHold(row, Repatched(x, r))
    BY TargetIsRow
  <1> QED BY <1>1, <1>2, RepatchedRow, WriteFinishes DEF Changes

LEMMA ReviveChanges ==
    ASSUME TypeOK, NEW r \in Request, ask[r].kind = "brand_settings", Write(r, Revived)
    PROVE  Finishes(r) /\ Changes(r)
  <1>0. ask[r].kind \in Kind
    BY DEF Kind
  <1>1. PICK x \in Target(r) : row' = [row EXCEPT ![x] = Revived(x, r)]
    BY DEF Write
  <1>2. x \in Row /\ row[x] # None /\ row[x] \in Columns /\ x[1] = "brand_settings"
    BY <1>0, TargetIsRow
  <1>3. Patched(x, r) \in Columns
    BY <1>2, PatchedRow
  <1>4. /\ Revived(x, r) \in Columns
        /\ Revived(x, r).workspace = Patched(x, r).workspace
        /\ Revived(x, r).refs = Patched(x, r).refs
        /\ Revived(x, r).fields = Patched(x, r).fields
        /\ Revived(x, r).deleted \in {FALSE, Patched(x, r).deleted}
    BY <1>3 DEF Revived, Columns
  <1> QED BY <1>0, <1>1, <1>2, <1>4, PatchedRow, WriteFinishes DEF Changes
-----------------------------------------------------------------------------
\* What every step of an endpoint does.
Step(r) == Moves(r) \/ (Finishes(r) /\ Modifies(r))

LEMMA AddSteps ==
    ASSUME TypeOK, NEW r \in Request, NEW kinds \in SUBSET Parent, ask[r].kind \in Kind, Add(r, kinds)
    PROVE  Step(r)
  <1>1. CASE Insert(r, New(r, kinds), 201)
    <2>1. /\ New(r, kinds) \in Columns
          /\ New(r, kinds).fields = [f \in Field |-> r]
          /\ New(r, kinds).deleted = FALSE
      BY NewRow
    <2> QED BY <1>1, <2>1, InsertAdds DEF Step, Modifies
  <1>2. CASE ~Insert(r, New(r, kinds), 201)
    BY <1>2 DEF Add, Step, Check, Moves, Place, Code, TypeOK, RequestsTyped
  <1> QED BY <1>1, <1>2

LEMMA UpdateSteps ==
    ASSUME TypeOK, NEW r \in Request, ask[r].kind \in Kind, Update(r) \/ SoftDelete(r)
    PROVE  Step(r)
  <1>1. CASE Writable(r)
    BY <1>1, WritableMoves DEF Step
  <1>2. CASE Write(r, Patched)
    BY <1>2, PatchChanges DEF Step, Modifies
  <1>3. CASE Write(r, Deleted)
    BY <1>3, DeleteChanges DEF Step, Modifies
  <1> QED BY <1>1, <1>2, <1>3 DEF Update, SoftDelete

LEMMA RepositorySteps ==
    ASSUME TypeOK, NEW r \in Request, Brands(r) \/ Projects(r) \/ Generations(r) \/ Assets(r)
    PROVE  Step(r)
  <1>1. ask[r].kind \in Kind
    BY DEF Brands, Projects, Generations, Assets, Kind
  <1>2. CASE Create(r)
    BY <1>2, WritableMoves DEF Step
  <1>3. CASE Update(r) \/ SoftDelete(r)
    BY <1>1, <1>3, UpdateSteps
  <1>4. CASE \E kinds \in SUBSET Parent : Add(r, kinds)
    BY <1>1, <1>4, AddSteps
  <1>5. CASE PathTaken(r)
    BY <1>5 DEF PathTaken, Refuse, Check, Step, Moves, Place, Code, TypeOK, RequestsTyped
  <1>6. {} \in SUBSET Parent /\ {"brand"} \in SUBSET Parent /\ {"content", "brand", "project"} \in SUBSET Parent
    BY DEF Parent
  <1>7. Add(r, {}) \/ Add(r, {"brand"}) \/ Add(r, {"content", "brand", "project"})
        \/ Add(r, {"brand", "project", "content"}) => \E kinds \in SUBSET Parent : Add(r, kinds)
    <2>1. {"brand", "project", "content"} \in SUBSET Parent
      BY DEF Parent
    <2> QED BY <1>6, <2>1
  <1> QED BY <1>2, <1>3, <1>4, <1>5, <1>7
          DEF Brands, Projects, Generations, Assets,
              BrandRepository, ProjectRepository, GenerationRepository, AssetRepository

LEMMA SettingsSteps ==
    ASSUME TypeOK, NEW r \in Request, BrandSettings(r)
    PROVE  Step(r)
  <1>1. ask[r].kind = "brand_settings" /\ ask[r].kind \in Kind
    BY DEF BrandSettings, Kind
  <1>2. CASE Update(r) \/ SoftDelete(r)
    BY <1>1, <1>2, UpdateSteps
  <1>3. CASE Write(r, Revived)
    BY <1>1, <1>3, ReviveChanges DEF Step, Modifies
  <1>4. CASE Insert(r, New(r, {"brand"}), 200)
    <2>1. {"brand"} \in SUBSET Parent
      BY DEF Parent
    <2>2. /\ New(r, {"brand"}) \in Columns
          /\ New(r, {"brand"}).fields = [f \in Field |-> r]
          /\ New(r, {"brand"}).deleted = FALSE
      BY <2>1, NewRow
    <2> QED BY <1>1, <1>4, <2>2, InsertAdds DEF Step, Modifies
  <1>5. CASE LoadSettings(r)
    BY <1>5 DEF LoadSettings, Goto, Step, Moves, Place, TypeOK, RequestsTyped
  <1>6. CASE Upsert(r) /\ ~Write(r, Revived) /\ ~Insert(r, New(r, {"brand"}), 200) /\ ~LoadSettings(r)
    BY <1>6 DEF Upsert, RequireWorkspaceWrite, Refuse, Check, Step, Moves, Place, Code, TypeOK, RequestsTyped
  <1> QED BY <1>2, <1>3, <1>4, <1>5, <1>6 DEF BrandSettings

LEMMA ContentSteps ==
    ASSUME TypeOK, NEW r \in Request, Contents(r)
    PROVE  Step(r)
  <1>1. ask[r].kind \in Kind
    BY DEF Contents, Kind
  <1>2. CASE Insert(r, New(r, {"brand", "project"}), 201)
    <2>1. {"brand", "project"} \in SUBSET Parent
      BY DEF Parent
    <2>2. /\ New(r, {"brand", "project"}) \in Columns
          /\ New(r, {"brand", "project"}).fields = [f \in Field |-> r]
          /\ New(r, {"brand", "project"}).deleted = FALSE
      BY <2>1, NewRow
    <2> QED BY <1>1, <1>2, <2>2, InsertAdds DEF Step, Modifies
  <1>3. CASE CreateContent(r) /\ ~Insert(r, New(r, {"brand", "project"}), 201)
    BY <1>3 DEF CreateContent, RequireWorkspaceWrite, Check, Step, Moves, Place, Code, TypeOK, RequestsTyped
  <1>4. CASE (\A x \in Target(r) : ReferencesHold(row, Repatched(x, r))) /\ Write(r, Repatched)
    BY <1>1, <1>4, RepatchChanges DEF Step, Modifies
  <1>5. CASE Write(r, Deleted)
    BY <1>1, <1>5, DeleteChanges DEF Step, Modifies
  <1>6. CASE RequireContentWrite(r)
    BY <1>6 DEF RequireContentWrite, RequireWorkspaceWrite, Check, Step, Moves, Place, Code, TypeOK, RequestsTyped
  <1>7. CASE UpdateContent(r) /\ ~RequireContentWrite(r)
             /\ ~((\A x \in Target(r) : ReferencesHold(row, Repatched(x, r))) /\ Write(r, Repatched))
    <2>1. \/ Check(r, "start", Finds(r), "role", 404)
          \/ Check(r, "get", \A x \in Target(r) : ~row[x].deleted, "write", 404)
          \/ Refuse(r, "write", 500)
      BY <1>7 DEF UpdateContent
    <2> QED BY <2>1 DEF Refuse, Check, Step, Moves, Place, Code, TypeOK, RequestsTyped
  <1>8. CASE DeleteContent(r) /\ ~RequireContentWrite(r) /\ ~Write(r, Deleted)
    BY <1>8 DEF DeleteContent, Check, Step, Moves, Place, Code, TypeOK, RequestsTyped
  <1> QED BY <1>2, <1>3, <1>4, <1>5, <1>6, <1>7, <1>8 DEF Contents

LEMMA ProviderMoves ==
    ASSUME TypeOK, NEW r \in Request,
           CallProvider(r, Goto(r, "access")) \/ CallProvider(r, Reply(r, 200))
    PROVE  Moves(r)
  <1>1. pc[r] = "provider" /\ UNCHANGED <<ask, loaded, database>>
    BY DEF CallProvider
  <1>2. Goto(r, "access") \/ Reply(r, 200) \/ \E failure \in Failures : Reply(r, ErrorCode[failure])
    BY DEF CallProvider
  <1>3. \A failure \in Failures : ErrorCode[failure] \in Code
    BY FailuresAssumption DEF ErrorCode, Code
  <1> QED BY <1>1, <1>2, <1>3 DEF Moves, Place, Code, TypeOK, RequestsTyped

\* A text generation adds its Content and its Generation, which refers to it.
LEMMA TextIsAdded ==
    ASSUME TypeOK, NEW r \in Request, ask[r].op = "generate", pc[r] = "insert",
           row' = [row EXCEPT ![<<"content", r>>] = New(r, {}),
                              ![<<"generation", r>>] = [New(r, {}) EXCEPT !.refs["content"] = r]],
           UNCHANGED workspaces
    PROVE  AddsText(r)
  <1>1. {} \in SUBSET Parent
    OBVIOUS
  <1>2. /\ New(r, {}) \in Columns
        /\ New(r, {}).workspace = ask[r].workspace
        /\ New(r, {}).fields = [f \in Field |-> r]
        /\ New(r, {}).deleted = FALSE
    BY <1>1, NewRow
  <1>3. New(r, {}).refs = [k \in Parent |-> None]
    BY DEF New
  <1>4. [New(r, {}) EXCEPT !.refs["content"] = r] \in Columns
    BY <1>2 DEF Columns, Id
  <1> QED BY <1>2, <1>3, <1>4 DEF AddsText

LEMMA TextSteps ==
    ASSUME TypeOK, NEW r \in Request, Texts(r)
    PROVE  Step(r)
  <1>1. CASE CallProvider(r, Goto(r, "access")) \/ CallProvider(r, Reply(r, 200))
    BY <1>1, ProviderMoves DEF Step
  <1>2. CASE GenerateContent(r) /\ CreateTextGeneration(r)
    <2>1. ask[r].op = "generate"
      BY <1>2 DEF GenerateContent
    <2>2. CASE Check(r, "access", UserHasWorkspaceAccess(ask[r].user, ask[r].workspace), "insert", 500)
      BY <2>2 DEF Check, Step, Moves, Place, Code, TypeOK, RequestsTyped
    <2>3. CASE Refuse(r, "insert", 500)
      BY <2>3 DEF Refuse, Check, Step, Moves, Place, Code, TypeOK, RequestsTyped
    <2>4. CASE /\ ~Check(r, "access", UserHasWorkspaceAccess(ask[r].user, ask[r].workspace), "insert", 500)
               /\ ~Refuse(r, "insert", 500)
      <3>1. /\ pc[r] = "insert"
            /\ row' = [row EXCEPT ![<<"content", r>>] = New(r, {}),
                                   ![<<"generation", r>>] = [New(r, {}) EXCEPT !.refs["content"] = r]]
            /\ Reply(r, 200)
            /\ UNCHANGED <<ask, loaded, workspaces>>
        BY <1>2, <2>4 DEF CreateTextGeneration, TextContent, TextGeneration
      <3>2. AddsText(r)
        BY <2>1, <3>1, TextIsAdded
      <3> QED BY <3>1, <3>2 DEF Step, Finishes, Modifies
    <2> QED BY <2>2, <2>3, <2>4
  <1>3. CASE /\ GenerateContent(r) /\ ~CallProvider(r, Goto(r, "access")) /\ ~CreateTextGeneration(r)
    BY <1>3 DEF GenerateContent, Check, Step, Moves, Place, Code, TypeOK, RequestsTyped
  <1>4. CASE ImproveContent(r) /\ ~CallProvider(r, Reply(r, 200))
    BY <1>4 DEF ImproveContent, Refuse, Check, Step, Moves, Place, Code, TypeOK, RequestsTyped
  <1> QED BY <1>1, <1>2, <1>3, <1>4 DEF Texts

LEMMA WorkspaceSteps ==
    ASSUME TypeOK, NEW r \in Request, Workspaces(r)
    PROVE  Step(r)
  <1>0. ask[r].workspace \in Workspace /\ ask[r].user \in User
    BY AskTyped
  <1>1. CASE CreateForUser(r)
    <2>1. Opens(r)
      BY <1>0, <1>1 DEF CreateForUser, Opens
    <2>2. Finishes(r)
      BY <1>1 DEF CreateForUser, Finishes
    <2> QED BY <2>1, <2>2 DEF Step, Modifies
  <1>2. CASE SoftDeleteForUser(r)
    <2>1. CASE role[ask[r].workspace][ask[r].user] = "owner" /\ state[ask[r].workspace] = "live"
      <3>1. Closes(r)
        BY <1>0, <1>2, <2>1 DEF SoftDeleteForUser, Closes
      <3>2. Finishes(r)
        BY <1>2, <2>1 DEF SoftDeleteForUser, Finishes
      <3> QED BY <3>1, <3>2 DEF Step, Modifies
    <2>2. CASE ~(role[ask[r].workspace][ask[r].user] = "owner" /\ state[ask[r].workspace] = "live")
      BY <1>2, <2>2 DEF SoftDeleteForUser, Step, Moves, Code, database, workspaces, TypeOK, RequestsTyped
    <2> QED BY <2>1, <2>2
  <1>3. CASE UpdateWorkspace(r)
    <2>1. CASE /\ pc[r] = "write"
               /\ name' = [name EXCEPT ![ask[r].workspace] = r]
               /\ Reply(r, 200)
               /\ UNCHANGED <<ask, loaded, state, role, row>>
      BY <1>0, <2>1 DEF Renames, Finishes, Step, Modifies
    <2>2. CASE Check(r, "start", UserHasWorkspaceRole(ask[r].user, ask[r].workspace, "admin"), "get", 404)
               \/ Check(r, "get", state[ask[r].workspace] = "live", "write", 404)
      BY <2>2 DEF Check, Step, Moves, Place, Code, TypeOK, RequestsTyped
    <2> QED BY <1>3, <2>1, <2>2 DEF UpdateWorkspace
  <1> QED BY <1>1, <1>2, <1>3 DEF Workspaces

LEMMA NextSteps ==
    ASSUME TypeOK, [Next]_vars
    PROVE  UNCHANGED vars \/ \E r \in Request : Step(r)
  BY WorkspaceSteps, RepositorySteps, SettingsSteps, ContentSteps, TextSteps DEF Next
-----------------------------------------------------------------------------
(* The inductive invariant. *)

WroteNothing(r) ==
    /\ \A w \in Workspace : name[w] # r
    /\ \A x \in Row : row[x] # None => \A f \in Field : row[x].fields[f] # r

\* A request that is not done has written nothing; no row has the id it may add.
Unwritten ==
    \A r \in Request : pc[r] # "done" =>
        WroteNothing(r) /\ \A k \in Kind : row[<<k, r>>] = None

\* Rows are in Workspaces that were created.
Housed == \A x \in Row : row[x] # None => state[row[x].workspace] # None

\* A text is stored in a Workspace that was created.
Admitted ==
    \A r \in Request : ask[r].op = "generate" /\ pc[r] = "insert" => state[ask[r].workspace] # None

IInv == /\ TypeOK /\ Unwritten /\ Housed /\ Admitted
        /\ MembersOnlyOfLive /\ ReferencesWithinWorkspace /\ RefusedWritesNothing

\* What a modification of the database by r leaves as it was.
Keeps(r) ==
    /\ DatabaseTyped'
    /\ \A x \in Row : row[x] # None => row'[x] # None /\ row'[x].workspace = row[x].workspace
    /\ \A x \in Row : row[x] = None /\ row'[x] # None => x[2] = r
    /\ \A x \in Row, f \in Field : row'[x] # None =>
           row'[x].fields[f] = r \/ (row[x] # None /\ row'[x].fields[f] = row[x].fields[f])
    /\ \A w \in Workspace : state[w] # None => state'[w] # None
    /\ \A w \in Workspace : name'[w] \in {r, name[w]}
    /\ Housed' /\ MembersOnlyOfLive' /\ ReferencesWithinWorkspace'

\* Of a row that refers to rows of its Workspace, in a database that keeps its rows.
LEMMA AddsKeeps ==
    ASSUME IInv, NEW r \in Request, Finishes(r), Adds(r)
    PROVE  Keeps(r)
  <1>0. PICK k \in Kind, new \in Columns :
            /\ new.fields = [f \in Field |-> r] /\ new.deleted = FALSE
            /\ state[new.workspace] # None
            /\ ReferencesHold(row, new)
            /\ row' = [row EXCEPT ![<<k, r>>] = new]
            /\ UNCHANGED workspaces
    BY DEF Adds, AddsRow
  <1>1. row \in [Row -> Columns \union {None}] /\ <<k, r>> \in Row /\ r \in Id
    BY DEF IInv, TypeOK, DatabaseTyped, Row, Id
  <1>2. row[<<k, r>>] = None
    BY DEF IInv, Unwritten, Finishes
  <1>3. new # None
    BY NoneAssumption
  <1>4. DatabaseTyped'
    BY <1>0, <1>1 DEF IInv, TypeOK, DatabaseTyped, workspaces
  <1>5. \A x \in Row : row'[x] = IF x = <<k, r>> THEN new ELSE row[x]
    BY <1>0, <1>1
  <1>6. ReferencesWithinWorkspace'
    <2> SUFFICES ASSUME NEW x \in Row, NEW p \in Parent, row'[x] # None, row'[x].refs[p] # None
                 PROVE  /\ row'[<<p, row'[x].refs[p]>>] # None
                        /\ row'[<<p, row'[x].refs[p]>>].workspace = row'[x].workspace
      BY DEF ReferencesWithinWorkspace
    <2>1. row'[x] \in Columns /\ <<p, row'[x].refs[p]>> \in Row
      BY <1>4 DEF DatabaseTyped, Columns, Row, Parent, Kind
    <2>2. /\ row[<<p, row'[x].refs[p]>>] # None
          /\ row[<<p, row'[x].refs[p]>>].workspace = row'[x].workspace
      BY <1>0, <1>5 DEF ReferencesHold, IInv, ReferencesWithinWorkspace
    <2> QED BY <1>2, <1>5, <2>1, <2>2
  <1>7. Housed' /\ MembersOnlyOfLive'
    BY <1>0, <1>5 DEF IInv, Housed, MembersOnlyOfLive, workspaces
  <1>8. \A x \in Row, f \in Field : row'[x] # None =>
            row'[x].fields[f] = r \/ (row[x] # None /\ row'[x].fields[f] = row[x].fields[f])
    BY <1>0, <1>5
  <1> QED BY <1>0, <1>2, <1>3, <1>4, <1>5, <1>6, <1>7, <1>8 DEF Keeps, workspaces

LEMMA AddsTextKeeps ==
    ASSUME IInv, NEW r \in Request, Finishes(r), AddsText(r)
    PROVE  Keeps(r)
  <1>0. PICK new \in Columns, generation \in Columns :
            /\ new.workspace = ask[r].workspace
            /\ new.fields = [f \in Field |-> r] /\ new.deleted = FALSE
            /\ new.refs = [k \in Parent |-> None]
            /\ generation = [new EXCEPT !.refs["content"] = r]
            /\ ask[r].op = "generate" /\ pc[r] = "insert"
            /\ row' = [row EXCEPT ![<<"content", r>>] = new, ![<<"generation", r>>] = generation]
            /\ UNCHANGED workspaces
    BY DEF AddsText
  <1>1. /\ row \in [Row -> Columns \union {None}] /\ r \in Id
        /\ <<"content", r>> \in Row /\ <<"generation", r>> \in Row
    BY DEF IInv, TypeOK, DatabaseTyped, Row, Id, Kind
  <1>2. row[<<"content", r>>] = None /\ row[<<"generation", r>>] = None
    BY DEF IInv, Unwritten, Finishes, Kind
  <1>3. /\ new # None /\ generation # None /\ r # None
        /\ generation.workspace = new.workspace
        /\ generation.fields = new.fields
        /\ generation.refs = [k \in Parent |-> IF k = "content" THEN r ELSE None]
    BY <1>0, <1>1, NoneAssumption DEF Columns, Parent
  <1>9. /\ new.workspace = ask[r].workspace /\ UNCHANGED workspaces
        /\ \A k \in Parent : new.refs[k] = None
        /\ \A f \in Field : new.fields[f] = r /\ generation.fields[f] = r
    BY <1>0, <1>3
  <1>4. DatabaseTyped'
    BY <1>0, <1>1 DEF IInv, TypeOK, DatabaseTyped, workspaces
  <1>5. \A x \in Row : row'[x] = IF x = <<"content", r>> THEN new
                                ELSE IF x = <<"generation", r>> THEN generation ELSE row[x]
    BY <1>0, <1>1
  <1>6. ReferencesWithinWorkspace'
    <2> SUFFICES ASSUME NEW x \in Row, NEW p \in Parent, row'[x] # None, row'[x].refs[p] # None
                 PROVE  /\ row'[<<p, row'[x].refs[p]>>] # None
                        /\ row'[<<p, row'[x].refs[p]>>].workspace = row'[x].workspace
      BY DEF ReferencesWithinWorkspace
    <2>1. row'[x] \in Columns /\ <<p, row'[x].refs[p]>> \in Row
      BY <1>4 DEF DatabaseTyped, Columns, Row, Parent, Kind
    <2>2. CASE x = <<"content", r>>
      <3>1. row'[x] = new
        BY <1>5, <2>2
      <3> QED BY <1>9, <3>1
    <2>3. CASE x = <<"generation", r>>
      <3>1. row'[x] = generation
        BY <1>5, <2>3
      <3>2. p = "content" /\ row'[x].refs[p] = r
        BY <1>3, <3>1
      <3> QED BY <1>1, <1>3, <1>5, <3>1, <3>2
    <2>4. CASE x # <<"content", r>> /\ x # <<"generation", r>>
      <3>1. row'[x] = row[x]
        BY <1>5, <2>4
      <3>2. /\ row[<<p, row[x].refs[p]>>] # None
            /\ row[<<p, row[x].refs[p]>>].workspace = row[x].workspace
        BY <3>1 DEF IInv, ReferencesWithinWorkspace
      <3> QED BY <1>2, <1>5, <2>1, <3>1, <3>2
    <2> QED BY <2>2, <2>3, <2>4
  <1>7. Housed' /\ MembersOnlyOfLive'
    <2>1. state[new.workspace] # None
      BY <1>0 DEF IInv, Admitted
    <2>2. Housed'
      <3> SUFFICES ASSUME NEW x \in Row, row'[x] # None
                   PROVE  state'[row'[x].workspace] # None
        BY DEF Housed
      <3>1. row'[x].workspace = new.workspace \/ (row'[x] = row[x])
        BY <1>3, <1>5
      <3> QED BY <1>9, <2>1, <3>1 DEF IInv, Housed, workspaces
    <2> QED BY <1>9, <2>2 DEF IInv, MembersOnlyOfLive, workspaces
  <1>8. \A x \in Row, f \in Field : row'[x] # None =>
            row'[x].fields[f] = r \/ (row[x] # None /\ row'[x].fields[f] = row[x].fields[f])
    BY <1>5, <1>9
  <1>10. \A x \in Row : row[x] # None => row'[x] = row[x]
    BY <1>2, <1>5
  <1>11. \A x \in Row : row[x] = None /\ row'[x] # None => x[2] = r
    BY <1>5
  <1> QED BY <1>4, <1>6, <1>7, <1>8, <1>9, <1>10, <1>11 DEF Keeps, workspaces, IInv, TypeOK, DatabaseTyped

LEMMA ChangesKeeps ==
    ASSUME IInv, NEW r \in Request, Changes(r)
    PROVE  Keeps(r)
  <1>0. PICK x \in Row, new \in Columns :
            /\ row[x] # None
            /\ new.workspace = row[x].workspace
            /\ new.refs = row[x].refs \/ ReferencesHold(row, new)
            /\ \/ /\ new.deleted = row[x].deleted \/ (x[1] = "brand_settings" /\ new.deleted = FALSE)
                  /\ \A f \in Field : new.fields[f] \in {r, row[x].fields[f]}
               \/ new.deleted = TRUE /\ new.fields = row[x].fields
            /\ row' = [row EXCEPT ![x] = new]
            /\ UNCHANGED workspaces
    BY DEF Changes
  <1>1. row \in [Row -> Columns \union {None}] /\ new # None
    BY NoneAssumption DEF IInv, TypeOK, DatabaseTyped
  <1>2. DatabaseTyped'
    BY <1>0, <1>1 DEF IInv, TypeOK, DatabaseTyped, workspaces
  <1>3. \A y \in Row : row'[y] = IF y = x THEN new ELSE row[y]
    BY <1>0, <1>1
  <1>4. /\ row[x] # None /\ new.workspace = row[x].workspace /\ UNCHANGED workspaces
        /\ \A f \in Field : new.fields[f] \in {r, row[x].fields[f]}
    BY <1>0
  <1>5. \A y \in Row : /\ row[y] # None => row'[y] # None /\ row'[y].workspace = row[y].workspace
                       /\ row'[y] # None => row[y] # None
    BY <1>1, <1>3, <1>4
  <1>6. ReferencesWithinWorkspace'
    <2> SUFFICES ASSUME NEW y \in Row, NEW p \in Parent, row'[y] # None, row'[y].refs[p] # None
                 PROVE  /\ row'[<<p, row'[y].refs[p]>>] # None
                        /\ row'[<<p, row'[y].refs[p]>>].workspace = row'[y].workspace
      BY DEF ReferencesWithinWorkspace
    <2>1. row'[y] \in Columns /\ <<p, row'[y].refs[p]>> \in Row
      BY <1>2 DEF DatabaseTyped, Columns, Row, Parent, Kind
    <2>2. CASE y = x /\ ReferencesHold(row, new)
      <3>1. row'[y] = new
        BY <1>3, <2>2
      <3>2. /\ row[<<p, row'[y].refs[p]>>] # None
            /\ row[<<p, row'[y].refs[p]>>].workspace = row'[y].workspace
        BY <2>2, <3>1 DEF ReferencesHold
      <3> QED BY <1>5, <2>1, <3>2
    <2>3. CASE ~(y = x /\ ReferencesHold(row, new))
      <3>1. row[y] # None /\ row'[y].refs = row[y].refs /\ row'[y].workspace = row[y].workspace
        BY <1>0, <1>3, <1>5, <2>3
      <3>2. /\ row[<<p, row'[y].refs[p]>>] # None
            /\ row[<<p, row'[y].refs[p]>>].workspace = row'[y].workspace
        BY <3>1 DEF IInv, ReferencesWithinWorkspace
      <3> QED BY <1>5, <2>1, <3>2
    <2> QED BY <2>2, <2>3
  <1>7. Housed' /\ MembersOnlyOfLive'
    BY <1>4, <1>5 DEF IInv, Housed, MembersOnlyOfLive, workspaces
  <1>8. \A y \in Row, f \in Field : row'[y] # None =>
            row'[y].fields[f] = r \/ (row[y] # None /\ row'[y].fields[f] = row[y].fields[f])
    BY <1>3, <1>4, <1>5
  <1> QED BY <1>2, <1>4, <1>5, <1>6, <1>7, <1>8 DEF Keeps, workspaces, IInv, TypeOK, DatabaseTyped

LEMMA WorkspacesKeep ==
    ASSUME IInv, NEW r \in Request, Renames(r) \/ Opens(r) \/ Closes(r)
    PROVE  Keeps(r)
  <1>1. row' = row
    BY DEF Renames, Opens, Closes
  <1>2. DatabaseTyped'
    <2>1. CASE Renames(r)
      BY <1>1, <2>1 DEF Renames, IInv, TypeOK, DatabaseTyped
    <2>2. CASE Opens(r)
      BY <1>1, <2>2 DEF Opens, IInv, TypeOK, DatabaseTyped, Role, ROLE_RANK
    <2>3. CASE Closes(r)
      BY <1>1, <2>3 DEF Closes, IInv, TypeOK, DatabaseTyped
    <2> QED BY <2>1, <2>2, <2>3
  <1>3. \A w \in Workspace : (state[w] # None => state'[w] # None) /\ name'[w] \in {r, name[w]}
    BY NoneAssumption DEF Renames, Opens, Closes, IInv, TypeOK, DatabaseTyped
  <1>4. Housed'
    BY <1>1, <1>3 DEF IInv, Housed, TypeOK, DatabaseTyped, Columns
  <1>5. MembersOnlyOfLive'
    BY NoneAssumption DEF Renames, Opens, Closes, IInv, MembersOnlyOfLive, TypeOK, DatabaseTyped
  <1>6. ReferencesWithinWorkspace'
    BY <1>1 DEF IInv, ReferencesWithinWorkspace
  <1> QED BY <1>1, <1>2, <1>3, <1>4, <1>5, <1>6 DEF Keeps

\* The invariant holds at first.
LEMMA InitIInv ==
    ASSUME Init
    PROVE  IInv
  <1>1. TypeOK
    <2>1. RequestsTyped
      BY DEF Init, RequestsTyped
    <2>2. DatabaseTyped
      BY MembershipsAssumption, RowsAssumption DEF Init, DatabaseTyped
    <2> QED BY <2>1, <2>2 DEF TypeOK
  <1>2. Housed
    <2> SUFFICES ASSUME NEW x \in Row, row[x] # None
                 PROVE  state[row[x].workspace] # None
      BY DEF Housed
    <2>1. row[x] \in Columns
      BY <1>1 DEF TypeOK, DatabaseTyped
    <2>2. row[x].workspace \in Workspace /\ \E u \in User : Memberships[row[x].workspace][u] # None
      BY <2>1, RowsAssumption DEF Init, Columns
    <2> QED BY <2>2, NoneAssumption DEF Init
  <1>3. Unwritten
    <2> SUFFICES ASSUME NEW r \in Request
                 PROVE  WroteNothing(r) /\ \A k \in Kind : row[<<k, r>>] = None
      BY DEF Unwritten
    <2>1. \A k \in Kind : row[<<k, r>>] = None
      BY RowsAssumption DEF Init
    <2>2. \A w \in Workspace : name[w] # r
      BY NoneAssumption DEF Init, Id
    <2>3. \A x \in Row : row[x] # None => \A f \in Field : row[x].fields[f] # r
      BY RowsAssumption, IdAssumption DEF Init
    <2> QED BY <2>1, <2>2, <2>3 DEF WroteNothing
  <1>4. Admitted /\ RefusedWritesNothing
    BY DEF Init, Admitted, RefusedWritesNothing
  <1>5. MembersOnlyOfLive
    BY DEF Init, MembersOnlyOfLive
  <1>6. ReferencesWithinWorkspace
    BY RowsAssumption DEF Init, ReferencesHold, ReferencesWithinWorkspace
  <1> QED BY <1>1, <1>2, <1>3, <1>4, <1>5, <1>6 DEF IInv

\* Only GenerateContent serves a request that generates a text.
LEMMA GenerateServed ==
    ASSUME NEW r \in Request, ask[r].op = "generate",
           \/ Workspaces(r) \/ Brands(r) \/ BrandSettings(r) \/ Projects(r)
           \/ Contents(r) \/ Generations(r) \/ Assets(r) \/ Texts(r)
    PROVE  GenerateContent(r)
  <1>1. ~Workspaces(r)
    BY DEF Workspaces, CreateForUser, UpdateWorkspace, SoftDeleteForUser
  <1>2. ~Create(r) /\ ~Update(r) /\ ~SoftDelete(r) /\ ~PathTaken(r) /\ \A kinds : ~Add(r, kinds)
    BY DEF Create, Update, SoftDelete, PathTaken, Add
  <1>3. ~Brands(r) /\ ~Projects(r) /\ ~Generations(r) /\ ~Assets(r)
    BY <1>2 DEF Brands, Projects, Generations, Assets,
                BrandRepository, ProjectRepository, GenerationRepository, AssetRepository
  <1>4. ~BrandSettings(r)
    BY <1>2 DEF BrandSettings, Upsert
  <1>5. ~Contents(r)
    BY DEF Contents, CreateContent, UpdateContent, DeleteContent
  <1>6. ~ImproveContent(r)
    BY DEF ImproveContent
  <1> QED BY <1>1, <1>3, <1>4, <1>5, <1>6 DEF Texts

\* GenerateContent asks for access before it stores a text.
LEMMA AdmittedKept ==
    ASSUME IInv, NEW r \in Request, Step(r),
           \A w \in Workspace : state[w] # None => state'[w] # None,
           \/ Workspaces(r) \/ Brands(r) \/ BrandSettings(r) \/ Projects(r)
           \/ Contents(r) \/ Generations(r) \/ Assets(r) \/ Texts(r)
    PROVE  Admitted'
  <1> SUFFICES ASSUME NEW q \in Request, ask'[q].op = "generate", pc'[q] = "insert"
               PROVE  state'[ask'[q].workspace] # None
    BY DEF Admitted
  <1>0. TypeOK /\ ask' = ask /\ ask[q].workspace \in Workspace
    BY AskTyped DEF IInv, Step, Moves, Finishes
  <1>1. CASE pc[q] = "insert"
    BY <1>0, <1>1 DEF IInv, Admitted
  <1>2. CASE pc[q] # "insert"
    <2>1. q = r
      BY <1>0, <1>2 DEF Step, Moves, Finishes, Goto, Reply, TypeOK, RequestsTyped
    <2>2. GenerateContent(q)
      BY <1>0, <2>1, GenerateServed
    <2>3. Check(q, "access", UserHasWorkspaceAccess(ask[q].user, ask[q].workspace), "insert", 500)
      BY <1>0, <1>2, <2>2
         DEF GenerateContent, CreateTextGeneration, CallProvider, Refuse, Check, Goto, Reply, TypeOK, RequestsTyped
    <2>4. UserHasWorkspaceAccess(ask[q].user, ask[q].workspace)
      BY <1>0, <2>3 DEF Check, Reply, TypeOK, RequestsTyped
    <2> QED BY <1>0, <2>4, NoneAssumption DEF UserHasWorkspaceAccess
  <1> QED BY <1>1, <1>2

LEMMA QuietKeepsIInv ==
    ASSUME IInv, NEW r \in Request, Moves(r), Admitted'
    PROVE  IInv'
  <1>1. RequestsTyped' /\ Quiet
    BY MovesAreQuiet DEF IInv
  <1>2. UNCHANGED <<state, role, name, row>>
    BY <1>1 DEF Quiet, database, workspaces
  <1>3. TypeOK'
    BY <1>1, <1>2 DEF IInv, TypeOK, DatabaseTyped
  <1>4. Unwritten'
    BY <1>1, <1>2 DEF IInv, Unwritten, WroteNothing, Quiet
  <1>5. RefusedWritesNothing'
    BY <1>1, <1>2 DEF IInv, RefusedWritesNothing, Unwritten, WroteNothing, Quiet
  <1>6. Housed' /\ MembersOnlyOfLive' /\ ReferencesWithinWorkspace'
    BY <1>2 DEF IInv, Housed, MembersOnlyOfLive, ReferencesWithinWorkspace
  <1> QED BY <1>3, <1>4, <1>5, <1>6 DEF IInv

\* What r writes bears the name of r, which is answered with a success.
LEMMA WriteKeepsIInv ==
    ASSUME IInv, NEW r \in Request, Finishes(r), Keeps(r), Admitted'
    PROVE  IInv'
  <1>1. TypeOK'
    BY FinishedTyped DEF IInv, Keeps, TypeOK
  <1>2. ASSUME NEW q \in Request, q # r, WroteNothing(q)
        PROVE  WroteNothing(q)'
    BY <1>2 DEF Keeps, WroteNothing
  <1>3. /\ pc'[r] = "done" /\ answer'[r] \in {200, 201}
        /\ \A q \in Request : q # r => pc'[q] = pc[q] /\ answer'[q] = answer[q]
    BY DEF Finishes, Reply, IInv, TypeOK, RequestsTyped
  <1>4. Unwritten'
    <2> SUFFICES ASSUME NEW q \in Request, pc'[q] # "done"
                 PROVE  WroteNothing(q)' /\ \A k \in Kind : row'[<<k, q>>] = None
      BY DEF Unwritten
    <2>1. q # r /\ pc[q] # "done"
      BY <1>3
    <2>2. WroteNothing(q)'
      BY <1>2, <2>1 DEF IInv, Unwritten
    <2>3. \A k \in Kind : <<k, q>> \in Row /\ row[<<k, q>>] = None
      BY <2>1 DEF IInv, Unwritten, Row, Id
    <2> QED BY <2>1, <2>2, <2>3 DEF Keeps
  <1>5. RefusedWritesNothing'
    <2> SUFFICES ASSUME NEW q \in Request, answer'[q] >= 400
                 PROVE  WroteNothing(q)'
      BY DEF RefusedWritesNothing, WroteNothing
    <2>1. q # r /\ answer[q] >= 400
      BY <1>3
    <2>2. WroteNothing(q)
      BY <2>1 DEF IInv, RefusedWritesNothing, WroteNothing
    <2> QED BY <1>2, <2>1, <2>2
  <1> QED BY <1>1, <1>4, <1>5 DEF IInv, Keeps

LEMMA ModifiesKeeps ==
    ASSUME IInv, NEW r \in Request, Finishes(r), Modifies(r)
    PROVE  Keeps(r)
  BY AddsKeeps, AddsTextKeeps, ChangesKeeps, WorkspacesKeep DEF Modifies

LEMMA NextIInv ==
    ASSUME IInv, [Next]_vars
    PROVE  IInv'
  <1>1. CASE UNCHANGED vars
    BY <1>1 DEF vars, request, database, workspaces, IInv, TypeOK, RequestsTyped, DatabaseTyped,
                Unwritten, WroteNothing, Housed, Admitted, MembersOnlyOfLive,
                ReferencesWithinWorkspace, RefusedWritesNothing
  <1>2. ASSUME NEW r \in Request,
               \/ Workspaces(r) \/ Brands(r) \/ BrandSettings(r) \/ Projects(r)
               \/ Contents(r) \/ Generations(r) \/ Assets(r) \/ Texts(r)
        PROVE  IInv'
    <2>0. TypeOK
      BY DEF IInv
    <2>1. Step(r)
      BY <1>2, <2>0, WorkspaceSteps, RepositorySteps, SettingsSteps, ContentSteps, TextSteps
    <2>2. CASE Moves(r)
      <3>1. \A w \in Workspace : state[w] # None => state'[w] # None
        BY <2>2 DEF Moves, database, workspaces
      <3> QED BY <1>2, <2>1, <2>2, <3>1, AdmittedKept, QuietKeepsIInv
    <2>3. CASE Finishes(r) /\ Modifies(r)
      <3>1. Keeps(r)
        BY <2>3, ModifiesKeeps
      <3>2. Admitted'
        BY <1>2, <2>1, <3>1, AdmittedKept DEF Keeps
      <3> QED BY <2>3, <3>1, <3>2, WriteKeepsIInv
    <2> QED BY <2>1, <2>2, <2>3 DEF Step
  <1> QED BY <1>1, <1>2 DEF Next

LEMMA IInvHolds == Spec => []IInv
  BY InitIInv, NextIInv, PTL DEF Spec
-----------------------------------------------------------------------------
\* Every variable keeps its type: the references and columns of every row, and
\* the response of every request, for any number of users, requests and rows.
THEOREM CatalogTypeCorrect == Spec => []TypeOK
  <1>1. IInv => TypeOK
    BY DEF IInv
  <1> QED BY <1>1, IInvHolds, PTL

\* A deleted Workspace has no Membership, and never gets one again.
THEOREM MembershipsEnd == Spec => []MembersOnlyOfLive
  <1>1. IInv => MembersOnlyOfLive
    BY DEF IInv
  <1> QED BY <1>1, IInvHolds, PTL

\* No order of concurrent inserts, updates and deletions makes a row refer to a
\* row of another Workspace, or to none.
THEOREM ReferencesStay == Spec => []ReferencesWithinWorkspace
  <1>1. IInv => ReferencesWithinWorkspace
    BY DEF IInv
  <1> QED BY <1>1, IInvHolds, PTL

\* Whichever statement of a request fails, and whatever its answer is, a request
\* that is refused leaves the database as it would be without it.
THEOREM RefusalsLeaveNothing == Spec => []RefusedWritesNothing
  <1>1. IInv => RefusedWritesNothing
    BY DEF IInv
  <1> QED BY <1>1, IInvHolds, PTL
-----------------------------------------------------------------------------
(* Catalog implements CatalogView. *)

\* What is shown of a row: the members of its Workspace see it until it is deleted.
Seen(x) == row[x] # None /\ row[x].deleted = FALSE /\ LiveMembers[row[x].workspace] # {}
Face(x) == [workspace |-> row[x].workspace, fields |-> row[x].fields]

SeenRows ==
    \A x \in Row : /\ ShownRows[x] = IF Seen(x) THEN Face(x) ELSE None
                   /\ Seen(x) => Face(x) \in Shown /\ Face(x) # None

LEMMA RowsAreSeen ==
    ASSUME IInv
    PROVE  SeenRows
  <1> SUFFICES ASSUME NEW x \in Row
               PROVE  /\ ShownRows[x] = IF Seen(x) THEN Face(x) ELSE None
                      /\ Seen(x) => Face(x) \in Shown /\ Face(x) # None
    BY DEF SeenRows
  <1>1. row[x] # None => row[x] \in Columns /\ row[x].workspace \in Workspace /\ row[x].deleted \in BOOLEAN
    BY DEF IInv, TypeOK, DatabaseTyped, Columns
  <1>2. row[x] # None => (Seen(x) <=> row[x].deleted = FALSE /\ \E u \in User : role[row[x].workspace][u] # None)
    BY <1>1 DEF Seen, LiveMembers
  <1>3. ASSUME NEW u \in User, row[x] # None
        PROVE  Scoped(u, x) <=> role[row[x].workspace][u] # None
    BY <1>1, <1>3 DEF Scoped, ScopedContent, ScopedResource, UserHasWorkspaceAccess, IInv, MembersOnlyOfLive
  <1>4. (\E u \in User : VisibleTo(u, x)) <=> Seen(x)
    <2>1. CASE row[x] = None
      BY <2>1 DEF Seen, VisibleTo, Scoped, ScopedContent, ScopedResource
    <2>2. CASE row[x] # None
      BY <1>1, <1>2, <1>3, <2>2 DEF VisibleTo
    <2> QED BY <2>1, <2>2
  <1>5. ShownRows[x] = IF Seen(x) THEN Face(x) ELSE None
    BY <1>4 DEF ShownRows, Face
  <1>6. Seen(x) => Face(x) \in Shown
    BY <1>1 DEF Seen, Face, Shown, Columns
  <1> QED BY <1>5, <1>6, ShownAssumption

LEMMA InitView ==
    ASSUME Init
    PROVE  View!Init
  <1>1. IInv /\ SeenRows
    BY InitIInv, RowsAreSeen
  <1>2. LiveMembers \in [Workspace -> SUBSET User]
    BY DEF LiveMembers
  <1>3. DeletedWorkspaces = {}
    BY NoneAssumption DEF Init, DeletedWorkspaces
  <1>4. DeletedRows \subseteq Final
    BY DEF DeletedRows
  <1>5. ShownRows \in [Row -> Shown \union {None}]
    <2>1. ASSUME NEW x \in Row
          PROVE  ShownRows[x] \in Shown \union {None}
      <3>1. CASE Seen(x)
        BY <1>1, <3>1 DEF SeenRows
      <3>2. CASE ~Seen(x)
        BY <1>1, <3>2 DEF SeenRows
      <3> QED BY <3>1, <3>2
    <2> QED BY <2>1 DEF ShownRows
  <1>6. ASSUME NEW x \in Row, ShownRows[x] # None
        PROVE  x \notin DeletedRows /\ LiveMembers[ShownRows[x].workspace] # {}
    <2>1. Seen(x) /\ ShownRows[x] = Face(x)
      BY <1>1, <1>6 DEF SeenRows
    <2>2. ShownRows[x].workspace = row[x].workspace
      BY <2>1 DEF Face
    <2>3. x \notin DeletedRows
      BY <2>1 DEF Seen, DeletedRows
    <2> QED BY <2>1, <2>2, <2>3 DEF Seen
  <1> QED BY <1>2, <1>3, <1>4, <1>5, <1>6 DEF View!Init, View!Shown, Shown

LEMMA SameView ==
    ASSUME UNCHANGED <<state, role, row>>
    PROVE  UNCHANGED View!vars
  BY DEF View!vars, LiveMembers, DeletedWorkspaces, DeletedRows, ShownRows, VisibleTo, Scoped,
         ScopedContent, ScopedResource, UserHasWorkspaceAccess

LEMMA SameWorkspaces ==
    ASSUME UNCHANGED workspaces
    PROVE  LiveMembers' = LiveMembers /\ DeletedWorkspaces' = DeletedWorkspaces
  BY DEF workspaces, LiveMembers, DeletedWorkspaces

\* Rows that were not seen and look the same appear, together, or stay unseen.
LEMMA ShowView ==
    ASSUME SeenRows, SeenRows', UNCHANGED workspaces, DeletedRows' = DeletedRows, NEW X \in SUBSET Row,
           \A x \in Row \ X : row'[x] = row[x],
           \A x \in X : ~Seen(x) /\ x \notin DeletedRows,
           \A x, y \in X : Face(x)' = Face(y)'
    PROVE  View!Show
  <1>1. LiveMembers' = LiveMembers /\ DeletedWorkspaces' = DeletedWorkspaces
    BY SameWorkspaces
  <1> DEFINE appears == {x \in Row : ShownRows[x] = None /\ ShownRows'[x] # None}
  <1>2. ASSUME NEW x \in Row, x \notin X
        PROVE  ShownRows'[x] = ShownRows[x]
    <2>1. Seen(x)' = Seen(x) /\ Face(x)' = Face(x)
      BY <1>1, <1>2 DEF Seen, Face
    <2> QED BY <2>1 DEF SeenRows
  <1>3. \A x \in X : ShownRows[x] = None
    BY DEF SeenRows
  <1>4. appears \subseteq X /\ \A x \in Row \ appears : ShownRows'[x] = ShownRows[x]
    BY <1>2, <1>3
  <1>5. ASSUME NEW x \in appears
        PROVE  /\ x \in X /\ Seen(x)' /\ ShownRows'[x] = Face(x)'
               /\ LiveMembers[ShownRows'[x].workspace] # {}
    <2>1. x \in Row /\ x \in X /\ ShownRows'[x] # None
      BY <1>4
    <2>2. Seen(x)' /\ ShownRows'[x] = Face(x)'
      BY <2>1 DEF SeenRows
    <2>3. ShownRows'[x].workspace = row'[x].workspace
      BY <2>2 DEF Face
    <2> QED BY <1>1, <2>1, <2>2, <2>3 DEF Seen
  <1>6. ShownRows' \in [Row -> Shown \union {None}]
    <2>1. ASSUME NEW x \in Row
          PROVE  ShownRows'[x] \in Shown \union {None}
      BY DEF SeenRows
    <2> QED BY <2>1 DEF ShownRows
  <1>7. \A x, y \in appears : ShownRows'[x] = ShownRows'[y]
    BY <1>5
  <1>8. \A x \in appears : x \notin DeletedRows /\ LiveMembers[ShownRows'[x].workspace] # {}
    BY <1>5
  <1> QED BY <1>1, <1>4, <1>6, <1>7, <1>8 DEF View!Show, View!Shown, Shown

LEMMA AddsView ==
    ASSUME IInv, SeenRows, SeenRows', NEW r \in Request, Finishes(r), Adds(r)
    PROVE  View!Show
  <1>0. PICK k \in Kind, new \in Columns :
            /\ new.deleted = FALSE
            /\ row' = [row EXCEPT ![<<k, r>>] = new]
            /\ UNCHANGED workspaces
    BY DEF Adds, AddsRow
  <1>1. row \in [Row -> Columns \union {None}] /\ <<k, r>> \in Row
    BY DEF IInv, TypeOK, DatabaseTyped, Row, Id
  <1>2. row[<<k, r>>] = None
    BY DEF IInv, Unwritten, Finishes
  <1>3. \A x \in Row : row'[x] = IF x = <<k, r>> THEN new ELSE row[x]
    BY <1>0, <1>1
  <1>4. DeletedRows' = DeletedRows
    BY <1>0, <1>2, <1>3 DEF DeletedRows, Final, Row
  <1>5. ~Seen(<<k, r>>) /\ <<k, r>> \notin DeletedRows
    BY <1>2 DEF Seen, DeletedRows
  <1>6. \A x \in Row \ {<<k, r>>} : row'[x] = row[x]
    BY <1>3
  <1>7. {<<k, r>>} \in SUBSET Row
    BY <1>1
  <1>8. \A x, y \in {<<k, r>>} : Face(x)' = Face(y)'
    OBVIOUS
  <1>9. \A x \in {<<k, r>>} : ~Seen(x) /\ x \notin DeletedRows
    BY <1>5
  <1> QED BY <1>0, <1>4, <1>6, <1>7, <1>8, <1>9, ShowView

LEMMA AddsTextView ==
    ASSUME IInv, SeenRows, SeenRows', NEW r \in Request, Finishes(r), AddsText(r)
    PROVE  View!Show
  <1>0. PICK new \in Columns, generation \in Columns :
            /\ new.deleted = FALSE
            /\ generation = [new EXCEPT !.refs["content"] = r]
            /\ row' = [row EXCEPT ![<<"content", r>>] = new, ![<<"generation", r>>] = generation]
            /\ UNCHANGED workspaces
    BY DEF AddsText
  <1> DEFINE X == {<<"content", r>>, <<"generation", r>>}
  <1>1. row \in [Row -> Columns \union {None}] /\ X \in SUBSET Row
    BY DEF IInv, TypeOK, DatabaseTyped, Row, Id, Kind
  <1>2. \A x \in X : row[x] = None
    <2>1. row[<<"content", r>>] = None /\ row[<<"generation", r>>] = None
      BY DEF IInv, Unwritten, Finishes, Kind
    <2> QED BY <2>1
  <1>3. /\ generation.deleted = FALSE
        /\ generation.workspace = new.workspace
        /\ generation.fields = new.fields
    BY <1>0 DEF Columns
  <1>4. \A x \in Row : row'[x] = IF x = <<"content", r>> THEN new
                                ELSE IF x = <<"generation", r>> THEN generation ELSE row[x]
    BY <1>0, <1>1
  <1>5. \A x \in X : row'[x].deleted = FALSE /\ row'[x].workspace = new.workspace /\ row'[x].fields = new.fields
    BY <1>0, <1>1, <1>3, <1>4
  <1>6. \A x \in Row \ X : row'[x] = row[x]
    BY <1>4
  <1>7. DeletedRows' = DeletedRows
    <2>1. \A x \in Row : (row'[x] # None /\ row'[x].deleted) <=> (row[x] # None /\ row[x].deleted)
      BY <1>2, <1>5, <1>6
    <2>2. Final \subseteq Row
      BY DEF Final, Row
    <2> QED BY <2>1, <2>2 DEF DeletedRows
  <1>8. \A x \in X : ~Seen(x) /\ x \notin DeletedRows
    BY <1>2 DEF Seen, DeletedRows
  <1>9. \A x, y \in X : Face(x)' = Face(y)'
    BY <1>5 DEF Face
  <1> HIDE DEF X
  <1> QED BY <1>0, <1>1, <1>6, <1>7, <1>8, <1>9, ShowView

\* Columns of a row that is seen change, or of one that is not; Brand Settings
\* return; a row is deleted.
LEMMA ChangesView ==
    ASSUME IInv, SeenRows, SeenRows', NEW r \in Request, Changes(r)
    PROVE  [View!Next]_View!vars
  <1>0. PICK x \in Row, new \in Columns :
            /\ row[x] # None
            /\ new.workspace = row[x].workspace
            /\ \/ /\ new.deleted = row[x].deleted \/ (x[1] = "brand_settings" /\ new.deleted = FALSE)
                  /\ \A f \in Field : new.fields[f] \in {r, row[x].fields[f]}
               \/ new.deleted = TRUE /\ new.fields = row[x].fields
            /\ row' = [row EXCEPT ![x] = new]
            /\ UNCHANGED workspaces
    BY DEF Changes
  <1>1. row \in [Row -> Columns \union {None}] /\ new # None /\ row[x] \in Columns
    BY <1>0, NoneAssumption DEF IInv, TypeOK, DatabaseTyped
  <1>2. row[x].deleted \in BOOLEAN /\ new.deleted \in BOOLEAN
    BY <1>1 DEF Columns
  <1>3. \A y \in Row : row'[y] = IF y = x THEN new ELSE row[y]
    BY <1>0, <1>1
  <1>4. LiveMembers' = LiveMembers /\ DeletedWorkspaces' = DeletedWorkspaces
    BY <1>0, SameWorkspaces
  <1>5. \A y \in Row : y # x => ShownRows'[y] = ShownRows[y]
    <2> SUFFICES ASSUME NEW y \in Row, y # x
                 PROVE  ShownRows'[y] = ShownRows[y]
      OBVIOUS
    <2>1. Seen(y)' = Seen(y) /\ Face(y)' = Face(y)
      BY <1>3, <1>4 DEF Seen, Face
    <2> QED BY <2>1 DEF SeenRows
  <1>6. ShownRows' = [ShownRows EXCEPT ![x] = ShownRows'[x]]
    BY <1>5 DEF ShownRows
  <1>7. Seen(x)' <=> new.deleted = FALSE /\ LiveMembers[row[x].workspace] # {}
    BY <1>0, <1>1, <1>3, <1>4 DEF Seen
  <1>8. Seen(x) <=> row[x].deleted = FALSE /\ LiveMembers[row[x].workspace] # {}
    BY <1>0 DEF Seen
  <1>9. CASE new.deleted = TRUE
    <2>1. ShownRows'[x] = None
      BY <1>7, <1>9 DEF SeenRows
    <2>2. DeletedRows' = DeletedRows \union ({x} \intersect Final)
      BY <1>0, <1>1, <1>3, <1>9 DEF DeletedRows, Final, Row
    <2>3. View!Withdraw(x)
      BY <1>4, <1>6, <2>1, <2>2 DEF View!Withdraw
    <2> QED BY <2>3 DEF View!Next
  <1>10. CASE new.deleted = FALSE /\ row[x].deleted = FALSE
    <2>1. DeletedRows' = DeletedRows
      BY <1>0, <1>1, <1>3, <1>10 DEF DeletedRows, Final, Row
    <2>2. CASE Seen(x)
      <3>1. Seen(x)'
        BY <1>7, <1>8, <1>10, <2>2
      <3>2. ShownRows[x] = Face(x) /\ ShownRows'[x] = Face(x)' /\ ShownRows[x] # None /\ ShownRows'[x] # None
        BY <2>2, <3>1 DEF SeenRows
      <3>3. Face(x)' = [Face(x) EXCEPT !.fields = new.fields]
        BY <1>0, <1>3 DEF Face
      <3>4. Face(x).fields = row[x].fields /\ Face(x)'.fields = new.fields
        BY <1>3 DEF Face
      <3>5. \A f \in Field : new.fields[f] \in {r, row[x].fields[f]}
        BY <1>0
      <3>6. r \in Id /\ x \in DOMAIN ShownRows
        BY DEF Id, ShownRows
      <3>7. ShownRows' = [ShownRows EXCEPT ![x].fields = ShownRows'[x].fields]
        BY <1>6, <3>2, <3>3, <3>4, <3>6
      <3>8. View!Amend(x, r)
        BY <1>4, <2>1, <3>2, <3>4, <3>5, <3>7 DEF View!Amend
      <3> QED BY <3>6, <3>8 DEF View!Next
    <2>3. CASE ~Seen(x)
      <3>1. ShownRows[x] = None /\ ShownRows'[x] = None
        BY <1>7, <1>8, <1>10, <2>3 DEF SeenRows
      <3>2. ShownRows' = ShownRows
        BY <1>6, <3>1 DEF ShownRows
      <3> QED BY <1>4, <2>1, <3>2 DEF View!vars
    <2> QED BY <2>2, <2>3
  <1>11. CASE new.deleted = FALSE /\ row[x].deleted = TRUE
    <2>1. x[1] = "brand_settings"
      BY <1>0, <1>11
    <2>2. x \notin Final
      BY <2>1 DEF Final
    <2>3. DeletedRows' = DeletedRows /\ x \notin DeletedRows
      BY <1>3, <2>2 DEF DeletedRows, Final, Row
    <2>4. ~Seen(x)
      BY <1>8, <1>11
    <2>5. \A y \in Row \ {x} : row'[y] = row[y]
      BY <1>3
    <2>6. /\ \A y \in {x} : ~Seen(y) /\ y \notin DeletedRows
          /\ \A y, z \in {x} : Face(y)' = Face(z)'
          /\ {x} \in SUBSET Row
      BY <2>3, <2>4
    <2>7. View!Show
      BY <1>0, <2>3, <2>5, <2>6, ShowView
    <2> QED BY <2>7 DEF View!Next
  <1> QED BY <1>2, <1>9, <1>10, <1>11

LEMMA OpensView ==
    ASSUME IInv, SeenRows, SeenRows', NEW r \in Request, Opens(r)
    PROVE  View!Next
  <1>0. PICK w \in Workspace, u \in User :
            /\ state[w] = None
            /\ state' = [state EXCEPT ![w] = "live"]
            /\ role' = [role EXCEPT ![w][u] = "owner"]
            /\ UNCHANGED row
    BY DEF Opens
  <1>1. /\ state \in [Workspace -> {None, "live", "deleted"}]
        /\ role \in [Workspace -> [User -> Role \union {None}]]
    BY DEF IInv, TypeOK, DatabaseTyped
  <1>2. None # "live" /\ None # "deleted" /\ None # "owner"
    BY NoneAssumption DEF Role, ROLE_RANK
  <1>3. \A v \in User : role[w][v] = None
    BY <1>0, <1>2 DEF IInv, MembersOnlyOfLive
  <1>4. LiveMembers[w] = {} /\ LiveMembers' = [LiveMembers EXCEPT ![w] = {u}]
    BY <1>0, <1>1, <1>2, <1>3 DEF LiveMembers
  <1>5. DeletedWorkspaces' = DeletedWorkspaces /\ w \notin DeletedWorkspaces
    BY <1>0, <1>1, <1>2 DEF DeletedWorkspaces
  <1>6. ASSUME NEW x \in Row
        PROVE  ShownRows'[x] = ShownRows[x]
    <2>1. row[x] # None => row[x].workspace # w /\ row[x].workspace \in Workspace
      BY <1>0 DEF IInv, Housed, TypeOK, DatabaseTyped, Columns
    <2>2. row[x] # None => LiveMembers'[row[x].workspace] = LiveMembers[row[x].workspace]
      BY <1>4, <2>1 DEF LiveMembers
    <2>3. Seen(x)' = Seen(x) /\ Face(x)' = Face(x)
      BY <1>0, <2>2 DEF Seen, Face
    <2> QED BY <2>3 DEF SeenRows
  <1>7. ShownRows' = ShownRows /\ DeletedRows' = DeletedRows
    BY <1>0, <1>6 DEF ShownRows, DeletedRows
  <1>8. View!Open(w, u)
    BY <1>4, <1>5, <1>7 DEF View!Open
  <1> QED BY <1>8 DEF View!Next

LEMMA ClosesView ==
    ASSUME IInv, SeenRows, SeenRows', NEW r \in Request, Closes(r)
    PROVE  View!Next
  <1>0. PICK w \in Workspace :
            /\ state' = [state EXCEPT ![w] = "deleted"]
            /\ role' = [role EXCEPT ![w] = [u \in User |-> None]]
            /\ UNCHANGED row
    BY DEF Closes
  <1>1. /\ state \in [Workspace -> {None, "live", "deleted"}]
        /\ role \in [Workspace -> [User -> Role \union {None}]]
    BY DEF IInv, TypeOK, DatabaseTyped
  <1>2. LiveMembers' = [LiveMembers EXCEPT ![w] = {}]
    BY <1>0, <1>1 DEF LiveMembers
  <1>3. DeletedWorkspaces' = DeletedWorkspaces \union {w}
    BY <1>0, <1>1 DEF DeletedWorkspaces
  <1>4. ASSUME NEW x \in Row
        PROVE  ShownRows'[x] = IF ShownRows[x] # None /\ ShownRows[x].workspace = w
                               THEN None ELSE ShownRows[x]
    <2>1. row[x] # None => row[x].workspace \in Workspace
      BY DEF IInv, TypeOK, DatabaseTyped, Columns
    <2>2. Face(x)' = Face(x) /\ Face(x).workspace = row[x].workspace
      BY <1>0 DEF Face
    <2>3. Seen(x)' <=> Seen(x) /\ row[x].workspace # w
      BY <1>0, <1>2, <2>1 DEF Seen, LiveMembers
    <2>4. CASE Seen(x)
      <3>1. ShownRows[x] = Face(x) /\ Face(x) # None
        BY <2>4 DEF SeenRows
      <3> QED BY <2>2, <2>3, <2>4, <3>1 DEF SeenRows
    <2>5. CASE ~Seen(x)
      <3>1. ShownRows[x] = None /\ ShownRows'[x] = None
        BY <2>3, <2>5 DEF SeenRows
      <3> QED BY <3>1
    <2> QED BY <2>4, <2>5
  <1>5. ShownRows' = [x \in Row |-> IF ShownRows[x] # None /\ ShownRows[x].workspace = w
                                    THEN None ELSE ShownRows[x]]
    BY <1>4 DEF ShownRows
  <1>6. DeletedRows' = DeletedRows
    BY <1>0 DEF DeletedRows
  <1>7. View!Close(w)
    BY <1>2, <1>3, <1>5, <1>6 DEF View!Close
  <1> QED BY <1>7 DEF View!Next

LEMMA NextView ==
    ASSUME IInv, SeenRows, SeenRows', [Next]_vars
    PROVE  [View!Next]_View!vars
  <1>1. CASE UNCHANGED vars
    BY <1>1, SameView DEF vars, database, workspaces
  <1>2. ASSUME NEW r \in Request, Moves(r)
        PROVE  UNCHANGED View!vars
    BY <1>2, SameView DEF Moves, database, workspaces
  <1>3. ASSUME NEW r \in Request, Finishes(r), Modifies(r)
        PROVE  [View!Next]_View!vars
    <2>1. CASE Adds(r)
      BY <1>3, <2>1, AddsView DEF View!Next
    <2>2. CASE AddsText(r)
      BY <1>3, <2>2, AddsTextView DEF View!Next
    <2>3. CASE Changes(r)
      BY <1>3, <2>3, ChangesView
    <2>4. CASE Renames(r)
      BY <2>4, SameView DEF Renames
    <2>5. CASE Opens(r)
      BY <2>5, OpensView
    <2>6. CASE Closes(r)
      BY <2>6, ClosesView
    <2> QED BY <1>3, <2>1, <2>2, <2>3, <2>4, <2>5, <2>6 DEF Modifies
  <1>4. TypeOK
    BY DEF IInv
  <1>5. UNCHANGED vars \/ \E r \in Request : Step(r)
    BY <1>4, NextSteps
  <1> QED BY <1>1, <1>2, <1>3, <1>5 DEF Step

\* Members see whole changes only: however the statements of requests interleave,
\* the database shows them what CatalogView's atomic changes would.
THEOREM CatalogImplementsView == Spec => ImplementsView
  <1>1. Init => View!Init
    BY InitView
  <1>2. IInv /\ IInv' /\ [Next]_vars => [View!Next]_View!vars
    <2>1. IInv => SeenRows
      BY RowsAreSeen
    <2>2. IInv' => SeenRows'
      BY RowsAreSeen, PTL
    <2> QED BY <2>1, <2>2, NextView
  <1> QED BY <1>1, <1>2, IInvHolds, PTL DEF Spec, ImplementsView, View!Spec

==================================================================================
