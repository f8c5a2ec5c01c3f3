---------------------------- MODULE CatalogHistoryProofs ----------------------------
(***************************************************************************)
(* What becomes of an accepted request: the columns it set stay until      *)
(* another accepted request sets them, and what one was allowed to delete  *)
(* another may delete again.  Both compare answers of different times, so  *)
(* the invariants say what an answer tells of the past.                    *)
(***************************************************************************)
EXTENDS CatalogProofs

\* A request is answered last.
Answered == \A r \in Request : answer[r] # 0 => pc[r] = "done"

\* A Brand has one row of Brand Settings at most, deleted or not.
Settings == {"brand_settings"} \X Id
OnePerBrand ==
    \A x, y \in Settings :
        row[x] # None /\ row[y] # None /\ row[x].refs["brand"] = row[y].refs["brand"] => x = y

\* An update of a row, as against one of a Workspace.
UpdatesRow(r) == ask[r].op = "update" /\ ask[r].kind \in Kind

-----------------------------------------------------------------------------
(* What a step of r does to the rows it is about, and what it answers. *)

\* Only an update that found its row is answered 200.
Stays(r) ==
    /\ UNCHANGED row
    /\ UpdatesRow(r) => answer'[r] # 200

\* An UPDATE sets the columns r asked for, or none when it deletes.
AmendsTo(r, x, new) ==
    /\ x \in Row /\ x[1] = ask[r].kind
    /\ row' = [row EXCEPT ![x] = new]
    /\ answer'[r] = 200
    /\ x[1] = "brand_settings" => new.refs = row[x].refs
    /\ \/ \A f \in Field : new.fields[f] = IF f \in ask[r].set THEN r ELSE row[x].fields[f]
       \/ ask[r].op = "delete" /\ new.fields = row[x].fields
Amends(r) == \E x \in Target(r), new \in Columns : AmendsTo(r, x, new)

\* An INSERT adds rows named by r, Brand Settings only if their Brand has none.
Appends(r) ==
    /\ ~UpdatesRow(r)
    /\ \A x \in Row :
           \/ row'[x] = row[x]
           \/ /\ x[2] = r
              /\ x[1] = "brand_settings" => /\ ask[r].kind = "brand_settings" /\ Target(r) = {}
                                            /\ row'[x].refs["brand"] = ask[r].id

Traces(r) == Stays(r) \/ Amends(r) \/ Appends(r)

\* A query, or an answer without a change of the database.
Passes(r) ==
    /\ pc[r] # "done" /\ UNCHANGED row
    /\ UNCHANGED answer \/ \E code \in Code : Reply(r, code) /\ (code = 200 => ~UpdatesRow(r))

LEMMA PassesStays ==
    ASSUME IInv, Answered, NEW r \in Request, Passes(r)
    PROVE  Stays(r)
  <1>1. answer[r] = 0 /\ r \in DOMAIN answer
    BY DEF Passes, Answered, IInv, TypeOK, RequestsTyped
  <1> QED BY <1>1 DEF Passes, Stays, Reply

LEMMA PatchedColumns ==
    ASSUME IInv, NEW r \in Request, NEW x \in Row, row[x] # None
    PROVE  /\ \A f \in Field : Patched(x, r).fields[f] = IF f \in ask[r].set THEN r ELSE row[x].fields[f]
           /\ Repatched(x, r).fields = Patched(x, r).fields
           /\ Revived(x, r).fields = Patched(x, r).fields
           /\ Revived(x, r).refs = row[x].refs
           /\ Revived(x, r) \in Columns
           /\ Deleted(x, r) \in Columns /\ Deleted(x, r).fields = row[x].fields
           /\ Deleted(x, r).refs = row[x].refs
  <1>0. TypeOK /\ row[x] \in Columns
    BY DEF IInv, TypeOK, DatabaseTyped
  <1>1. Patched(x, r) \in Columns /\ Patched(x, r).refs = row[x].refs
    BY <1>0, PatchedRow
  <1>2. \A f \in Field : Patched(x, r).fields[f] = IF f \in ask[r].set THEN r ELSE row[x].fields[f]
    BY <1>0 DEF Patched, Columns
  <1>3. Repatched(x, r).fields = Patched(x, r).fields
    BY <1>1 DEF Repatched, Columns
  <1>4. /\ Revived(x, r).fields = Patched(x, r).fields /\ Revived(x, r).refs = row[x].refs
        /\ Revived(x, r) \in Columns
    BY <1>1 DEF Revived, Columns
  <1>5. /\ Deleted(x, r) \in Columns /\ Deleted(x, r).fields = row[x].fields
        /\ Deleted(x, r).refs = row[x].refs
    BY <1>0 DEF Deleted, Columns
  <1> QED BY <1>2, <1>3, <1>4, <1>5

LEMMA WriteAmends ==
    ASSUME IInv, NEW r \in Request, ask[r].kind \in Kind,
           \/ Write(r, Patched)
           \/ ask[r].op = "delete" /\ Write(r, Deleted)
           \/ ask[r].kind = "content" /\ Write(r, Repatched)
           \/ Write(r, Revived)
    PROVE  Amends(r)
  <1>0. TypeOK /\ r \in DOMAIN answer
    BY DEF IInv, TypeOK, RequestsTyped
  <1>1. answer'[r] = 200
    BY <1>0 DEF Write, Reply
  <1>2. ASSUME NEW x \in Target(r)
        PROVE  x \in Row /\ row[x] # None /\ x[1] = ask[r].kind
    BY <1>0, <1>2, TargetIsRow
  <1>3. CASE Write(r, Patched)
    <2>1. PICK x \in Target(r) : row' = [row EXCEPT ![x] = Patched(x, r)]
      BY <1>3 DEF Write
    <2>2. x \in Row /\ row[x] # None /\ x[1] = ask[r].kind
      BY <1>2
    <2>3. /\ Patched(x, r) \in Columns /\ Patched(x, r).refs = row[x].refs
          /\ \A f \in Field : Patched(x, r).fields[f] = IF f \in ask[r].set THEN r ELSE row[x].fields[f]
      BY <1>0, <2>2, PatchedRow, PatchedColumns
    <2>4. AmendsTo(r, x, Patched(x, r))
      BY <1>1, <2>1, <2>2, <2>3 DEF AmendsTo
    <2> QED BY <2>1, <2>3, <2>4 DEF Amends
  <1>4. CASE ask[r].op = "delete" /\ Write(r, Deleted)
    <2>1. PICK x \in Target(r) : row' = [row EXCEPT ![x] = Deleted(x, r)]
      BY <1>4 DEF Write
    <2>2. x \in Row /\ row[x] # None /\ x[1] = ask[r].kind
      BY <1>2
    <2>3. /\ Deleted(x, r) \in Columns /\ Deleted(x, r).refs = row[x].refs
          /\ Deleted(x, r).fields = row[x].fields
      BY <2>2, PatchedColumns
    <2>4. AmendsTo(r, x, Deleted(x, r))
      BY <1>1, <1>4, <2>1, <2>2, <2>3 DEF AmendsTo
    <2> QED BY <2>1, <2>3, <2>4 DEF Amends
  <1>5. CASE ask[r].kind = "content" /\ Write(r, Repatched)
    <2>1. PICK x \in Target(r) : row' = [row EXCEPT ![x] = Repatched(x, r)]
      BY <1>5 DEF Write
    <2>2. x \in Row /\ row[x] # None /\ x[1] = ask[r].kind
      BY <1>2
    <2>3. /\ Repatched(x, r) \in Columns
          /\ \A f \in Field : Repatched(x, r).fields[f] = IF f \in ask[r].set THEN r ELSE row[x].fields[f]
      BY <1>0, <2>2, RepatchedRow, PatchedColumns
    <2>4. AmendsTo(r, x, Repatched(x, r))
      BY <1>1, <1>5, <2>1, <2>2, <2>3 DEF AmendsTo
    <2> QED BY <2>1, <2>3, <2>4 DEF Amends
  <1>6. CASE Write(r, Revived)
    <2>1. PICK x \in Target(r) : row' = [row EXCEPT ![x] = Revived(x, r)]
      BY <1>6 DEF Write
    <2>2. x \in Row /\ row[x] # None /\ x[1] = ask[r].kind
      BY <1>2
    <2>3. /\ Revived(x, r) \in Columns /\ Revived(x, r).refs = row[x].refs
          /\ \A f \in Field : Revived(x, r).fields[f] = IF f \in ask[r].set THEN r ELSE row[x].fields[f]
      BY <2>2, PatchedColumns
    <2>4. AmendsTo(r, x, Revived(x, r))
      BY <1>1, <2>1, <2>2, <2>3 DEF AmendsTo
    <2> QED BY <2>1, <2>3, <2>4 DEF Amends
  <1> QED BY <1>3, <1>4, <1>5, <1>6

LEMMA InsertAppends ==
    ASSUME IInv, Answered, NEW r \in Request, ~UpdatesRow(r), ask[r].kind \in Kind,
           NEW new \in Columns, NEW code \in Code, Insert(r, new, code),
           ask[r].kind = "brand_settings" => Target(r) = {} /\ new.refs["brand"] = ask[r].id
    PROVE  Stays(r) \/ Appends(r)
  <1>1. CASE UNCHANGED row
    BY <1>1, PassesStays DEF Insert, Code, Passes
  <1>2. CASE row' = [row EXCEPT ![<<ask[r].kind, r>>] = new]
    <2>1. row \in [Row -> Columns \union {None}] /\ <<ask[r].kind, r>> \in Row
      BY DEF IInv, TypeOK, DatabaseTyped, Row, Id
    <2> QED BY <1>2, <2>1 DEF Appends
  <1> QED BY <1>1, <1>2 DEF Insert

LEMMA WritableStays ==
    ASSUME IInv, Answered, NEW r \in Request, Writable(r) \/ Create(r)
    PROVE  Stays(r)
  BY PassesStays DEF Passes, Check, Goto, database, Writable, Create, RequireWorkspaceWrite, Code

LEMMA UpdateTraces ==
    ASSUME IInv, Answered, NEW r \in Request, ask[r].kind \in Kind, Update(r) \/ SoftDelete(r)
    PROVE  Traces(r)
  BY WritableStays, WriteAmends DEF Update, SoftDelete, Traces

LEMMA AddTraces ==
    ASSUME IInv, Answered, NEW r \in Request, NEW kinds \in SUBSET Parent, Add(r, kinds),
           ask[r].kind \in Kind, ask[r].kind # "brand_settings"
    PROVE  Traces(r)
  <1>0. TypeOK /\ ~UpdatesRow(r)
    BY DEF IInv, Add, UpdatesRow
  <1>1. CASE Insert(r, New(r, kinds), 201)
    <2>1. New(r, kinds) \in Columns
      BY <1>0, NewRow
    <2> QED BY <1>0, <1>1, <2>1, InsertAppends DEF Code, Traces
  <1>2. CASE ~Insert(r, New(r, kinds), 201)
    BY <1>2, PassesStays DEF Passes, Check, Goto, database, Add, Code, Traces
  <1> QED BY <1>1, <1>2

LEMMA RepositoryTraces ==
    ASSUME IInv, Answered, NEW r \in Request, Brands(r) \/ Projects(r) \/ Generations(r) \/ Assets(r)
    PROVE  Traces(r)
  <1>1. ask[r].kind \in Kind /\ ask[r].kind # "brand_settings"
    BY DEF Brands, Projects, Generations, Assets, Kind
  <1>2. CASE Create(r)
    BY <1>2, WritableStays DEF Traces
  <1>3. CASE Update(r) \/ SoftDelete(r)
    BY <1>1, <1>3, UpdateTraces
  <1>4. CASE \/ Add(r, {}) \/ Add(r, {"brand"}) \/ Add(r, {"content", "brand", "project"})
             \/ Add(r, {"brand", "project", "content"})
    <2>1. /\ {} \in SUBSET Parent /\ {"brand"} \in SUBSET Parent
          /\ {"content", "brand", "project"} \in SUBSET Parent
          /\ {"brand", "project", "content"} \in SUBSET Parent
      BY DEF Parent
    <2> QED BY <1>1, <1>4, <2>1, AddTraces
  <1>5. CASE PathTaken(r)
    BY <1>5, PassesStays DEF Passes, Check, Goto, database, PathTaken, Refuse, Code, Traces
  <1> QED BY <1>2, <1>3, <1>4, <1>5
          DEF Brands, Projects, Generations, Assets,
              BrandRepository, ProjectRepository, GenerationRepository, AssetRepository

LEMMA SettingsTraces ==
    ASSUME IInv, Answered, NEW r \in Request, BrandSettings(r)
    PROVE  Traces(r)
  <1>1. ask[r].kind = "brand_settings" /\ ask[r].kind \in Kind
    BY DEF BrandSettings, Kind
  <1>2. CASE Update(r) \/ SoftDelete(r)
    BY <1>1, <1>2, UpdateTraces
  <1>3. CASE Upsert(r)
    <2>1. ~UpdatesRow(r) /\ ask[r].refs["brand"] = ask[r].id /\ TypeOK
      BY <1>1, <1>3, AsksAssumption DEF Upsert, UpdatesRow, IInv, TypeOK, RequestsTyped
    <2>2. CASE Target(r) = {} /\ Insert(r, New(r, {"brand"}), 200)
      <3>1. {"brand"} \in SUBSET Parent /\ "brand" \in Parent
        BY DEF Parent
      <3>2. New(r, {"brand"}) \in Columns /\ New(r, {"brand"}).refs["brand"] = ask[r].id
        BY <2>1, <3>1, NewRow DEF New
      <3> QED BY <1>1, <2>1, <2>2, <3>2, InsertAppends DEF Code, Traces
    <2>3. CASE Write(r, Revived)
      BY <1>1, <2>3, WriteAmends DEF Traces
    <2>4. CASE LoadSettings(r)
      BY <2>4, PassesStays DEF LoadSettings, Goto, Passes, database, Traces
    <2>5. CASE \/ RequireWorkspaceWrite(r, "start", ask[r].workspace, "role")
               \/ Check(r, "role", UserHasWorkspaceRole(ask[r].user, ask[r].workspace, "editor"), "get", 500)
               \/ Target(r) # {} /\ Refuse(r, "insert", 500)
      BY <2>5, PassesStays DEF Passes, Check, Goto, database, RequireWorkspaceWrite, Refuse, Code, Traces
    <2> QED BY <1>3, <2>2, <2>3, <2>4, <2>5 DEF Upsert
  <1> QED BY <1>2, <1>3 DEF BrandSettings

LEMMA ContentTraces ==
    ASSUME IInv, Answered, NEW r \in Request, Contents(r)
    PROVE  Traces(r)
  <1>1. ask[r].kind = "content" /\ ask[r].kind \in Kind
    BY DEF Contents, Kind
  <1>2. CASE CreateContent(r)
    <2>1. ~UpdatesRow(r) /\ TypeOK
      BY <1>2 DEF CreateContent, UpdatesRow, IInv
    <2>2. CASE Insert(r, New(r, {"brand", "project"}), 201)
      <3>1. {"brand", "project"} \in SUBSET Parent
        BY DEF Parent
      <3>2. New(r, {"brand", "project"}) \in Columns
        BY <2>1, <3>1, NewRow
      <3> QED BY <1>1, <2>1, <2>2, <3>2, InsertAppends DEF Code, Traces
    <2>3. CASE ~Insert(r, New(r, {"brand", "project"}), 201)
      BY <1>2, <2>3, PassesStays DEF Passes, Check, Goto, database, CreateContent, RequireWorkspaceWrite, Code, Traces
    <2> QED BY <2>2, <2>3
  <1>3. CASE RequireContentWrite(r)
    BY <1>3, PassesStays DEF Passes, Check, Goto, database, RequireContentWrite, RequireWorkspaceWrite, Code, Traces
  <1>4. CASE Write(r, Repatched) \/ (ask[r].op = "delete" /\ Write(r, Deleted))
    BY <1>1, <1>4, WriteAmends DEF Traces
  <1>5. CASE \/ Check(r, "start", Finds(r), "role", 404)
             \/ Check(r, "get", \A x \in Target(r) : ~row[x].deleted, "write", 404)
             \/ Refuse(r, "write", 500)
             \/ Check(r, "start", \E x \in Target(r) : ScopedContent(ask[r].user, x), "role", 404)
    BY <1>5, PassesStays DEF Passes, Check, Goto, database, Refuse, Code, Traces
  <1>6. CASE /\ ask[r].op = "delete"
             /\ Check(r, "get", \A x \in Target(r) : ~row[x].deleted, "write", 200)
    BY <1>6, PassesStays DEF Passes, Check, Goto, database, UpdatesRow, Code, Traces
  <1> QED BY <1>2, <1>3, <1>4, <1>5, <1>6 DEF Contents, UpdateContent, DeleteContent

LEMMA TextTraces ==
    ASSUME IInv, Answered, NEW r \in Request, Texts(r)
    PROVE  Traces(r)
  <1>1. ~UpdatesRow(r)
    BY DEF Texts, GenerateContent, ImproveContent, UpdatesRow
  <1>2. ASSUME NEW x \in Row, row'[x] # row[x]
        PROVE  x \in {<<"content", r>>, <<"generation", r>>}
    <2>1. row \in [Row -> Columns \union {None}] /\ r \in Id
      BY DEF IInv, TypeOK, DatabaseTyped, Id
    <2>2. row' = [row EXCEPT ![<<"content", r>>] = New(r, {}),
                             ![<<"generation", r>>] = [New(r, {}) EXCEPT !.refs["content"] = r]]
      BY <1>2 DEF Texts, GenerateContent, CreateTextGeneration, TextContent, TextGeneration,
                  ImproveContent, CallProvider, Refuse, Check, database
    <2> QED BY <1>2, <2>1, <2>2 DEF Row, Kind
  <1>3. Appends(r)
    BY <1>1, <1>2 DEF Appends
  <1> QED BY <1>3 DEF Traces

LEMMA WorkspaceTraces ==
    ASSUME IInv, NEW r \in Request, Workspaces(r)
    PROVE  Traces(r)
  BY DEF Workspaces, CreateForUser, UpdateWorkspace, SoftDeleteForUser, Check, database, UpdatesRow,
         Kind, Stays, Traces

\* A step of r leaves the answers of the others.
LEMMA NextTraces ==
    ASSUME IInv, Answered, [Next]_vars
    PROVE  \/ UNCHANGED vars
           \/ \E r \in Request : /\ Traces(r) /\ pc[r] # "done" /\ answer[r] = 0 /\ UNCHANGED ask
                                 /\ \A q \in Request : q # r => UNCHANGED <<pc[q], answer[q]>>
                                 /\ answer'[r] # 0 => pc'[r] = "done"
  <1>1. ASSUME NEW r \in Request,
               \/ Workspaces(r) \/ Brands(r) \/ BrandSettings(r) \/ Projects(r)
               \/ Contents(r) \/ Generations(r) \/ Assets(r) \/ Texts(r)
        PROVE  /\ Traces(r) /\ pc[r] # "done" /\ answer[r] = 0 /\ UNCHANGED ask
               /\ \A q \in Request : q # r => UNCHANGED <<pc[q], answer[q]>>
               /\ answer'[r] # 0 => pc'[r] = "done"
    <2>0. TypeOK
      BY DEF IInv
    <2>1. Step(r)
      BY <1>1, <2>0, WorkspaceSteps, RepositorySteps, SettingsSteps, ContentSteps, TextSteps
    <2>2. pc[r] # "done" /\ UNCHANGED ask
      BY <2>1 DEF Step, Moves, Finishes
    <2>3. \/ \E place \in Place : Goto(r, place)
          \/ \E code \in Code : Reply(r, code)
      BY <2>1 DEF Step, Moves, Finishes, Code
    <2>4. answer[r] = 0 /\ DOMAIN pc = Request /\ DOMAIN answer = Request
      BY <2>2 DEF Answered, IInv, TypeOK, RequestsTyped
    <2>5. Traces(r)
      BY <1>1, WorkspaceTraces, RepositoryTraces, SettingsTraces, ContentTraces, TextTraces
    <2>6. CASE \E place \in Place : Goto(r, place)
      BY <2>2, <2>4, <2>5, <2>6 DEF Goto
    <2>7. CASE \E code \in Code : Reply(r, code)
      <3>1. pc'[r] = "done" /\ \A q \in Request : q # r => UNCHANGED <<pc[q], answer[q]>>
        BY <2>4, <2>7 DEF Reply
      <3> QED BY <2>2, <2>4, <2>5, <3>1
    <2> QED BY <2>3, <2>6, <2>7
  <1>2. CASE UNCHANGED vars
    BY <1>2
  <1>3. CASE Next
    BY <1>1, <1>3 DEF Next
  <1> QED BY <1>2, <1>3

-----------------------------------------------------------------------------
(* What an accepted update set is kept. *)

\* A request is about one row.
LEMMA OneTarget ==
    ASSUME OnePerBrand, NEW r \in Request, ask[r].kind \in Kind, NEW x \in Target(r), NEW y \in Target(r)
    PROVE  x = y
  <1>1. CASE ask[r].kind = "brand_settings"
    BY <1>1 DEF Target, OnePerBrand, Settings
  <1>2. CASE ask[r].kind # "brand_settings"
    BY <1>2 DEF Target
  <1> QED BY <1>1, <1>2

\* Requests find the rows they found, if no row is added.
LEMMA SameTargets ==
    ASSUME ask' = ask, NEW q \in Request, ask[q].kind \in Kind,
           \A x \in Row : /\ row'[x] = None <=> row[x] = None
                          /\ x[1] = "brand_settings" /\ row[x] # None => row'[x].refs = row[x].refs
    PROVE  Target(q)' = Target(q)
  <1>1. \A x \in {ask[q].kind} \X Id : x \in Row
    BY DEF Row
  <1>2. ASSUME NEW x \in {ask[q].kind} \X Id
        PROVE  x \in Target(q)' <=> x \in Target(q)
    <2>1. /\ row'[x] = None <=> row[x] = None
          /\ x[1] = "brand_settings" /\ row[x] # None => row'[x].refs = row[x].refs
      BY <1>1
    <2> QED BY <2>1 DEF Target
  <1>3. Target(q) \subseteq {ask[q].kind} \X Id /\ Target(q)' \subseteq {ask[q].kind} \X Id
    BY DEF Target
  <1> QED BY <1>2, <1>3

\* The columns q set are as q set them, or as an accepted request did.
SetBy(q, x) ==
    \A f \in ask[q].set :
        LET last == row[x].fields[f]
        IN  last = q \/ (last \in Request /\ f \in ask[last].set /\ answer[last] = 200)

\* An accepted update found its row, which is there ever since.
UpdatesKept ==
    \A q \in Request : UpdatesRow(q) /\ answer[q] = 200 =>
        Target(q) # {} /\ \A x \in Target(q) : SetBy(q, x)

Kept == Answered /\ OnePerBrand /\ UpdatesKept

LEMMA InitKept ==
    ASSUME Init
    PROVE  Kept
  <1>1. OnePerBrand
    BY RowsAssumption DEF Init, OnePerBrand, Settings
  <1>2. Answered /\ UpdatesKept
    BY DEF Init, Answered, UpdatesKept
  <1> QED BY <1>1, <1>2 DEF Kept

\* Only r is being answered.
Alone(r) ==
    /\ answer[r] = 0 /\ UNCHANGED ask
    /\ \A q \in Request : q # r => UNCHANGED answer[q]

\* Of these columns r sets at most those it asked for, if it is accepted.
Overwrites(r, q, x) ==
    \A f \in ask[q].set : \/ row'[x].fields[f] = row[x].fields[f]
                          \/ row'[x].fields[f] = r /\ f \in ask[r].set /\ answer'[r] = 200

LEMMA SetByKept ==
    ASSUME NEW r \in Request, Alone(r), NEW q \in Request, NEW x, SetBy(q, x), Overwrites(r, q, x)
    PROVE  SetBy(q, x)'
  <1> SUFFICES ASSUME NEW f \in ask[q].set
               PROVE  LET last == row'[x].fields[f]
                      IN  last = q \/ (last \in Request /\ f \in ask[last].set /\ answer'[last] = 200)
    BY DEF SetBy, Alone
  <1>1. CASE row'[x].fields[f] = row[x].fields[f]
    BY <1>1 DEF SetBy, Alone
  <1>2. CASE row'[x].fields[f] = r /\ f \in ask[r].set /\ answer'[r] = 200
    BY <1>2
  <1> QED BY <1>1, <1>2 DEF Overwrites

LEMMA StaysKept ==
    ASSUME Kept, NEW r \in Request, Alone(r), Stays(r)
    PROVE  OnePerBrand' /\ UpdatesKept'
  <1>1. OnePerBrand'
    BY DEF Kept, OnePerBrand, Stays
  <1>2. ASSUME NEW q \in Request, UpdatesRow(q)', answer'[q] = 200
        PROVE  Target(q)' # {} /\ \A x \in Target(q)' : SetBy(q, x)'
    <2>1. UpdatesRow(q) /\ answer[q] = 200
      BY <1>2 DEF Alone, UpdatesRow, Stays
    <2>2. Target(q)' = Target(q)
      BY DEF Alone, Target, Stays
    <2>3. \A x \in Target(q) : SetBy(q, x) /\ Overwrites(r, q, x)
      <3>1. \A x \in Target(q) : SetBy(q, x)
        BY <2>1 DEF Kept, UpdatesKept
      <3>2. \A x : Overwrites(r, q, x)
        BY DEF Stays, Overwrites
      <3> QED BY <3>1, <3>2
    <2>4. \A x \in Target(q) : SetBy(q, x)'
      BY <2>3, SetByKept
    <2> QED BY <2>1, <2>2, <2>4 DEF Kept, UpdatesKept
  <1> QED BY <1>1, <1>2 DEF UpdatesKept

LEMMA AmendsKept ==
    ASSUME IInv, Kept, NEW r \in Request, Alone(r), Amends(r)
    PROVE  OnePerBrand' /\ UpdatesKept'
  <1>1. PICK x \in Target(r), new \in Columns : AmendsTo(r, x, new)
    BY DEF Amends
  <1>2. /\ x \in Row /\ row \in [Row -> Columns \union {None}] /\ new # None /\ row[x] # None
        /\ x[1] \in Kind /\ x[1] = ask[r].kind /\ answer'[r] = 200
        /\ \A y \in Row : row'[y] = IF y = x THEN new ELSE row[y]
        /\ x[1] = "brand_settings" => new.refs = row[x].refs
    BY <1>1, NoneAssumption DEF AmendsTo, IInv, TypeOK, DatabaseTyped, Target, Row
  <1>3. \A y \in Row : /\ row'[y] = None <=> row[y] = None
                       /\ y[1] = "brand_settings" /\ row[y] # None => row'[y].refs = row[y].refs
    BY <1>2
  <1>4. OnePerBrand'
    <2>1. Settings \subseteq Row
      BY DEF Settings, Row, Kind
    <2>2. \A y \in Settings : y[1] = "brand_settings"
      BY DEF Settings
    <2> QED BY <1>3, <2>1, <2>2 DEF Kept, OnePerBrand
  <1>5. \A f \in Field : \/ new.fields[f] = IF f \in ask[r].set THEN r ELSE row[x].fields[f]
                         \/ ask[r].op = "delete" /\ new.fields[f] = row[x].fields[f]
    BY <1>1 DEF AmendsTo
  <1>6. ASSUME NEW q \in Request, UpdatesRow(q)', answer'[q] = 200
        PROVE  Target(q)' # {} /\ \A y \in Target(q)' : SetBy(q, y)'
    <2>1. UpdatesRow(q) /\ ask' = ask /\ ask[q].set \subseteq Field
      BY <1>6, AskTyped DEF Alone, UpdatesRow, IInv, Ask
    <2>2. Target(q)' = Target(q)
      BY <1>3, <2>1, SameTargets DEF UpdatesRow
    <2>3. CASE q = r
      <3>1. \A y \in Target(q) : y = x
        BY <2>1, <2>3, OneTarget DEF Kept, UpdatesRow
      <3>2. \A f \in ask[r].set : row'[x].fields[f] = r
        BY <1>2, <1>5, <2>1, <2>3 DEF UpdatesRow
      <3> QED BY <2>1, <2>2, <2>3, <3>1, <3>2 DEF SetBy
    <2>4. CASE q # r
      <3>1. answer[q] = 200
        BY <1>6, <2>4 DEF Alone
      <3>2. ASSUME NEW y \in Target(q)
            PROVE  SetBy(q, y)'
        <4>1. SetBy(q, y) /\ y \in Row
          BY <2>1, <3>1 DEF Kept, UpdatesKept, UpdatesRow, Target, Row
        <4>2. CASE y = x
          <5>1. \A f \in ask[q].set : \/ new.fields[f] = row[y].fields[f]
                                      \/ new.fields[f] = r /\ f \in ask[r].set
            BY <1>5, <2>1, <4>2
          <5>2. row'[y] = new
            BY <1>2, <4>1, <4>2
          <5>3. Overwrites(r, q, y)
            BY <1>2, <5>1, <5>2 DEF Overwrites
          <5> QED BY <4>1, <5>3, SetByKept
        <4>3. CASE y # x
          <5>1. row'[y] = row[y]
            BY <1>2, <4>1, <4>3
          <5>2. Overwrites(r, q, y)
            BY <5>1 DEF Overwrites
          <5> QED BY <4>1, <5>2, SetByKept
        <4> QED BY <4>2, <4>3
      <3> QED BY <2>1, <2>2, <3>1, <3>2 DEF Kept, UpdatesKept
    <2> QED BY <2>3, <2>4
  <1> QED BY <1>4, <1>6 DEF UpdatesKept

\* A row that is added is none that an accepted update is about.
LEMMA AppendsKept ==
    ASSUME IInv, Kept, NEW r \in Request, pc[r] # "done", Alone(r), Appends(r)
    PROVE  OnePerBrand' /\ UpdatesKept'
  <1>1. ASSUME NEW x \in Row, row'[x] # row[x]
        PROVE  /\ x[2] = r /\ row[x] = None
               /\ x[1] = "brand_settings" => /\ ask[r].kind = "brand_settings" /\ Target(r) = {}
                                             /\ row'[x].refs["brand"] = ask[r].id
    <2>1. x[1] \in Kind /\ x = <<x[1], x[2]>>
      BY DEF Row
    <2> QED BY <1>1, <2>1 DEF Appends, IInv, Unwritten
  <1>2. Settings \subseteq Row /\ \A x \in Settings : x[1] = "brand_settings"
    BY DEF Settings, Row, Kind
  <1>3. OnePerBrand'
    <2> SUFFICES ASSUME NEW x \in Settings, NEW y \in Settings, row'[x] # None, row'[y] # None,
                        row'[x].refs["brand"] = row'[y].refs["brand"]
                 PROVE  x = y
      BY DEF OnePerBrand
    <2>1. \A z \in Settings : row[z] # None /\ ask[r].kind = "brand_settings" /\ Target(r) = {}
                                 => row[z].refs["brand"] # ask[r].id
      BY DEF Target, Settings
    <2>2. CASE row'[x] # row[x] /\ row'[y] # row[y]
      BY <1>1, <1>2, <2>2 DEF Settings
    <2>3. CASE row'[x] # row[x] /\ row'[y] = row[y]
      BY <1>1, <1>2, <2>1, <2>3
    <2>4. CASE row'[x] = row[x] /\ row'[y] # row[y]
      BY <1>1, <1>2, <2>1, <2>4
    <2>5. CASE row'[x] = row[x] /\ row'[y] = row[y]
      BY <2>5 DEF Kept, OnePerBrand
    <2> QED BY <2>2, <2>3, <2>4, <2>5
  <1>4. ASSUME NEW q \in Request, UpdatesRow(q)', answer'[q] = 200
        PROVE  Target(q)' # {} /\ \A x \in Target(q)' : SetBy(q, x)'
    <2>1. UpdatesRow(q) /\ q # r /\ answer[q] = 200 /\ ask' = ask
      BY <1>4 DEF Alone, UpdatesRow, Appends
    <2>2. Target(q) # {} /\ \A x \in Target(q) : SetBy(q, x)
      BY <2>1 DEF Kept, UpdatesKept
    <2>3. \A x \in {ask[q].kind} \X Id : x \in Row /\ (row[x] # None => row'[x] = row[x])
      BY <1>1, <2>1 DEF Row, UpdatesRow
    <2>4. Target(q) \subseteq Target(q)'
      BY <2>1, <2>3 DEF Target
    <2>5. ASSUME NEW x \in Target(q)'
          PROVE  x \in Target(q) /\ row'[x] = row[x]
      <3>1. x \in {ask[q].kind} \X Id /\ row'[x] # None
        BY <2>1 DEF Target
      <3>2. CASE row'[x] = row[x]
        BY <2>1, <3>1, <3>2, <2>5 DEF Target
      <3>3. CASE row'[x] # row[x]
        <4>1. /\ x[2] = r /\ row[x] = None
              /\ x[1] = "brand_settings" => /\ ask[r].kind = "brand_settings" /\ Target(r) = {}
                                            /\ row'[x].refs["brand"] = ask[r].id
          BY <1>1, <2>3, <3>1, <3>3
        <4>2. ask[q].id = IF x[1] = "brand_settings" THEN row'[x].refs["brand"] ELSE x[2]
          BY <2>1, <2>5 DEF Target
        <4>3. CASE x[1] = "brand_settings"
          <5>1. ask[q].id = ask[r].id /\ ask[q].kind = ask[r].kind
            BY <3>1, <4>1, <4>2, <4>3
          <5>2. Target(q) = Target(r)
            BY <5>1 DEF Target
          <5> QED BY <2>2, <4>1, <4>3, <5>2
        <4>4. CASE x[1] # "brand_settings"
          <5>1. \A y \in Target(q) : y = x /\ row[y] # None
            BY <3>1, <4>2, <4>4 DEF Target
          <5> QED BY <2>2, <4>1, <5>1
        <4> QED BY <4>3, <4>4
      <3> QED BY <3>2, <3>3
    <2>6. ASSUME NEW x \in Target(q)'
          PROVE  SetBy(q, x)'
      <3>1. SetBy(q, x)
        BY <2>2, <2>5
      <3>2. Overwrites(r, q, x)
        BY <2>5 DEF Overwrites
      <3> QED BY <3>1, <3>2, SetByKept
    <2> QED BY <2>2, <2>4, <2>6
  <1> QED BY <1>3, <1>4 DEF UpdatesKept

LEMMA NextKept ==
    ASSUME IInv, Kept, [Next]_vars
    PROVE  Kept'
  <1>1. CASE UNCHANGED vars
    BY <1>1 DEF vars, request, database, Kept, Answered, OnePerBrand, UpdatesKept, UpdatesRow, Target, SetBy
  <1>2. ASSUME NEW r \in Request, Traces(r), pc[r] # "done", answer[r] = 0, UNCHANGED ask,
               \A q \in Request : q # r => UNCHANGED <<pc[q], answer[q]>>,
               answer'[r] # 0 => pc'[r] = "done"
        PROVE  Kept'
    <2>1. Answered'
      BY <1>2 DEF Kept, Answered
    <2>2. Alone(r)
      BY <1>2 DEF Alone
    <2> QED BY <1>2, <2>1, <2>2, StaysKept, AmendsKept, AppendsKept DEF Traces, Kept
  <1>3. \/ UNCHANGED vars
        \/ \E r \in Request : /\ Traces(r) /\ pc[r] # "done" /\ answer[r] = 0 /\ UNCHANGED ask
                              /\ \A q \in Request : q # r => UNCHANGED <<pc[q], answer[q]>>
                              /\ answer'[r] # 0 => pc'[r] = "done"
    BY NextTraces DEF Kept
  <1> QED BY <1>1, <1>2, <1>3

LEMMA KeptHolds == Spec => []Kept
  BY InitKept, NextKept, IInvHolds, PTL DEF Spec

\* What an accepted update set is there until another accepted request sets the
\* same column: no request undoes what another one did, however many overlap,
\* and no late insert takes the place of the row.
THEOREM UpdatesStay == Spec => []AcceptedUpdateKept
  <1>1. Kept => AcceptedUpdateKept
    BY DEF Kept, UpdatesKept, UpdatesRow, SetBy, AcceptedUpdateKept
  <1> QED BY <1>1, KeptHolds, PTL

-----------------------------------------------------------------------------
(* Who may delete a Content that is there from the start is settled then.   *)

\* A Workspace that had members keeps their Roles until it is deleted.
Founded(w) == \E u \in User : Memberships[w][u] # None
RolesKept ==
    \A w \in Workspace : Founded(w) =>
        state[w] = "deleted" \/ (state[w] = "live" /\ role[w] = Memberships[w])

\* The rows of the beginning stay, in their Workspace, and nobody adds to them.
SeedsKept ==
    \A x \in Kind \X Seed :
        IF Rows[x] = None THEN row[x] = None
                          ELSE row[x] # None /\ row[x].workspace = Rows[x].workspace

DeletesSeed(r) == ask[r].kind = "content" /\ ask[r].op = "delete" /\ ask[r].id \in Seed
Aim(r) == <<"content", ask[r].id>>
Home(r) == Rows[Aim(r)].workspace

Ranks(u, w) ==
    Memberships[w][u] # None /\ ROLE_RANK[Memberships[w][u]] >= ROLE_RANK["editor"]
Entitled(r) == Rows[Aim(r)] # None /\ Ranks(ask[r].user, Home(r))
Gone(r) == Rows[Aim(r)] # None /\ state[Home(r)] = "deleted"

\* A deletion that went on, or was accepted, was entitled to; one that was
\* refused was not, or came too late for the Workspace.
JudgedSo(r) ==
    /\ pc[r] \in {"get", "write"} \/ answer[r] = 200 => Entitled(r)
    /\ answer[r] \notin {0, 200} => ~Entitled(r) \/ Gone(r)
Judged == \A r \in Request : DeletesSeed(r) => JudgedSo(r)

Ruled == Answered /\ RolesKept /\ SeedsKept /\ Judged

\* A Content that is there from the start is in a Workspace that had members.
LEMMA HomeFounded ==
    ASSUME IInv, NEW r \in Request, DeletesSeed(r)
    PROVE  /\ Aim(r) \in Kind \X Seed /\ Aim(r) \in Row /\ ask[r].user \in User
           /\ Rows[Aim(r)] # None => Home(r) \in Workspace /\ Founded(Home(r))
  <1>1. Aim(r) \in Kind \X Seed /\ Aim(r) \in Row /\ ask[r].user \in User
    BY AskTyped DEF IInv, DeletesSeed, Aim, Kind, Row, Id
  <1>2. Rows[Aim(r)] # None => Home(r) \in Workspace /\ Founded(Home(r))
    BY <1>1, RowsAssumption DEF Home, Founded, Columns
  <1> QED BY <1>1, <1>2

LEMMA InitRuled ==
    ASSUME Init
    PROVE  Ruled
  <1>1. RolesKept
    BY DEF Init, RolesKept, Founded
  <1>2. SeedsKept
    BY DEF Init, SeedsKept
  <1>3. Answered /\ Judged
    BY DEF Init, Answered, Judged, JudgedSo
  <1> QED BY <1>1, <1>2, <1>3 DEF Ruled

\* The database keeps its Roles and rows.
LEMMA RulesKept ==
    ASSUME IInv, RolesKept, SeedsKept, NEW r \in Request, Step(r)
    PROVE  RolesKept' /\ SeedsKept' /\ \A w \in Workspace : state[w] = "deleted" => state'[w] = "deleted"
  <1>0. /\ state \in [Workspace -> {None, "live", "deleted"}]
        /\ role \in [Workspace -> [User -> Role \union {None}]]
        /\ None # "live" /\ None # "deleted"
    BY NoneAssumption DEF IInv, TypeOK, DatabaseTyped
  <1>1. CASE UNCHANGED <<state, role>>
    <2>1. RolesKept'
      BY <1>1 DEF RolesKept, Founded
    <2>2. SeedsKept'
      <3>1. CASE UNCHANGED row
        BY <3>1 DEF SeedsKept
      <3>2. CASE Finishes(r) /\ Modifies(r)
        <4>1. Keeps(r)
          BY <3>2, ModifiesKeeps
        <4>2. \A x \in Kind \X Seed : x \in Row /\ x[2] # r
          BY IdAssumption DEF Row, Id
        <4> QED BY <4>1, <4>2 DEF Keeps, SeedsKept
      <3> QED BY <3>1, <3>2 DEF Step, Moves, database
    <2> QED BY <1>1, <2>1, <2>2
  <1>2. CASE Opens(r)
    <2>1. PICK w \in Workspace, u \in User :
              /\ state[w] = None
              /\ state' = [state EXCEPT ![w] = "live"]
              /\ role' = [role EXCEPT ![w][u] = "owner"]
              /\ UNCHANGED row
      BY <1>2 DEF Opens
    <2>2. \A v \in Workspace : v # w => state'[v] = state[v] /\ role'[v] = role[v]
      BY <1>0, <2>1
    <2>3. ~Founded(w)
      BY <1>0, <2>1 DEF RolesKept
    <2>4. RolesKept'
      BY <2>2, <2>3 DEF RolesKept, Founded
    <2> QED BY <1>0, <2>1, <2>2, <2>4 DEF SeedsKept
  <1>3. CASE Closes(r)
    <2>1. PICK w \in Workspace :
              /\ state' = [state EXCEPT ![w] = "deleted"]
              /\ role' = [role EXCEPT ![w] = [u \in User |-> None]]
              /\ UNCHANGED row
      BY <1>3 DEF Closes
    <2>2. \A v \in Workspace : v # w => state'[v] = state[v] /\ role'[v] = role[v]
      BY <1>0, <2>1
    <2>3. state'[w] = "deleted"
      BY <1>0, <2>1
    <2>4. RolesKept'
      BY <2>2, <2>3 DEF RolesKept, Founded
    <2> QED BY <2>1, <2>2, <2>3, <2>4 DEF SeedsKept
  <1>4. UNCHANGED <<state, role>> \/ Opens(r) \/ Closes(r)
    BY DEF Step, Moves, database, workspaces, Modifies, Adds, AddsRow, AddsText, Changes, Renames
  <1> QED BY <1>1, <1>2, <1>3, <1>4

\* What a deletion is asked, and what it learns.
LEMMA DeletionJudged ==
    ASSUME IInv, Ruled, NEW r \in Request, DeletesSeed(r), DeleteContent(r)
    PROVE  JudgedSo(r)'
  <1>0. /\ Aim(r) \in Kind \X Seed /\ Aim(r) \in Row /\ ask[r].user \in User
        /\ Rows[Aim(r)] # None => Home(r) \in Workspace /\ Founded(Home(r))
    BY HomeFounded
  <1>1. pc[r] # "done" /\ answer[r] = 0 /\ r \in DOMAIN pc /\ r \in DOMAIN answer /\ JudgedSo(r)
    BY DEF DeleteContent, RequireContentWrite, RequireWorkspaceWrite, Check, Write,
           Ruled, Answered, Judged, IInv, TypeOK, RequestsTyped
  <1>2. \A x \in Target(r) : x = Aim(r)
    BY DEF Target, Aim, DeletesSeed
  <1>3. row[Aim(r)] # None => /\ Rows[Aim(r)] # None /\ row[Aim(r)].workspace = Home(r)
                              /\ Aim(r) \in Target(r)
    BY <1>0 DEF Ruled, SeedsKept, Home, Target, Aim, DeletesSeed, Row
  <1>4. row[Aim(r)] = None => Rows[Aim(r)] = None
    BY <1>0 DEF Ruled, SeedsKept
  <1>5. Rows[Aim(r)] # None => Gone(r) \/ role[Home(r)] = Memberships[Home(r)]
    BY <1>0 DEF Ruled, RolesKept, Gone
  <1>6. Rows[Aim(r)] # None /\ state[Home(r)] = "deleted" => role[Home(r)][ask[r].user] = None
    BY <1>0 DEF IInv, MembersOnlyOfLive
  <1>7. CASE Check(r, "start", \E x \in Target(r) : ScopedContent(ask[r].user, x), "role", 404)
    <2>1. UNCHANGED <<ask, state>>
      BY <1>7 DEF Check, database, workspaces
    <2>2. CASE \E x \in Target(r) : ScopedContent(ask[r].user, x)
      <3>1. pc'[r] = "role" /\ answer'[r] = 0
        BY <1>1, <1>7, <2>2 DEF Check, Goto
      <3> QED BY <3>1 DEF JudgedSo
    <2>3. CASE ~\E x \in Target(r) : ScopedContent(ask[r].user, x)
      <3>1. pc'[r] = "done" /\ answer'[r] = 404
        BY <1>1, <1>7, <2>3 DEF Check, Reply
      <3>2. ~Entitled(r) \/ Gone(r)
        BY <1>3, <1>4, <1>5, <2>3 DEF ScopedContent, Entitled, Ranks
      <3> QED BY <2>1, <3>1, <3>2 DEF JudgedSo, Entitled, Gone, Aim, Home
    <2> QED BY <2>2, <2>3
  <1>8. CASE RequireContentWrite(r)
    <2>1. /\ Aim(r) \in Target(r) /\ Rows[Aim(r)] # None
          /\ Check(r, "role", UserHasWorkspaceRole(ask[r].user, Home(r), "editor"), "get", 403)
      BY <1>2, <1>3, <1>8 DEF RequireContentWrite, RequireWorkspaceWrite, Target
    <2>2. UNCHANGED <<ask, state>>
      BY <2>1 DEF Check, database, workspaces
    <2>3. CASE UserHasWorkspaceRole(ask[r].user, Home(r), "editor")
      <3>1. pc'[r] = "get" /\ answer'[r] = 0
        BY <1>1, <2>1, <2>3 DEF Check, Goto
      <3>2. Entitled(r)
        BY <1>5, <1>6, <2>1, <2>3 DEF UserHasWorkspaceRole, Entitled, Ranks, Gone
      <3> QED BY <2>2, <3>1, <3>2 DEF JudgedSo, Entitled, Aim, Home
    <2>4. CASE ~UserHasWorkspaceRole(ask[r].user, Home(r), "editor")
      <3>1. pc'[r] = "done" /\ answer'[r] = 403
        BY <1>1, <2>1, <2>4 DEF Check, Reply
      <3>2. ~Entitled(r) \/ Gone(r)
        BY <1>5, <2>1, <2>4 DEF UserHasWorkspaceRole, Entitled, Ranks
      <3> QED BY <2>2, <3>1, <3>2 DEF JudgedSo, Entitled, Gone, Aim, Home
    <2> QED BY <2>3, <2>4
  <1>9. CASE \/ Check(r, "get", \A x \in Target(r) : ~row[x].deleted, "write", 200)
             \/ Write(r, Deleted)
    <2>1. pc[r] \in {"get", "write"} /\ ask' = ask
      BY <1>9 DEF Check, Write
    <2>2. answer'[r] \in {0, 200}
      BY <1>1, <1>9 DEF Check, Write, Goto, Reply
    <2> QED BY <1>1, <2>1, <2>2 DEF JudgedSo, Entitled, Aim, Home
  <1> QED BY <1>7, <1>8, <1>9 DEF DeleteContent

LEMMA NextRuled ==
    ASSUME IInv, Ruled, [Next]_vars
    PROVE  Ruled'
  <1>1. CASE UNCHANGED vars
    BY <1>1 DEF vars, request, database, workspaces, Ruled, Answered, RolesKept, SeedsKept, Judged,
                DeletesSeed, JudgedSo, Entitled, Gone, Aim, Home
  <1>2. ASSUME NEW r \in Request,
               \/ Workspaces(r) \/ Brands(r) \/ BrandSettings(r) \/ Projects(r)
               \/ Contents(r) \/ Generations(r) \/ Assets(r) \/ Texts(r)
        PROVE  Ruled'
    <2>0. TypeOK
      BY DEF IInv
    <2>1. Step(r)
      BY <1>2, <2>0, WorkspaceSteps, RepositorySteps, SettingsSteps, ContentSteps, TextSteps
    <2>2. /\ RolesKept' /\ SeedsKept'
          /\ \A w \in Workspace : state[w] = "deleted" => state'[w] = "deleted"
      BY <2>1, RulesKept DEF Ruled
    <2>3. \/ \E place \in Place : Goto(r, place)
          \/ \E code \in Code : Reply(r, code)
      BY <2>1 DEF Step, Moves, Finishes, Code
    <2>7. ask' = ask
      BY <2>1 DEF Step, Moves, Finishes
    <2>4. /\ \A q \in Request : q # r => UNCHANGED <<pc[q], answer[q]>>
          /\ UNCHANGED answer \/ pc'[r] = "done"
      <3>1. DOMAIN pc = Request /\ DOMAIN answer = Request
        BY DEF IInv, TypeOK, RequestsTyped
      <3>2. pc[r] # "done"
        BY <2>1 DEF Step, Moves, Finishes
      <3>3. CASE \E place \in Place : Goto(r, place)
        BY <3>1, <3>3 DEF Goto
      <3>4. CASE \E code \in Code : Reply(r, code)
        BY <3>1, <3>4 DEF Reply
      <3> QED BY <2>3, <3>3, <3>4
    <2>5. Answered'
      <3>1. pc[r] # "done"
        BY <2>1 DEF Step, Moves, Finishes
      <3> QED BY <2>4, <3>1 DEF Ruled, Answered
    <2>6. ASSUME NEW q \in Request, DeletesSeed(q)'
          PROVE  JudgedSo(q)'
      <3>1. DeletesSeed(q)
        BY <2>6, <2>7 DEF DeletesSeed
      <3>2. CASE q = r
        <4>1. Contents(r) /\ DeleteContent(r)
          BY <1>2, <3>1, <3>2
             DEF DeletesSeed, Workspaces, Brands, BrandSettings, Projects, Contents, Generations,
                 Assets, Texts, GenerateContent, ImproveContent, CreateContent, UpdateContent
        <4> QED BY <3>1, <3>2, <4>1, DeletionJudged
      <3>3. CASE q # r
        <4>1. JudgedSo(q) /\ pc'[q] = pc[q] /\ answer'[q] = answer[q]
          BY <2>4, <3>1, <3>3 DEF Ruled, Judged
        <4>2. Aim(q)' = Aim(q) /\ Home(q)' = Home(q) /\ (Entitled(q)' <=> Entitled(q))
          BY <2>7 DEF Entitled, Aim, Home
        <4>3. Entitled(q) => Home(q) \in Workspace
          BY <3>1, HomeFounded DEF Entitled
        <4>4. Entitled(q) /\ Gone(q) => Gone(q)'
          BY <2>2, <4>2, <4>3 DEF Gone
        <4> QED BY <4>1, <4>2, <4>4 DEF JudgedSo
      <3> QED BY <3>2, <3>3
    <2> QED BY <2>2, <2>5, <2>6 DEF Ruled, Judged
  <1>3. CASE Next
    BY <1>2, <1>3 DEF Next
  <1> QED BY <1>1, <1>3

LEMMA RuledHolds == Spec => []Ruled
  BY InitRuled, NextRuled, IInvHolds, PTL DEF Spec

\* Of two requests to delete a Content, whoever wins and however their checks and
\* writes interleave, with whatever else is going on, neither is refused: the
\* second finds the Content deleted and is answered alike, unless the Workspace
\* with its Memberships was deleted meanwhile.
THEOREM RepeatedDeletesAccepted == Spec => []RepeatedDeleteAccepted
  <1>1. ASSUME IInv, Ruled, NEW q \in Request, NEW r \in Request, ask[q] = ask[r], DeletesSeed(q),
               answer[q] = 200, answer[r] \notin {0, 200}
        PROVE  \E x \in Target(q) : state[row[x].workspace] = "deleted"
    <2>1. Entitled(q) /\ DeletesSeed(r)
      BY <1>1 DEF Ruled, Judged, JudgedSo, DeletesSeed
    <2>2. Entitled(r) /\ Aim(r) = Aim(q) /\ Home(r) = Home(q)
      BY <1>1, <2>1 DEF Entitled, Aim, Home
    <2>3. Gone(q)
      BY <1>1, <2>1, <2>2 DEF Ruled, Judged, JudgedSo, Gone
    <2>4. row[Aim(q)] # None /\ row[Aim(q)].workspace = Home(q)
      BY <1>1, <2>1, HomeFounded DEF Ruled, SeedsKept, Entitled, Home
    <2>5. Aim(q) \in Target(q)
      BY <1>1, <2>4 DEF Target, Aim, DeletesSeed, Id
    <2> QED BY <2>3, <2>4, <2>5 DEF Gone
  <1>2. IInv /\ Ruled => RepeatedDeleteAccepted
    BY <1>1 DEF RepeatedDeleteAccepted, DeletesSeed
  <1> QED BY <1>2, IInvHolds, RuledHolds, PTL

=====================================================================================
