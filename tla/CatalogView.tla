------------------------------- MODULE CatalogView -------------------------------
(***************************************************************************)
(* What the members of a Workspace see of its Brands, Projects, Contents,  *)
(* Generations, Assets and Brand Settings.  Each change is atomic: an      *)
(* artifact appears in a Workspace that has members, some of its columns   *)
(* take the values of one request, it is withdrawn.  A withdrawn artifact  *)
(* never returns, Brand Settings excepted, and a Workspace that was        *)
(* deleted stays empty.  Memberships are all that counts: no request, no   *)
(* transaction and no soft-deleted row appears here.                       *)
(***************************************************************************)
CONSTANTS User, Workspace,
          Row,        \* the artifacts
          Final,      \* those that never return once withdrawn
          Field,      \* their columns
          Value,      \* the values of a column
          Absent      \* what a member sees of an artifact that is not there

VARIABLES members,    \* the members of each Workspace
          closed,     \* the deleted Workspaces
          shown,      \* what the members of its Workspace see of each artifact
          withdrawn   \* the Final artifacts that were deleted

vars == <<members, closed, shown, withdrawn>>

Shown == [workspace: Workspace, fields: [Field -> Value]]

Init == /\ members \in [Workspace -> SUBSET User]
        /\ closed = {}
        /\ withdrawn \subseteq Final
        /\ shown \in [Row -> Shown \union {Absent}]
        /\ \A x \in Row : shown[x] # Absent => x \notin withdrawn /\ members[shown[x].workspace] # {}

Open(w, u) ==
    /\ members[w] = {} /\ w \notin closed
    /\ members' = [members EXCEPT ![w] = {u}]
    /\ UNCHANGED <<closed, shown, withdrawn>>

Close(w) ==
    /\ members' = [members EXCEPT ![w] = {}]
    /\ closed' = closed \union {w}
    /\ shown' = [x \in Row |-> IF shown[x] # Absent /\ shown[x].workspace = w
                               THEN Absent ELSE shown[x]]
    /\ UNCHANGED withdrawn

\* A text generation shows a Content and its Generation at once.
Show ==
    LET new == {x \in Row : shown[x] = Absent /\ shown'[x] # Absent}
    IN  /\ shown' \in [Row -> Shown \union {Absent}]
        /\ \A x \in Row \ new : shown'[x] = shown[x]
        /\ \A x \in new : x \notin withdrawn /\ members[shown'[x].workspace] # {}
        /\ \A x, y \in new : shown'[x] = shown'[y]
        /\ UNCHANGED <<members, closed, withdrawn>>

Amend(x, v) ==
    /\ shown[x] # Absent /\ shown'[x] # Absent
    /\ \A f \in Field : shown'[x].fields[f] \in {v, shown[x].fields[f]}
    /\ shown' = [shown EXCEPT ![x].fields = shown'[x].fields]
    /\ UNCHANGED <<members, closed, withdrawn>>

Withdraw(x) ==
    /\ shown' = [shown EXCEPT ![x] = Absent]
    /\ withdrawn' = withdrawn \union ({x} \intersect Final)
    /\ UNCHANGED <<members, closed>>

Next == \/ \E w \in Workspace, u \in User : Open(w, u)
        \/ \E w \in Workspace : Close(w)
        \/ Show
        \/ \E x \in Row, v \in Value : Amend(x, v)
        \/ \E x \in Row : Withdraw(x)

Spec == Init /\ [][Next]_vars
==================================================================================
