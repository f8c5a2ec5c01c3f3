--------------------------------- MODULE MCCatalog ---------------------------------
(* Two Workspaces that are there and one that is not, three concurrent requests. *)
EXTENDS Catalog, TLC

CONSTANTS ann, bob, acme, brick, vacant, q, r, s, a1, b1, colour, tone

MCMemberships ==
    [w \in Workspace |-> [u \in User |->
        CASE w = acme /\ u = ann -> "owner"
          [] w = acme /\ u = bob -> "editor"
          [] w = brick /\ u = bob -> "owner"
          [] OTHER -> None]]

NoRefs == [k \in Parent |-> None]
To(k, i) == [NoRefs EXCEPT ![k] = i]

\* One row of each kind in acme, and a Brand in brick.
MCRows ==
    [x \in Row |->
        CASE x[2] = a1 -> [workspace |-> acme, deleted |-> FALSE, fields |-> [f \in Field |-> a1],
                           refs |-> IF x[1] = "brand" THEN NoRefs
                                    ELSE IF x[1] = "generation" THEN To("content", a1) ELSE To("brand", a1)]
          [] x = <<"brand", b1>> -> [workspace |-> brick, deleted |-> FALSE, refs |-> NoRefs,
                                     fields |-> [f \in Field |-> b1]]
          [] OTHER -> None]

Asked(op, u, k, i, w, refs, F) ==
    [op |-> op, user |-> u, kind |-> k, id |-> i, workspace |-> w, refs |-> refs, set |-> F]

Creates == {Asked("create", bob, k, None, acme, To("brand", b1), {}) : k \in {"brand", "project"}}
           \union {Asked("create", ann, "content", None, acme, To("brand", b1), {}),
                   Asked("create", bob, "asset", None, acme, To("content", a1), {}),
                   Asked("create", ann, "generation", None, acme, To("content", a1), {})}

MCAsks ==
    Creates
    \union {Asked("create", ann, "workspace", None, acme, NoRefs, {}),
            Asked("update", ann, "workspace", None, acme, NoRefs, {}),
            Asked("delete", ann, "workspace", None, acme, NoRefs, {}),
            Asked("update", bob, "brand", a1, acme, NoRefs, {colour}),
            Asked("update", ann, "brand", a1, acme, NoRefs, {tone}),
            Asked("delete", ann, "brand", a1, acme, NoRefs, {}),
            Asked("update", bob, "content", a1, acme, To("brand", b1), {colour}),
            Asked("update", ann, "content", a1, acme, NoRefs, {tone}),
            Asked("delete", ann, "content", a1, acme, NoRefs, {}),
            Asked("upsert", bob, "brand_settings", a1, acme, To("brand", a1), {colour}),
            Asked("upsert", bob, "brand_settings", b1, brick, To("brand", b1), {colour}),
            Asked("update", ann, "brand_settings", a1, acme, To("brand", a1), {tone}),
            Asked("delete", ann, "brand_settings", a1, acme, To("brand", a1), {}),
            Asked("generate", bob, "content", None, acme, NoRefs, {}),
            Asked("improve", bob, "content", a1, acme, NoRefs, {})}

MCSymmetry == Permutations(Request)
==================================================================================
