--------------------------------- MODULE MCAccounts ---------------------------------
(* An administrator, a member, a deleted User and a subject without a User. *)
EXTENDS Accounts, TLC

CONSTANTS ann, bob, cid, eve, q, r, s, a1, b1, e1,
          annMail, bobMail, cidMail, newMail, plain, fancy, tone, segment

Held(who, mail, rank, gone) ==
    [subject |-> who, email |-> mail, name |-> None, role |-> rank, deleted |-> gone]

MCUsers ==
    [i \in Id |-> CASE i = a1 -> Held(ann, annMail, "admin", FALSE)
                    [] i = b1 -> Held(bob, bobMail, "membro", FALSE)
                    [] i = e1 -> Held(eve, None, "membro", TRUE)
                    [] OTHER -> None]

NoPatch == [subject |-> None, email |-> None, name |-> None, role |-> None]

Asked(op, verdict, who, mail, called, i, to, F) ==
    [op |-> op, verdict |-> verdict, id |-> i, to |-> to, set |-> F, null |-> {},
     principal |-> [subject |-> who, email |-> mail, name |-> called]]

\* The same PATCH with null for some of its columns.
Null(a, F) == [a EXCEPT !.null = F]

Own(op, who, mail, called, F) == Asked(op, "valid", who, mail, called, None, NoPatch, F)
ByAnn(op, i, to) == Asked(op, "valid", ann, annMail, None, i, to, {})

MCAsks ==
    {Own("me", cid, cidMail, plain, {}), Own("me", cid, newMail, fancy, {}),
     Own("settings", cid, cidMail, None, {}),
     Own("patch", cid, cidMail, None, {tone}), Own("patch", cid, cidMail, None, {tone, segment}),
     Null(Own("patch", cid, cidMail, None, {tone, segment}), {tone}),
     Null(Own("patch", bob, bobMail, plain, {tone, segment}), {segment}),
     Own("signup", cid, cidMail, None, {}), Own("signup", cid, newMail, None, {}),
     Own("signup", bob, bobMail, None, {}), Own("signup", eve, None, None, {}),
     Own("me", bob, newMail, fancy, {}), Own("patch", bob, bobMail, plain, {segment}),
     Own("me", eve, None, None, {}),
     Asked("me", "expired", cid, cidMail, None, None, NoPatch, {}),
     Asked("me", "misconfigured", cid, cidMail, None, None, NoPatch, {}),
     Asked("delete", "valid", bob, bobMail, None, a1, NoPatch, {}),
     ByAnn("get", b1, NoPatch), ByAnn("delete", b1, NoPatch), ByAnn("delete", q, NoPatch),
     ByAnn("create", None, [NoPatch EXCEPT !.subject = cid, !.role = "gestor"]),
     ByAnn("create", None, [NoPatch EXCEPT !.subject = bob, !.email = newMail, !.role = "membro"]),
     ByAnn("update", b1, [NoPatch EXCEPT !.role = "admin"]),
     ByAnn("update", b1, [NoPatch EXCEPT !.email = cidMail, !.name = plain])}

\* First requests of a subject without a User.
FirstAsks == {Own("me", cid, cidMail, plain, {})}

MCSymmetry == Permutations({r, s})
=====================================================================================
