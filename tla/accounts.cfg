SPECIFICATION Spec
CONSTANTS
    ann = ann  bob = bob  cid = cid  eve = eve  q = q  r = r  s = s  a1 = a1  b1 = b1  e1 = e1
    annMail = annMail  bobMail = bobMail  cidMail = cidMail  newMail = newMail
    plain = plain  fancy = fancy  tone = tone  segment = segment
    Request = {q, r, s}
    Seed = {a1, b1, e1}
    Subject = {ann, bob, cid, eve}
    Email = {annMail, bobMail, cidMail, newMail}
    Name = {plain, fancy}
    Field = {tone, segment}
    NotNull = {tone}
    None = None
    Asks <- MCAsks
    Users <- MCUsers
    AuthRequired = TRUE
    SignupErrors = {"timeout"}
SYMMETRY MCSymmetry
INVARIANTS TypeOK OneUserPerSubject SignupWhole RefusedLeavesNothing SettingsKept
PROPERTIES RolesGrantedByAdmins DeletionIsFinal
CHECK_DEADLOCK FALSE
