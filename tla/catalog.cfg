SPECIFICATION Spec
CONSTANTS
    ann = ann  bob = bob  acme = acme  brick = brick  vacant = vacant
    q = q  r = r  s = s  a1 = a1  b1 = b1  colour = colour  tone = tone
    User = {ann, bob}
    Workspace = {acme, brick, vacant}
    Request = {q, r, s}
    Seed = {a1, b1}
    Field = {colour, tone}
    None = None
    Asks <- MCAsks
    Memberships <- MCMemberships
    Rows <- MCRows
    Failures = {"invalid"}
SYMMETRY MCSymmetry
INVARIANTS TypeOK MembersOnlyOfLive ReferencesWithinWorkspace AcceptedUpdateKept RefusedWritesNothing RepeatedDeleteAccepted
PROPERTY ImplementsView
CHECK_DEADLOCK FALSE
