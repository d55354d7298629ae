SPECIFICATION Spec
CONSTANTS
    ann = ann
    bob = bob
    eve = eve
    gus = gus
    s1 = s1
    s2 = s2
    Nobody = Nobody
    ReqIds = {"q1"}
    Users = {ann, bob, eve, gus}
    Sessions = {s1, s2}
    InitialRole <- Staff
    RoleChanges <- NoClaims
    HeaderClaims <- AnnIsDefault
SYMMETRY Handlers
INVARIANTS
    NoSelfApproval
    DisclosedIsOnRecord
    RevealsBounded
    AuditedHappened
