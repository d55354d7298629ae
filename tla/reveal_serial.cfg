SPECIFICATION Spec
CONSTANTS
    ann = ann
    bob = bob
    eve = eve
    gus = gus
    s1 = s1
    s2 = s2
    Nobody = Nobody
    ReqIds = {"q1"}
    Users = {ann, bob, eve}
    Sessions = {s1}
    InitialRole <- Trio
    RoleChanges <- EveMoves
    HeaderClaims <- AnnIsDefault
PROPERTIES
    DualAuthorized
