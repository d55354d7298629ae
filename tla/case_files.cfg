SPECIFICATION Spec
CONSTANTS
    h1 = h1
    h2 = h2
    Handlers = {h1, h2}
    Cases = {"C1"}
    Evidence = {"E1"}
    MaxRequests = 4
SYMMETRY Symmetries
INVARIANTS
    CreatedOnce
    StatusIsAccountedFor
    EvidenceIsAccountedFor
    VerdictIsLatest
CHECK_DEADLOCK FALSE
