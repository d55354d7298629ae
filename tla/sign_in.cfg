SPECIFICATION Spec
CONSTANTS
    Handlers = {h1, h2}
    Codes = {"c1"}
    DevCodes = {"dev"}
    MaxFailures = 2
    LockTime = 1
    CodeTime = 2
    PauseTime = 1
INVARIANTS
    LockNeedsFailures
    CopiesAgree
PROPERTIES
    AcceptedIsFresh
    OwnerGetsIn
