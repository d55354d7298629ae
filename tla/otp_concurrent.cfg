SPECIFICATION Spec
CONSTANTS
    Requests = {r1, r2, r3}
    MaxAttempts = 2
    Expiry = 0
    Cooldown = 1
    MaxCodes = 2
    MaxTime = 1
SYMMETRY Handlers
INVARIANTS GuessesBounded SuccessesBounded
PROPERTIES StoredCodeIsNew RemovedByCauseOrStale
CHECK_DEADLOCK FALSE
