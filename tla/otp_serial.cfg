SPECIFICATION Spec
CONSTANTS
    Requests = {r1}
    MaxAttempts = 2
    Expiry = 2
    Cooldown = 2
    MaxCodes = 3
    MaxTime = 5
PROPERTIES ImplementsOneTimeCode
CHECK_DEADLOCK FALSE
