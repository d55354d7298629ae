SPECIFICATION GateSpec
CONSTANTS
    Requests = {r1, r2}
    Verifying = {r1, r2}
    MaxFailures = 2
    LockTime = 1
    MaxTime = 3
    Ips = {i1, i2}
    WindowTime = 1
    MaxPerIp = 3
    MaxPerEmail = 2
SYMMETRY Symmetry
INVARIANTS LockedIffFailed FailuresBounded AdmissionsBounded
PROPERTIES RefusedHadQuota
