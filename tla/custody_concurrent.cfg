SPECIFICATION Spec
CONSTANTS
    c1 = c1
    c2 = c2
    r1 = r1
    r2 = r2
    r3 = r3
    Cases = {c1, c2}
    Requests = {r1, r2, r3}
    Entries = {"upload", "verify"}
    CasesOf <- SharedCases
    MaxRows = 3
INVARIANTS
    NoDanglingLink
    InvalidIffForked
    OneWriterVerifies
PROPERTIES
    AppendOnlyLedger
