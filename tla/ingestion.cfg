SPECIFICATION Spec
CONSTANTS
    h1 = h1
    h2 = h2
    n1 = n1
    n2 = n2
    Handlers = {h1, h2}
    Cases = {"C1"}
    Names = {n1, n2}
    Contents <- SmallContents
    MaxRequests = 2
SYMMETRY Symmetries
INVARIANTS
    RecordedIsDone
    StoredIsRecorded
    AlertsRestOnRows
    NodesCanBeRevealed
