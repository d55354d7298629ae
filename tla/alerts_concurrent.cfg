SPECIFICATION Spec
CONSTANTS
    s1 = s1
    s2 = s2
    ann = ann
    bob = bob
    Nobody = Nobody
    Reviewers = {ann, bob}
    Alerts = {"a1"}
    Sessions = {s1, s2}
SYMMETRY Symmetries
INVARIANTS
    LogsFollowTheTable
    RowIsAccountedFor
