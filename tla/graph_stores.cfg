SPECIFICATION GraphSpec
CONSTANTS
    g1 = g1
    g2 = g2
    ann = ann
    bob = bob
    CaseNode = CaseNode
    Threads = {g1, g2}
    Persons = {ann, bob}
    Batches <- MCBatches
    Payloads <- MCPayloads
    MaxCalls = 3
SYMMETRY Symmetries
INVARIANTS
    StoredIsInMemory
    InMemoryIsStored
