SPECIFICATION Spec
CONSTANTS
    None = None
    u1 = u1
    u2 = u2
    Users = {u1, u2}
    Facts <- ReportFacts
    Batches <- ReportBatches
    Sessions = {1}
    Writers = {w1}
    Operators = {o1}
    Readers = {r1}
    MaxLists = 3
    MaxRevision = 2
    MaxReports = 1
INVARIANT ReceiptsAreTrue
INVARIANT ReportIsOneState
