SPECIFICATION FairSpec

CONSTANTS
    None = None
    u1 = u1
    u2 = u2
    Users = {u1, u2}
    Facts <- CallFacts
    Batches <- CallBatches
    Sessions = {1, 2}
    Writers = {w1, w2}
    Operators = {}
    Readers = {}
    MaxLists = 2
    MaxRevision = 0
    MaxReports = 0

INVARIANT SessionFollowsFacts
INVARIANT SessionsNeverDeadlock
INVARIANT ReceiptsAreTrue
INVARIANT OneRowPerIdentity
INVARIANT ObservationHasSource
PROPERTY CallsEnd
