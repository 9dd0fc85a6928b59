SPECIFICATION Spec
CONSTANTS
    None = None
    u1 = u1
    u2 = u2
    Users = {u1, u2}
    Facts <- TwoFacts
    Batches <- OneCall
    Sessions = {1}
    Writers = {w1}
    Operators = {o1, o2}
    Readers = {r1}
    MaxLists = 9
    MaxRevision = 2
    MaxReports = 2
INVARIANT RevisionNamesVisibility
