CONSTANTS
    RepoCount = 2
    Jobs = {j1, j2}
    JobRepo <- MCJobRepo
    JobEdges <- MCJobEdges
    Edges = {"e"}
    Readers = {"d1"}
    MaxKills = 1
    MaxStarts = 4
SYMMETRY JobSymmetry
SPECIFICATION Spec
INVARIANTS CaptureSeesItsFetch SnapshotIsStable FirstSightPersists LocksNeverDeadlock
CHECK_DEADLOCK FALSE
