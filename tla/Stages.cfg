CONSTANTS
    Exports = {o1, o2, o3}
    Publishers = {p1, p2}
    Members = {"rows", "manifest"}
SYMMETRY StageSymmetry
SPECIFICATION Spec
INVARIANTS LiveStageKept PayloadIsFindable PublishedIsWhole
PROPERTY NeverReplaced
CHECK_DEADLOCK FALSE
