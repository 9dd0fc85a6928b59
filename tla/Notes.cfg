SPECIFICATION Spec

CONSTANTS
    Clones = {k1, k2}
    Worktrees = {w1, w2}
    k1 = k1
    k2 = k2
    w1 = w1
    w2 = w2
    Commits = {c0, c1}
    Base = c0
    Sessions = {s1, s2}
    MaxMarks = 2
    MaxWrites = 3
    MaxFaults = 1
    MaxMisreads = 0
    None = None
    Settings <- LayoutsAndFaults

SYMMETRY Alike

INVARIANT EvidenceRetained
INVARIANT SuccessMeansPushed
PROPERTY NotesNeverShrink
