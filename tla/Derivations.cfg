SPECIFICATION Spec

CONSTANTS
    None = None
    i1 = i1
    i2 = i2
    r1 = r1
    r2 = r2
    s1 = s1
    s2 = s2
    Commits = {0, 1, 2, 3, 4, 5}
    Parents <- MCParents
    Files <- MCFiles
    Similarity <- MCSimilarity
    MirrorNotes <- MCMirrorNotes
    JaccardLookback = 1
    NotesLookback = 2
    Grace = 1
    JaccardFloor = 5
    NotesFloor = 3
    MaxCommits = 2
    BatchSize = 2
    ShareWindow = 1
    DiffLines <- MCDiffLines
    MaxRecoveryDiffLines = 2
    Populations <- MCPopulations
    Boundaries = {2, 4}
    Now = 4

CHECK_DEADLOCK FALSE

INVARIANT LifetimesApart
INVARIANT WitnessesSuffice
INVARIANT LaterFactsInvisible
INVARIANT CommitViewAgrees
INVARIANT ReportsAgree
INVARIANT SourceNeverMoves
INVARIANT RunHistoryIsHonest
INVARIANT MembershipHolds
INVARIANT RecoveriesAreReal
INVARIANT DecisionsKeepTheirVerdict
