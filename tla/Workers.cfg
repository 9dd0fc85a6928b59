\* Three tasks, queries or mirror jobs, with one slot for each kind.
CONSTANTS
    MaxTasks = 3
    Pushes = {"p1"}
    QUERY_SLOTS = 1
    MIRROR_SLOTS = 1
    MIRROR_QUEUE_SIZE = 1
SPECIFICATION Spec
INVARIANTS GroupsWithinSlots OneTaskPerPush CloseLeavesNothing
PROPERTY WorkEnds
CHECK_DEADLOCK FALSE
