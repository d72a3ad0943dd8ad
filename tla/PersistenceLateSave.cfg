\* A periodic save that starts after the last one.
SPECIFICATION Spec
CONSTANTS
    Moves <- MCMoves
    AdminRequests <- MCAdminRequests
    Accepts <- MCAccepts
    QueueCapacity = 1
    MAX_MOVES_TO_SERIALIZE = 2
    SavesOverlap = TRUE
    MaxApplied = 1
    MaxSnapshots = 1
    MaxRuns = 1
INVARIANT CleanRestartResumes
CHECK_DEADLOCK FALSE
