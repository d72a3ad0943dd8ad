\* One request fits in the channel; a crash or a shutdown at any point, and a
\* second run.  Saves do not overlap.
SPECIFICATION LiveSpec
CONSTANTS
    Moves <- MCMoves
    AdminRequests <- MCAdminRequests
    Accepts <- MCAccepts
    QueueCapacity = 1
    MAX_MOVES_TO_SERIALIZE = 1
    SavesOverlap = FALSE
    MaxApplied = 3
    MaxSnapshots = 1
    MaxRuns = 2
INVARIANTS TypeOK ReplicaTrailsLive NeverPanics ShutdownFlushesEverything EveryRequestIsFiledOnce
 NewestIsLongest
PROPERTIES KeepsDurableBoard AcceptedIsReplayed ShutdownEnds
CHECK_DEADLOCK FALSE
