\* One move of the client or one broken connection, and other changes of the board.
CONSTANTS
    Home <- MCHome
    White <- MCWhite
    Steps <- MCSteps
    BulkVictims <- MCBulkVictims
    MaxSeqNum = 3
    MaxTurns = 1
SPECIFICATION Spec
INVARIANTS SnapshotsAreNotUndone
CHECK_DEADLOCK FALSE
