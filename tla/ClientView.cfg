\* Two moves of the client, or one and a broken connection, against two other
\* changes of the board.
CONSTANTS
    Home <- MCHome
    White <- MCWhite
    Steps <- MCSteps
    BulkVictims <- MCBulkVictims
    MaxSeqNum = 3
    MaxTurns = 2
SPECIFICATION Spec
INVARIANTS RecordsAreHistory
PROPERTIES NeverBackInTime MessagesLeaveNoClash EveryMoveIsResolved ViewConverges
CHECK_DEADLOCK FALSE
