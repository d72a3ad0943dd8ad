CONSTANTS
    BOARD_SIZE = 16
    MAX_MOVE_DISTANCE = 2
    MaxMoveCount = 3
    MaxCaptureCount = 2
    Placed <- PawnPieces
    MaxSeqNum = 8
SPECIFICATION Spec
INVARIANTS TypeOK CapturesAccountForMissing DoubleMovedTwoAhead NoPawnOnLastRank ClientKnowsTheRules
PROPERTIES PredictsTheMove
CHECK_DEADLOCK FALSE
