CONSTANTS
    BOARD_SIZE = 16
    MAX_MOVE_DISTANCE = 3
    MaxMoveCount = 3
    MaxCaptureCount = 1
    Placed <- BackRankPieces
    MaxSeqNum = 4
SPECIFICATION Spec
INVARIANTS UniqueIds UnmovedAtHome KingsStayOnTheirBoard ClientKnowsTheRules
PROPERTY UnmovedAreSafeFromOtherBoards
CHECK_DEADLOCK FALSE
