CONSTANTS
    BOARD_SIZE = 16
    MAX_MOVE_DISTANCE = 2
    MaxMoveCount = 2
    MaxCaptureCount = 1
    Placed <- EdgePieces
    MaxSeqNum = 4
SPECIFICATION Spec
INVARIANTS EveryPieceCanBeAdopted
CHECK_DEADLOCK FALSE
