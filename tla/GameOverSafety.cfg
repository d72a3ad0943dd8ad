SPECIFICATION SafetySpec
CONSTANTS
    Clients = {c1, c2}
    Suspects = {c1}
    QueueCapacity = 1
    BulkCapacity = 1
    TOTAL_KINGS_PER_SIDE = 2
    TotalOthers = 1
    MaxMoves = 1
    MaxBulks = 1
    MaxVictims = 1
INVARIANTS
    TypeOK
    WinnersWon
    AnswersTellTheTruth
PROPERTIES
    TheWinningMoveIsTheLast
    AnswersAreFinal
CHECK_DEADLOCK FALSE
