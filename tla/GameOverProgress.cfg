SPECIFICATION ProgressSpec
CONSTANTS
    Clients = {c1}
    Suspects = {}
    QueueCapacity = 1
    BulkCapacity = 1
    TOTAL_KINGS_PER_SIDE = 1
    TotalOthers = 1
    MaxMoves = 3
    MaxBulks = 1
    MaxVictims = 2
PROPERTIES
    PumpsAreReleased
    EndIsNoticed
    AcceptedIsAnswered
    QueueKeepsMoving
CHECK_DEADLOCK FALSE
