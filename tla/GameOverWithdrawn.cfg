SPECIFICATION Spec
CONSTANTS
    Clients = {c1}
    Suspects = {}
    QueueCapacity = 1
    BulkCapacity = 1
    TOTAL_KINGS_PER_SIDE = 2
    TotalOthers = 1
    MaxMoves = 1
    MaxBulks = 0
    MaxVictims = 1
PROPERTY WinnerStands
CHECK_DEADLOCK FALSE
