\* One move of the client, dropped because it is over its rate.
CONSTANTS
    Home <- MCHome
    White <- MCWhite
    Steps <- MCSteps
    BulkVictims <- MCBulkVictims
    MaxSeqNum = 1
    MaxTurns = 1
SPECIFICATION SpecWithDrops
PROPERTIES EveryMoveIsResolved
CHECK_DEADLOCK FALSE
