CONSTANTS
 Ids = {p, q}
 BoardSquares = {a, b}
 MaxToken = 3
 MaxActionId = 4
 NoCoords = NoCoords
 Clicked = {160}
 Typed = {8100}
 DefaultPlaces = {100}
 PanSteps <- MCPanSteps
 OuterSizes <- MCOuterSizes
 Budgets <- MCBudgets
 MaxWaiting = 1
 Kinds <- MCKinds
 NoColor = NoColor
 MaxEvents = 2
 MaxColors = 3
 MaxErrors = 1
SPECIFICATION PartsSpec
INVARIANTS IndexesAgree SubscribedWhereItLooks NothingKnownIsForgotten MeaningSurvives
PROPERTIES RevertsAreComplete ComesToRest
CHECK_DEADLOCK FALSE
