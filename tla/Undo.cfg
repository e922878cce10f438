SPECIFICATION Spec
CONSTANTS
    c1 = c1  c2 = c2  m1 = m1  m2 = m2  m3 = m3
    Chat <- Chats
    Message <- Messages
    ChatOf <- ShownIn
    Home <- Homes
    Filed <- Archived
    MayLose = TRUE
    MaxTriages = 2
    MaxMoves = 1
    MaxRestarts = 1
INVARIANTS TypeOK GaugeIsExact
PROPERTIES RestoreIsExact
CHECK_DEADLOCK FALSE
