SPECIFICATION Spec
CONSTANTS
    c1 = c1  c2 = c2  m1 = m1  m2 = m2  m3 = m3
    Chat <- Chats
    Message <- Messages
    ChatOf <- ShownIn
    Home <- Homes
    Filed <- Archived
    MayLose = FALSE
    MaxTriages = 2
    MaxMoves = 0
    MaxRestarts = 0
INVARIANT LastIsUndoable
CHECK_DEADLOCK FALSE
