SPECIFICATION Spec
CONSTANTS
    Change <- MCChange
    MaxChanges = 2
    OwnTopic = TRUE
    MayExpire = FALSE
    MaxLog = 3
    MaxGone = 0
    MaxRestarts = 1
    MaxLogins = 1
    MaxCommands = 1
INVARIANTS TypeOK CursorNeverOvertakes SyncInFlight AnnouncedOnce FiltersTakeHold HistoryStaysQuiet
CHECK_DEADLOCK FALSE
