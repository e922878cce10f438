SPECIFICATION FairSpec
CONSTANTS
    Change <- MCChangeLive
    MaxChanges = 1
    OwnTopic = FALSE
    MayExpire = TRUE
    MaxLog = 2
    MaxGone = 1
    MaxRestarts = 1
    MaxLogins = 0
    MaxCommands = 1
PROPERTIES EveryChangeReached MemoryPromise FilePromise
CHECK_DEADLOCK FALSE
