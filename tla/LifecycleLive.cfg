SPECIFICATION FairSpec
CONSTANTS
    Account <- MCOneAccount
    Default <- MCDefault
    Shared <- MCShared
    Parent <- MCParent
    MaxTasks = 2
    MaxCommands = 1
    MaxRestarts = 1
PROPERTIES CommandsEnd RemovedIsAbandoned
CHECK_DEADLOCK FALSE
