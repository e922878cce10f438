SPECIFICATION Spec
CONSTANTS
    Account <- MCOneAccount
    Default <- MCDefault
    Shared <- MCShared
    Parent <- MCParent
    MaxTasks = 2
    MaxCommands = 1
    MaxRestarts = 0
INVARIANTS OptInIsWatched
CHECK_DEADLOCK FALSE
