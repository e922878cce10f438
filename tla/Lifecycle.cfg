SPECIFICATION Spec
CONSTANTS
    Account <- MCTwoAccounts
    Default <- MCDefault
    Shared <- MCShared
    Parent <- MCParent
    MaxTasks = 4
    MaxCommands = 2
    MaxRestarts = 0
INVARIANTS TypeOK WatcherIsHeld AccountIsWatched SharedHasParent
CHECK_DEADLOCK FALSE
