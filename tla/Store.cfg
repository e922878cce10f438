SPECIFICATION Spec
CONSTANTS
    c1 = c1
    c2 = c2
    Chat <- MCChat
    MaxChanges = 4
    MaxCrashes = 2
SYMMETRY MCSymmetry
INVARIANTS TypeOK FileIsWhole AckedIsInFile SyncedSurvives FileIsOneMoment
CHECK_DEADLOCK FALSE
