SPECIFICATION FairSpec
CONSTANTS
    InitialBackoff = 2
    MaxBackoff = 300
    Threshold = 5
    MayLose = FALSE
    MaxFailures = 10
INVARIANTS BackoffTypeOK NoticesAlternate
PROPERTIES AlarmIsEarned OutageIsAnnounced
CHECK_DEADLOCK FALSE
