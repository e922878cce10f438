SPECIFICATION FairSpec
CONSTANTS
    InitialBackoff = 2
    MaxBackoff = 300
    Threshold = 5
    MayLose = FALSE
    MaxFailures = 10
PROPERTIES RecoveryIsAnnounced
CHECK_DEADLOCK FALSE
