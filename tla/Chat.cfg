SPECIFICATION Spec
CONSTANTS
    SlotId <- MCSlotId
    Rank <- MCRank
    Default = "default"
    Account <- MCAccount
    Spelled <- MCSpelled
    Shared <- MCShared
    Access <- MCAccess
    Code <- MCCode
    Detected <- MCDetected
    BotLanguage = "en"
    OldRecords <- MCOldRecords
    ServerThreads = TRUE
    Dedicated = TRUE
    MaxTopics = 2
    MaxCommands = 2
    MaxLen = 3
    DataLimit = 7
    FieldLimit = 1
    MaxShown = 1
    Text <- MCText
    Id <- MCId
    Generated <- MCGenerated
    Field <- MCField
INVARIANTS
    RecordTypeOK AddressOnce SharedIsOpenedByParent
    TopicsTypeOK 
    ButtonsTypeOK RoutedToItsMailbox ReadMarkIsTrue ChosenLanguageStays
    ChunksHoldTheText ButtonsSurviveTheTrip MarkdownReadsBack
PROPERTIES RecordPromise
CHECK_DEADLOCK FALSE
