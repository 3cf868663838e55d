CONSTANTS
    NoKind = NoKind
    NoId = NoId
    Unused = Unused
    Deleted = Deleted
    IdType <- MCIdType
    MaxApps = 2
    Scenario <- MCScenario
SPECIFICATION Spec
INVARIANTS TypeOK OneOfEachKind WhatIsStoredWasAskedFor NothingFromAnotherKind CreatedOnce
PROPERTIES OutcomeIsKept SkippedBeforeStart
