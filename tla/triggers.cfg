CONSTANTS
    t1 = t1
    t2 = t2
    NoFile = NoFile
    Deliveries = {2, 3}
    Triggers = {t1, t2}
    TriggerOf <- MCTriggerOf
    Reachable = {t1, t2}
    MaxAttempts = 3
    BatchSize = 2
    MaxCrashes = 3
SPECIFICATION FairSpec
INVARIANTS
    FilesSound
    NothingLost
    SubmitsBounded
PROPERTIES
    ImplementsQueue
    DeliveriesEnd
