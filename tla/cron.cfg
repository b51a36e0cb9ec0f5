CONSTANTS
    heartbeat = heartbeat
    reminder = reminder
    oneshot = oneshot
    Jobs = {heartbeat, reminder, oneshot}
    System = {heartbeat}
    At <- MCAt
    NoJob = NoJob
    Keep = Keep
    Unreadable = Unreadable
    Idle = Idle
    MaxNow = 2
    MaxCalls = 2
    MaxCorruptions = 1
    MaxExits = 1
SPECIFICATION FairSpec
INVARIANTS
    TableSound
    CompletedOnce
    JobsSurvive
PROPERTY
    DueJobsRun
