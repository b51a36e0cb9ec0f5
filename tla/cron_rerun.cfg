CONSTANTS
    heartbeat = heartbeat
    reminder = reminder
    oneshot = oneshot
    Jobs = {heartbeat, reminder}
    System = {heartbeat}
    At <- MCAt
    NoJob = NoJob
    Keep = Keep
    Unreadable = Unreadable
    Idle = Idle
    MaxNow = 2
    MaxCalls = 1
    MaxCorruptions = 0
    MaxExits = 0
SPECIFICATION Spec
PROPERTY
    RunsOncePerDue
