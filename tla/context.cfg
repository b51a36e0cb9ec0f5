CONSTANTS
    MaxUnits = 5
    Rounds <- MCRounds
    FileCap = 8
    Window = 7
    Suffix = 2
    Replay = 8
    Goal = 4
    Budget = 8
    Target = 6
    Big = 5
SPECIFICATION ContextSpec
CHECK_DEADLOCK FALSE
INVARIANTS
    RequestSound
    InflightOnly
    HiddenArchivedWithUser
