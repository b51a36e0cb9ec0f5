CONSTANTS
    s1 = s1
    s2 = s2
    u1 = u1
    u2 = u2
    u3 = u3
    a1 = a1
    a2 = a2
    cmd = cmd
    tmp = tmp
    stop = stop
    new = new
    discard = discard
    None = None
    Msgs = {u1, a1, a2, discard, u3, cmd}
    Sessions = {s1, s2}
    Sess <- TwoSessions
    Kind <- MCKind
    QueueCap = 1
    GateCap = 1
    MaxRounds = 0
SPECIFICATION FairSpec
INVARIANTS
    StoppedByCommand
    NoStrandedDeferred
PROPERTIES
    EveryMessageSettles
    AutomationAnswered
