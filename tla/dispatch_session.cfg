CONSTANTS
    s1 = s1
    s2 = s2
    u1 = u1
    u2 = u2
    u3 = u3
    a1 = a1
    a2 = a2
    cmd = cmd
    tmp = tmp
    stop = stop
    new = new
    discard = discard
    None = None
    Msgs = {u1, u2, tmp, a1, stop, new}
    Sessions = {s1}
    Sess <- OneSession
    Kind <- MCKind
    QueueCap = 1
    GateCap = 1
    MaxRounds = 1
SPECIFICATION FairSpec
CHECK_DEADLOCK FALSE
INVARIANTS
    TablesSound
    ExactlyOnce
    QueueHasConsumer
PROPERTY
    ControlReturns
