CONSTANTS
    u1 = u1
    u2 = u2
    r1 = r1
    Inputs = {u1, u2, r1}
    SubResults = {r1}
    MaxCalls = 2
    MaxCycles = 2
    MaxStops = 2
    MaxCrashes = 1
    None = None
SPECIFICATION Spec
INVARIANTS
    SessionSound
    InputsKept
    StateCoversTranscript
    LastStepKept
