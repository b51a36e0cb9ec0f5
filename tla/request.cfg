CONSTANTS
    r1 = r1
    r2 = r2
    None = None
    Requests = {r1, r2}
    Plans <- MCPlans
    Fallbacks = 2
    Retries = 2
    Identical = 2
    Threshold = 3
SPECIFICATION FairSpec
INVARIANTS
    SegmentsWhole
    CallsSound
PROPERTIES
    BreakerHolds
    RequestEnds
