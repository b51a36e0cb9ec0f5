CONSTANTS
    MaxSaid = 6
    MaxNew = 1
    MaxFaults = 1
    FileCap = 3
    Objects = {1, 2, 3, 4}
    None = None
SPECIFICATION Spec
INVARIANTS
    CacheSound
    ArchivedExactly
    FreshUnlessRaced
