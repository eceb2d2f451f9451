\* Two addresses, two requests in flight, blocks longer than windows.
SPECIFICATION Spec
CONSTANTS
    Addresses = {a1, a2}
    Requests = {r1, r2}
    Nil = Nil
    MaxFailures = 2
    WindowLength = 1
    BlockDuration = 3
    CleanupEvery = 1
    StaleEntryTTL = 1
    MaxTime = 5
SYMMETRY Symmetry
INVARIANTS
    TypeOK
    FailuresBounded
PROPERTIES
    BlocksHold
