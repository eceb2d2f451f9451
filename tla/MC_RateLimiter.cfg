\* Two keys whose limits may change, two requests in flight.
SPECIFICATION Spec
CONSTANTS
    Keys = {k1, k2}
    Requests = {r1, r2}
    Limits <- TwoLimits
    Largest = 2
    Shortest = 1
    CleanupInterval = 2
    ExpiredWindowGrace = 1
    StaleEntryTTL = 2
    MaxTime = 3
SYMMETRY Symmetry
INVARIANTS
    TypeOK
    WindowCountsGrants
    TwoQuotasPerInterval
PROPERTIES
    LiveWindowsSurvive
    ImplementsQuota
