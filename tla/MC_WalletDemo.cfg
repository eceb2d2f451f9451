SPECIFICATION Spec
CONSTANTS
    k1 = k1
    k2 = k2
    None = None
    Keys <- MCKeys
    MaxRuns = 2
INVARIANT TypeOK
INVARIANT SuccessIsOnLedger
INVARIANT FormShowsItsRun
INVARIANT StepsTickedOffAreDone
PROPERTY RunsEnd
