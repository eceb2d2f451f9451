SPECIFICATION Spec
CONSTANTS
    k1 = k1
    k2 = k2
    None = None
    Keys <- MCKeys
    MaxRuns = 1
PROPERTY GeneratedSecretIsShown
