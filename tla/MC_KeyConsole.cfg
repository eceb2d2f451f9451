SPECIFICATION Spec
CONSTANTS
    c1 = c1
    c2 = c2
    None = None
    Idle = Idle
    Asked = Asked
    Calls <- MCCalls
    MaxVer = 3
INVARIANT TypeOK
INVARIANT OwnWritesAreSeen
PROPERTY PageNeverGoesBack
PROPERTY SecretsAppearInOrder
PROPERTY RevocationIsSeen
