\* One key: an activation in flight against a revocation.
SPECIFICATION Spec
CONSTANTS
    Keys = {k1}
    Accounts = {a1, a2}
    Requests = {r1, r2}
    Nil = Nil
    MaxSeq = 2
PROPERTY RevocationIsPermanent
