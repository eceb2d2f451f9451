\* Two keys, two sponsor key pairs, two concurrent requests.
SPECIFICATION Spec
CONSTANTS
    Keys = {k1, k2}
    Accounts = {a1, a2}
    Requests = {r1, r2}
    Nil = Nil
    MaxSeq = 2
SYMMETRY Symmetry
INVARIANTS
    TypeOK
    ActiveKeyOwnsFundedAccount
PROPERTIES
    SettledKeyOnlyRevokes
    ImplementsContract
