\* One transaction, a request for it and two administrators; one payment.
SPECIFICATION FairSpec
CONSTANTS
    Txs = {t1}
    Reserves <- MCReserves
    Requests = {r1}
    Admins = {a1, a2}
    Secrets = {s1, s2}
    Amounts = {1}
    Nil = Nil
    Reserve = 1
    Fee = 1
    Budget = 1
    MaxMasterSeq = 1
INVARIANTS
    TypeOK
PROPERTIES
    RetiredSecretsSignNoMore
    SweepsRecoverFunds
