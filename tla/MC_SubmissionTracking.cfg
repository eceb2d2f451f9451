\* Two transactions, one listing with a single slot, and one check.
SPECIFICATION FairSpec
CONSTANTS
    Txs = {t1, t2}
    Lists = {l1}
    Checks = {c1}
    Nil = Nil
    MaxConcurrentChecks = 1
INVARIANTS
    TypeOK
    ConfirmedIsOnLedger
PROPERTIES
    ListingsAnswer
    ConfirmationSettles
