\* Transactions of up to five operations, for two API keys.
SPECIFICATION Spec
CONSTANTS
    user = user
    new = new
    Accounts <- MCAccounts
    Sponsor = Sponsor
    Nil = Nil
    ApiKeys <- MCApiKeys
    Types <- MCTypes
    MaxClaimants = 2
    MaxOps = 5
CHECK_DEADLOCK FALSE
INVARIANTS
    TypeOK
    StackIsTheLedgers
    ReservesCoverLedger
PROPERTIES
    VerdictFollowsTheRules
