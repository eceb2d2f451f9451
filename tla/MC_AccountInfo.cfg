SPECIFICATION CardSpec
CONSTANT Loads <- MCLoads
INVARIANT CardTypeOK
INVARIANT FoundStaysFound
INVARIANT OfferIsFinal
PROPERTY FundingIsSeen
CHECK_DEADLOCK FALSE
