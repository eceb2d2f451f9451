SPECIFICATION FormsSpec
CONSTANTS
    create_tab = create_tab
    key_tab = key_tab
    NoEnvelope = NoEnvelope
    Tabs <- MCTabs
    CreateTabs <- MCCreateTabs
    MaxMounts = 2
    MaxCalls = 2
    MaxSeq = 2
INVARIANT FormsTypeOK
INVARIANT PaysOncePerMount
INVARIANT DoneIsPaid
CHECK_DEADLOCK FALSE
