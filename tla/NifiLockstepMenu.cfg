CONSTANTS
    Host = host
    Client = client
    Buttons = {none, a}
    Idle = none
    Lag = 1
    Ring = 4
    GiveUp = 2
    RequestEvery = 1
    HashEvery = 4
    MaxOpens = 1
    Players = {client}
    MaxFrame = 3
    StartMenus = {"open"}
SPECIFICATION Spec
CONSTRAINT KeysOrMenu
INVARIANT RanWithInput
INVARIANT HistoryCovers
PROPERTY PendingInputKept
CHECK_DEADLOCK FALSE
