CONSTANTS
    Host = host
    Client = client
    Buttons = {none, a}
    Idle = none
    Lag = 1
    Ring = 4
    GiveUp = 2
    RequestEvery = 1
    HashEvery = 2
    MaxOpens = 0
    Players = {host, client}
    MaxFrame = 2
    StartMenus = {"open"}
SPECIFICATION FairSpec
INVARIANT LockstepAgreement
PROPERTY WaitEnds
CHECK_DEADLOCK FALSE
